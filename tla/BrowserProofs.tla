---------------------------- MODULE BrowserProofs ----------------------------
(***************************************************************************)
(* Proofs about what lives beside the screens.  ClientCache implements     *)
(* CachedView, for any hooks and any number of requests under way, and a   *)
(* screen is not behind its own write without knowing.  The way in, for    *)
(* any number of tabs, visits and requests, and the cached keys, for any   *)
(* number of requests that verify a token.                                 *)
(***************************************************************************)
EXTENDS ClientCache, Entry, KeyCache, TLAPS

-----------------------------------------------------------------------------
(* The cache of the client *)

Request == [fetch : Fetch, read : NoData .. MaxWrites]
Entry == [data : NoData .. MaxWrites, invalid : BOOLEAN, error : BOOLEAN,
          mounted : BOOLEAN, fetch : Fetch \cup {NoFetch}]

\* The current fetch, once the server has evaluated it, is not older than what
\* the entry has; requests of other fetches may be as old as they like.
NewerThanShown(r) == (r.fetch = entry.fetch /\ r.read # NoData) => entry.data <= r.read

\* No answer is from the future, and a fetch that is under way is current or
\* abandoned for good: its number is not given away before it has ended.
Ordered ==
  /\ truth \in 0 .. MaxWrites
  /\ entry \in Entry
  /\ entry.data <= truth
  /\ flight \subseteq Request
  /\ \A r \in flight : r.read <= truth /\ NewerThanShown(r)

\* An empty cache is ordered, and shows nothing yet.
LEMMA CacheInit == Init => Ordered /\ View!Init
BY CacheAssumption DEF Init, Ordered, Entry, View!Init, NoData, View!NoData, NoFetch, NewerThanShown

\* A fetch that starts takes the number of no request under way.
LEMMA StartedFetch ==
  ASSUME Ordered, NEW f \in Fetch, Free(f), flight' = flight \cup {Sent(f)},
         UNCHANGED truth,
         entry' \in Entry, entry'.data = entry.data, entry'.fetch = f
  PROVE  Ordered'
<1>1. Sent(f) \in Request
  BY CacheAssumption DEF Sent, Request, NoData
<1>2. \A r \in flight' : r.read <= truth' /\ NewerThanShown(r)'
  BY CacheAssumption DEF Ordered, Free, Sent, NewerThanShown, NoData
<1> QED
  BY <1>1, <1>2 DEF Ordered

\* What changes neither the data nor the requests, and starts no fetch.
LEMMA KeptEntry ==
  ASSUME Ordered, UNCHANGED <<truth, flight>>,
         entry' \in Entry, entry'.data = entry.data, entry'.fetch \in {entry.fetch, NoFetch}
  PROVE  Ordered'
BY CacheAssumption DEF Ordered, NewerThanShown, Request, Fetch, NoFetch

\* Fields of an entry, changed.
LEMMA StartedEntry ==
  ASSUME NEW e \in Entry, NEW f \in Fetch, NEW b \in BOOLEAN
  PROVE  /\ [e EXCEPT !.mounted = b, !.fetch = f] \in Entry
         /\ [e EXCEPT !.fetch = f] \in Entry
         /\ [e EXCEPT !.invalid = b, !.fetch = f] \in Entry
         /\ [e EXCEPT !.mounted = b] \in Entry
         /\ [e EXCEPT !.invalid = b] \in Entry
         /\ [e EXCEPT !.error = b, !.fetch = NoFetch] \in Entry
BY DEF Entry

\* Observers come and go, offline and online: a fetch may start, the data stays.
LEMMA ObserverStep ==
  ASSUME Ordered, Mount \/ Unmount \/ Reconnect
  PROVE  Ordered' /\ UNCHANGED <<truth, entry.data>>
<1>1. entry \in Entry
  BY DEF Ordered
<1>2. CASE Mount
  <2>1. UNCHANGED truth
    BY <1>2 DEF Mount
  <2>2. CASE \E f \in Fetch : /\ Free(f) /\ flight' = flight \cup {Sent(f)}
                              /\ entry' = [entry EXCEPT !.mounted = TRUE, !.fetch = f]
    <3>1. PICK f \in Fetch : /\ Free(f) /\ flight' = flight \cup {Sent(f)}
                             /\ entry' = [entry EXCEPT !.mounted = TRUE, !.fetch = f]
      BY <2>2
    <3>2. entry' \in Entry /\ entry'.data = entry.data /\ entry'.fetch = f
      BY <1>1, <3>1, StartedEntry DEF Entry
    <3> QED
      BY <2>1, <3>1, <3>2, StartedFetch
  <2>3. CASE entry' = [entry EXCEPT !.mounted = TRUE] /\ UNCHANGED flight
    <3>1. entry' \in Entry /\ entry'.data = entry.data /\ entry'.fetch = entry.fetch
      BY <1>1, <2>3, StartedEntry DEF Entry
    <3> QED
      BY <2>1, <2>3, <3>1, KeptEntry
  <2> QED
    BY <1>2, <2>2, <2>3 DEF Mount
<1>3. CASE Unmount
  <2>1. entry' \in Entry /\ entry'.data = entry.data /\ entry'.fetch = entry.fetch
    BY <1>1, <1>3, StartedEntry DEF Entry, Unmount
  <2> QED
    BY <1>3, <2>1, KeptEntry DEF Unmount
<1>4. CASE Reconnect
  <2>1. PICK f \in Fetch : /\ Free(f) /\ flight' = flight \cup {Sent(f)}
                           /\ entry' = [entry EXCEPT !.fetch = f]
    BY <1>4 DEF Reconnect
  <2>2. entry' \in Entry /\ entry'.data = entry.data /\ entry'.fetch = f
    BY <1>1, <2>1, StartedEntry DEF Entry
  <2> QED
    BY <1>4, <2>1, <2>2, StartedFetch DEF Reconnect
<1> QED
  BY <1>2, <1>3, <1>4

\* The server reads what is true now, which nothing shown is ahead of.
LEMMA ReadStep ==
  ASSUME Ordered, NEW r \in flight, Read(r)
  PROVE  Ordered' /\ UNCHANGED <<truth, entry.data>>
<1> DEFINE answer == [r EXCEPT !.read = truth]
<1>1. answer \in Request /\ answer.fetch = r.fetch /\ answer.read = truth
  BY CacheAssumption DEF Ordered, Request, NoData
<1>2. flight' = (flight \ {r}) \cup {answer} /\ UNCHANGED <<truth, entry>>
  BY DEF Read
<1>3. ASSUME NEW q \in flight' PROVE q.read <= truth' /\ NewerThanShown(q)'
  <2>1. CASE q = answer
    BY <1>1, <1>2, <2>1, CacheAssumption DEF Ordered, NewerThanShown
  <2>2. CASE q \in flight
    BY <1>2, <2>2 DEF Ordered, NewerThanShown
  <2> QED
    BY <1>2, <2>1, <2>2
<1> QED
  BY <1>1, <1>2, <1>3 DEF Ordered

\* An answer is shown only if its fetch is the current one: then it is at least
\* as new as what it replaces, and no fetch is current any more.
LEMMA ArriveStep ==
  ASSUME Ordered, NEW r \in flight, Arrive(r)
  PROVE  /\ Ordered' /\ UNCHANGED truth
         /\ UNCHANGED entry.data \/ (entry.data <= entry'.data /\ entry'.data \in 0 .. truth)
<1>1. r \in Request /\ r.read # NoData /\ r.read <= truth /\ NewerThanShown(r)
  BY DEF Ordered, Arrive
<1>2. flight' \subseteq flight /\ UNCHANGED truth
  BY DEF Arrive
<1>3. CASE r.fetch = entry.fetch
  <2>1. entry' = [entry EXCEPT !.data = r.read, !.invalid = FALSE,
                               !.error = FALSE, !.fetch = NoFetch]
    BY <1>3 DEF Arrive, Current
  <2>2. entry' \in Entry /\ entry'.data = r.read /\ entry'.fetch = NoFetch
    BY <1>1, <2>1 DEF Ordered, Entry, Request
  <2>3. entry.data <= r.read /\ r.read \in 0 .. truth
    BY <1>1, <1>3, CacheAssumption DEF NewerThanShown, Request, NoData, Ordered
  <2>4. \A q \in flight' : q.read <= truth' /\ NewerThanShown(q)'
    BY <1>2, <2>2, CacheAssumption DEF Ordered, NewerThanShown, Request, Fetch, NoFetch
  <2> QED
    BY <1>1, <1>2, <2>2, <2>3, <2>4 DEF Ordered, Entry
<1>4. CASE r.fetch # entry.fetch
  <2>1. UNCHANGED entry
    BY <1>4 DEF Arrive, Current
  <2> QED
    BY <1>2, <2>1 DEF Ordered, NewerThanShown
<1> QED
  BY <1>3, <1>4

\* A request that fails leaves the data.
LEMMA FailStep ==
  ASSUME Ordered, NEW r \in flight, Fail(r)
  PROVE  Ordered' /\ UNCHANGED <<truth, entry.data>>
<1>1. flight' \subseteq flight /\ UNCHANGED truth
  BY DEF Fail
<1>2. CASE r.fetch = entry.fetch
  <2>1. entry' = [entry EXCEPT !.error = TRUE, !.fetch = NoFetch]
    BY <1>2 DEF Fail, Current
  <2>2. entry' \in Entry /\ entry'.data = entry.data /\ entry'.fetch = NoFetch
    BY <2>1 DEF Ordered, Entry
  <2>3. \A q \in flight' : q.read <= truth' /\ NewerThanShown(q)'
    BY <1>1, <2>2, CacheAssumption DEF Ordered, NewerThanShown, Request, Fetch, NoFetch
  <2> QED
    BY <1>1, <2>2, <2>3 DEF Ordered
<1>3. CASE r.fetch # entry.fetch
  <2>1. UNCHANGED entry
    BY <1>3 DEF Fail, Current
  <2> QED
    BY <1>1, <2>1 DEF Ordered, NewerThanShown
<1> QED
  BY <1>2, <1>3

\* Collecting the entry forgets what was shown.
LEMMA CollectStep ==
  ASSUME Ordered, Collect
  PROVE  Ordered' /\ UNCHANGED truth /\ entry'.data = NoData
<1>1. /\ entry' = [entry EXCEPT !.data = NoData, !.invalid = FALSE, !.error = FALSE]
      /\ UNCHANGED <<truth, flight>>
  BY DEF Collect
<1> DEFINE none == NoData
<1>2. none \in NoData .. MaxWrites
  BY CacheAssumption DEF NoData
<1> HIDE DEF none
<1>3. entry' = [entry EXCEPT !.data = none, !.invalid = FALSE, !.error = FALSE]
  BY <1>1 DEF none
<1>4. entry' \in Entry /\ entry'.data = none /\ entry'.fetch = entry.fetch
  BY <1>2, <1>3 DEF Ordered, Entry
<1>5. \A q \in flight' : q.read <= truth' /\ NewerThanShown(q)'
  BY <1>1, <1>4, CacheAssumption DEF Ordered, NewerThanShown, NoData, Request, none
<1> QED
  BY <1>1, <1>4, <1>5, CacheAssumption DEF Ordered, NoData, none

\* A write makes what is shown and what is under way older than the truth.
LEMMA WriteStep ==
  ASSUME Ordered, Commit \/ Elsewhere
  PROVE  Ordered' /\ UNCHANGED entry.data /\ truth' \in {truth, truth + 1}
<1>1. UNCHANGED <<entry, flight>> /\ truth' \in 0 .. MaxWrites /\ truth' \in {truth, truth + 1}
  BY CacheAssumption DEF Ordered, Commit, Elsewhere
<1>2. \A q \in flight' : q.read <= truth' /\ NewerThanShown(q)'
  BY <1>1, CacheAssumption DEF Ordered, NewerThanShown, Request, NoData
<1> QED
  BY <1>1, <1>2, CacheAssumption DEF Ordered, Entry, NoData

\* A success invalidates the entry and may restart its fetch; the data stays.
LEMMA SucceedStep ==
  ASSUME Ordered, Succeed
  PROVE  Ordered' /\ UNCHANGED <<truth, entry.data>>
<1>1. entry \in Entry /\ UNCHANGED truth
  BY DEF Ordered, Succeed
<1>2. CASE UNCHANGED <<entry, flight>>
  BY <1>1, <1>2 DEF Ordered, NewerThanShown
<1>3. CASE Invalidate
  <2>1. CASE Refetches
    <3>1. PICK f \in Fetch : /\ Free(f) /\ flight' = flight \cup {Sent(f)}
                             /\ entry' = [entry EXCEPT !.invalid = TRUE, !.fetch = f]
      BY <1>3, <2>1 DEF Invalidate
    <3>2. entry' \in Entry /\ entry'.data = entry.data /\ entry'.fetch = f
      BY <1>1, <3>1, StartedEntry DEF Entry
    <3> QED
      BY <1>1, <3>1, <3>2, StartedFetch
  <2>2. CASE ~Refetches
    <3>1. /\ entry' = [entry EXCEPT !.invalid = (entry.data # NoData \/ Fetching(entry))]
          /\ UNCHANGED flight
      BY <1>3, <2>2 DEF Invalidate
    <3>2. (entry.data # NoData \/ Fetching(entry)) \in BOOLEAN
      OBVIOUS
    <3>3. entry' \in Entry /\ entry'.data = entry.data /\ entry'.fetch = entry.fetch
      BY <1>1, <3>1, <3>2, StartedEntry DEF Entry
    <3> QED
      BY <1>1, <3>1, <3>3, KeptEntry
  <2> QED
    BY <2>1, <2>2
<1> QED
  BY <1>2, <1>3 DEF Succeed

\* Every step keeps the order and is one of CachedView's, or changes neither
\* the truth nor what is shown.
LEMMA CacheStep ==
  ASSUME Ordered, [Next]_vars
  PROVE  Ordered' /\ [View!Next]_<<truth, entry.data>>
<1>1. entry.data \in Int /\ truth \in Nat /\ entry.data <= truth
  BY CacheAssumption DEF Ordered, Entry, NoData
<1>2. CASE UNCHANGED vars
  BY <1>2 DEF vars, Ordered, NewerThanShown
<1>3. CASE Mount \/ Unmount \/ Reconnect
  BY <1>3, ObserverStep
<1>4. CASE Collect
  BY <1>4, CollectStep DEF View!Next, View!Forget, View!NoData, NoData
<1>5. ASSUME NEW r \in flight, Read(r) \/ Arrive(r) \/ Fail(r)
      PROVE  Ordered' /\ [View!Next]_<<truth, entry.data>>
  <2>1. CASE Read(r)
    BY <2>1, ReadStep
  <2>2. CASE Arrive(r)
    BY <1>1, <2>2, ArriveStep DEF View!Next, View!Show
  <2>3. CASE Fail(r)
    BY <2>3, FailStep
  <2> QED
    BY <1>5, <2>1, <2>2, <2>3
<1>6. CASE Commit \/ Elsewhere
  BY <1>6, WriteStep DEF View!Next, View!Write
<1>7. CASE Succeed
  BY <1>7, SucceedStep
<1>8. CASE Reject \/ RollBack \/ \E h \in Mutation : Mutate(h)
  BY <1>8 DEF Reject, RollBack, Mutate, Ordered, NewerThanShown
<1> QED
  BY <1>2, <1>3, <1>4, <1>5, <1>6, <1>7, <1>8 DEF Next

\* The cache keeps the promise that the screens are built on.
THEOREM CacheShowsView == Spec => ViewSpec
BY CacheInit, CacheStep, PTL DEF Spec, ViewSpec, View!Spec

-----------------------------------------------------------------------------
(* Own writes *)

\* What the hooks are for: a mutation invalidates what it changes of the screens
\* that issue it, but for the known gaps.
ScreensInvalidated ==
  \A h \in Mutation : (Screen[h] \cap Affects[h]) \ Forgets[h] \subseteq Invalidates[h]

Effects == [writes : BOOLEAN, invalidates : BOOLEAN, shown : BOOLEAN]
Mutating == [effect : Effects, stage : {"idle", "sent", "committed"}, told : BOOLEAN,
             version : 0 .. MaxWrites]

\* A mutation that is committed made a version that the server still builds on, and
\* no success of a later version has been seen.
Acknowledged ==
  /\ mutation \in Mutating /\ acked \in NoData .. MaxWrites /\ acked <= truth
  /\ mutation.effect.shown => mutation.effect.invalidates
  /\ mutation.stage = "committed" => acked <= mutation.version /\ mutation.version <= truth

\* The current fetch may only bring an answer older than the user's own write
\* when the invalidation of that write left it running.
RestartedOrExposed ==
  \A r \in flight : r.fetch = entry.fetch /\ r.read # NoData /\ r.read < acked => exposed

Noticed ==
  /\ Ordered /\ query \in Query /\ exposed \in BOOLEAN
  /\ entry.mounted => entry.data # NoData \/ Fetching(entry) \/ entry.error
  /\ Acknowledged /\ RestartedOrExposed /\ OwnWriteIsNoticed

\* What Noticed says of the entry and the requests, for a step that does not
\* touch the mutation.
LEMMA NoticedStep ==
  ASSUME Noticed, Ordered', UNCHANGED <<query, truth, mutation, acked>>,
         exposed' \in BOOLEAN,
         entry'.mounted => entry'.data # NoData \/ entry'.fetch # NoFetch \/ entry'.error,
         RestartedOrExposed', OwnWriteIsNoticed'
  PROVE  Noticed'
BY DEF Noticed, Acknowledged, Fetching

\* A fetch that starts has read nothing yet.
LEMMA StartedIsRecent ==
  ASSUME Ordered, NEW f \in Fetch, Free(f), flight' = flight \cup {Sent(f)},
         entry'.fetch = f
  PROVE  RestartedOrExposed'
BY DEF RestartedOrExposed, Free, Sent

\* Observers come and go.
LEMMA ObserverNoticed ==
  ASSUME Noticed, Mount \/ Unmount \/ Reconnect
  PROVE  Noticed'
<1>1. entry \in Entry /\ Ordered /\ Ordered'
  BY ObserverStep DEF Noticed, Ordered
<1>2. UNCHANGED <<query, truth, mutation, acked, exposed>>
  BY DEF Mount, Unmount, Reconnect
<1>3. ASSUME NEW f \in Fetch, Free(f), flight' = flight \cup {Sent(f)},
             \/ entry' = [entry EXCEPT !.mounted = TRUE, !.fetch = f]
             \/ entry' = [entry EXCEPT !.fetch = f]
      PROVE  Noticed'
  <2>1. /\ entry'.fetch = f /\ entry'.data = entry.data
        /\ entry'.invalid = entry.invalid
    BY <1>1, <1>3 DEF Entry
  <2>3. f # NoFetch
    BY CacheAssumption DEF Fetch, NoFetch
  <2>2. RestartedOrExposed'
    BY <1>1, <1>3, <2>1, StartedIsRecent
  <2> QED
    BY <1>1, <1>2, <2>1, <2>2, <2>3, NoticedStep DEF Noticed, OwnWriteIsNoticed
<1>4. ASSUME NEW b \in BOOLEAN, entry' = [entry EXCEPT !.mounted = b], UNCHANGED flight,
             b => Fetching(entry) \/ entry.data # NoData
      PROVE  Noticed'
  <2>1. /\ entry'.fetch = entry.fetch /\ entry'.data = entry.data
        /\ entry'.invalid = entry.invalid /\ entry'.mounted = b
    BY <1>1, <1>4 DEF Entry
  <2> QED
    BY <1>1, <1>2, <1>4, <2>1, NoticedStep
       DEF Noticed, OwnWriteIsNoticed, RestartedOrExposed, Fetching
<1>5. CASE Mount
  BY <1>3, <1>4, <1>5 DEF Mount
<1>6. CASE Unmount
  BY <1>4, <1>6 DEF Unmount
<1>7. CASE Reconnect
  BY <1>3, <1>7 DEF Reconnect
<1> QED
  BY <1>5, <1>6, <1>7

\* The server answers with what is true now, which no acknowledged write is
\* ahead of.
LEMMA ReadNoticed ==
  ASSUME Noticed, NEW r \in flight, Read(r)
  PROVE  Noticed'
<1> DEFINE answer == [r EXCEPT !.read = truth]
<1>1. Ordered /\ Ordered' /\ UNCHANGED <<query, truth, entry, mutation, acked, exposed>>
  BY ReadStep DEF Noticed, Read
<1>2. flight' = (flight \ {r}) \cup {answer}
  BY DEF Read
<1>3. answer.read = truth
  BY DEF Ordered, Request, Noticed
<1> HIDE DEF answer
<1>4. acked <= truth /\ acked \in Int /\ truth \in Int
  BY CacheAssumption DEF Noticed, Acknowledged, Ordered, NoData
<1>5. ASSUME NEW q \in flight', q.fetch = entry.fetch, q.read # NoData, q.read < acked
      PROVE  exposed
  <2>1. q # answer
    BY <1>3, <1>4, <1>5
  <2>2. q \in flight
    BY <1>2, <2>1
  <2> QED
    BY <1>5, <2>2 DEF Noticed, RestartedOrExposed
<1>6. RestartedOrExposed'
  BY <1>1, <1>5 DEF RestartedOrExposed
<1> QED
  BY <1>1, <1>6, NoticedStep DEF Noticed, OwnWriteIsNoticed, Fetching

\* The end of a request, current or abandoned.
LEMMA EndedNoticed ==
  ASSUME Noticed, NEW r \in flight, Arrive(r) \/ Fail(r)
  PROVE  Noticed'
<1>1. /\ entry \in Entry /\ Ordered /\ Ordered' /\ flight' = flight \ {r}
      /\ UNCHANGED <<query, truth, mutation, acked>>
  BY ArriveStep, FailStep DEF Noticed, Ordered, Arrive, Fail
<1>2. CASE r.fetch # entry.fetch
  <2>1. UNCHANGED <<entry, exposed>>
    BY <1>2 DEF Arrive, Fail, Current
  <2> QED
    BY <1>1, <2>1, NoticedStep
       DEF Noticed, OwnWriteIsNoticed, RestartedOrExposed, Fetching
<1>3. CASE r.fetch = entry.fetch /\ Arrive(r)
  <2>1. /\ entry' = [entry EXCEPT !.data = r.read, !.invalid = FALSE,
                                  !.error = FALSE, !.fetch = NoFetch]
        /\ exposed' = (exposed /\ r.read < acked) /\ r.read # NoData
    BY <1>3 DEF Arrive, Current
  <2>2. entry'.data = r.read /\ entry'.fetch = NoFetch
    BY <1>1, <2>1 DEF Entry
  <2>3. RestartedOrExposed'
    BY <1>1, <2>2, CacheAssumption DEF Ordered, Request, Fetch, NoFetch, RestartedOrExposed
  <2>4. OwnWriteIsNoticed'
    BY <1>1, <1>3, <2>1, <2>2 DEF Noticed, RestartedOrExposed, OwnWriteIsNoticed
  <2>5. exposed' \in BOOLEAN
    BY <2>1
  <2> QED
    BY <1>1, <2>1, <2>2, <2>3, <2>4, <2>5, NoticedStep
<1>4. CASE r.fetch = entry.fetch /\ Fail(r)
  <2>1. /\ entry' = [entry EXCEPT !.error = TRUE, !.fetch = NoFetch]
        /\ exposed' = (exposed /\ ~entry.invalid)
    BY <1>4 DEF Fail, Current
  <2>2. /\ entry'.data = entry.data /\ entry'.fetch = NoFetch /\ entry'.error
        /\ entry'.invalid = entry.invalid
    BY <1>1, <2>1 DEF Entry
  <2>3. RestartedOrExposed'
    BY <1>1, <2>2, CacheAssumption DEF Ordered, Request, Fetch, NoFetch, RestartedOrExposed
  <2>4. OwnWriteIsNoticed'
    BY <1>1, <2>1, <2>2 DEF Noticed, OwnWriteIsNoticed
  <2>5. exposed' \in BOOLEAN
    BY <2>1
  <2> QED
    BY <1>1, <2>2, <2>3, <2>4, <2>5, NoticedStep
<1> QED
  BY <1>2, <1>3, <1>4

\* A collected entry shows nothing, and nothing is under way for it.
LEMMA CollectNoticed ==
  ASSUME Noticed, Collect
  PROVE  Noticed'
<1>1. /\ entry \in Entry /\ Ordered /\ Ordered' /\ entry'.data = NoData
      /\ UNCHANGED <<query, truth, flight, mutation, acked>> /\ exposed' = FALSE
      /\ ~entry.mounted /\ entry.fetch = NoFetch
  BY CollectStep DEF Noticed, Ordered, Collect, Collectable, Fetching
<1>2. entry' = [entry EXCEPT !.data = NoData, !.invalid = FALSE, !.error = FALSE]
  BY DEF Collect
<1>3. ~entry'.mounted /\ entry'.fetch = NoFetch
  BY <1>1, <1>2 DEF Entry
<1>4. RestartedOrExposed'
  BY <1>1, <1>3, CacheAssumption DEF Ordered, Request, Fetch, NoFetch, RestartedOrExposed
<1> QED
  BY <1>1, <1>3, <1>4, NoticedStep DEF OwnWriteIsNoticed

\* A mutation with nothing known of it.
LEMMA NoMutationFacts ==
  /\ NoMutation \in Mutating /\ ~NoMutation.effect.shown
  /\ NoMutation.stage = "idle" /\ NoMutation.version = 0
BY CacheAssumption DEF NoMutation, NoEffect, Mutating, Effects

\* The mutation is sent, refused, lost or undone, and others write.
LEMMA MutationNoticed ==
  ASSUME ScreensInvalidated, Noticed,
         Elsewhere \/ Reject \/ RollBack \/ \E h \in Mutation : Mutate(h)
  PROVE  Noticed'
<1>1. UNCHANGED <<query, entry, flight, acked, exposed>>
  BY DEF Elsewhere, Reject, RollBack, Mutate
<1>2. Ordered' /\ truth <= truth'
  <2>1. CASE Elsewhere
    BY <2>1, WriteStep, CacheAssumption DEF Noticed, Ordered
  <2>2. CASE Reject \/ RollBack \/ \E h \in Mutation : Mutate(h)
    <3>1. UNCHANGED truth
      BY <2>2 DEF Reject, RollBack, Mutate
    <3>2. Ordered'
      BY <1>1, <3>1 DEF Noticed, Ordered, NewerThanShown
    <3> QED
      BY <3>1, <3>2, CacheAssumption DEF Noticed, Ordered
  <2> QED
    BY <2>1, <2>2
<1>3. truth \in Nat /\ truth' \in 0 .. MaxWrites /\ acked \in Int /\ acked <= truth'
  BY <1>1, <1>2, CacheAssumption DEF Noticed, Acknowledged, Ordered, NoData
<1>4. Acknowledged'
  <2>1. CASE Elsewhere
    BY <1>1, <1>2, <1>3, <2>1, CacheAssumption DEF Noticed, Acknowledged, Elsewhere, Mutating
  <2>2. CASE Reject \/ RollBack
    BY <1>1, <1>3, <2>2, NoMutationFacts DEF Noticed, Acknowledged, Reject, RollBack
  <2>3. ASSUME NEW h \in Mutation, Mutate(h) PROVE Acknowledged'
    <3>1. mutation' = [NoMutation EXCEPT !.effect = Effect(h), !.stage = "sent"]
      BY <2>3 DEF Mutate
    <3>2. Effect(h) \in Effects /\ (Effect(h).shown => Effect(h).invalidates)
      <4> DEFINE w == query \in Affects[h]
                 i == query \in Invalidates[h]
                 o == query \in (Screen[h] \cap Affects[h]) \ Forgets[h]
      <4>1. w \in BOOLEAN /\ i \in BOOLEAN /\ o \in BOOLEAN /\ (o => i)
        BY DEF ScreensInvalidated
      <4>2. Effect(h) = [writes |-> w, invalidates |-> i, shown |-> o]
        BY DEF Effect
      <4> HIDE DEF w, i, o
      <4> QED
        BY <4>1, <4>2 DEF Effects
    <3>3. /\ mutation' \in Mutating /\ mutation'.effect = Effect(h)
          /\ mutation'.stage = "sent"
      BY <3>1, <3>2, NoMutationFacts DEF Mutating
    <3> QED
      BY <1>1, <1>3, <3>2, <3>3 DEF Noticed, Acknowledged
  <2> QED
    BY <2>1, <2>2, <2>3
<1>5. RestartedOrExposed' /\ OwnWriteIsNoticed'
  BY <1>1 DEF Noticed, RestartedOrExposed, OwnWriteIsNoticed
<1> QED
  BY <1>1, <1>2, <1>4, <1>5 DEF Noticed, Fetching

\* A commit that the client waits for tells nobody; one that follows the success
\* finds the mark of it in place, or an answer from before the write.
LEMMA CommitNoticed ==
  ASSUME Noticed, Commit
  PROVE  Noticed'
<1>1. /\ Ordered /\ Ordered' /\ UNCHANGED <<query, entry, flight>>
      /\ truth \in Nat /\ truth' \in 0 .. MaxWrites /\ truth <= truth'
  BY WriteStep, CacheAssumption DEF Noticed, Ordered, Commit
<1>2. acked \in Int /\ acked \in NoData .. MaxWrites /\ acked <= truth' /\ mutation \in Mutating
  BY <1>1, CacheAssumption DEF Noticed, Acknowledged, NoData
<1>3. CASE ~mutation.told
  <2>1. /\ mutation' = [mutation EXCEPT !.stage = "committed", !.version = truth']
        /\ UNCHANGED <<acked, exposed>>
    BY <1>3 DEF Commit
  <2>2. /\ mutation' \in Mutating /\ mutation'.version = truth'
        /\ mutation'.effect = mutation.effect
    BY <1>1, <1>2, <2>1 DEF Mutating
  <2>3. Acknowledged'
    BY <1>1, <1>2, <2>1, <2>2 DEF Noticed, Acknowledged
  <2>4. RestartedOrExposed' /\ OwnWriteIsNoticed'
    BY <1>1, <2>1 DEF Noticed, RestartedOrExposed, OwnWriteIsNoticed
  <2> QED
    BY <1>1, <2>1, <2>3, <2>4 DEF Noticed, Fetching
<1>4. CASE mutation.told
  <2>1. mutation' = NoMutation
    BY <1>4 DEF Commit
  <2>2. CASE ~mutation.effect.shown
    <3>1. UNCHANGED <<acked, exposed>>
      BY <2>2 DEF Commit
    <3>2. Acknowledged'
      BY <1>1, <1>2, <2>1, <3>1, NoMutationFacts DEF Acknowledged
    <3>3. RestartedOrExposed' /\ OwnWriteIsNoticed'
      BY <1>1, <3>1 DEF Noticed, RestartedOrExposed, OwnWriteIsNoticed
    <3> QED
      BY <1>1, <3>1, <3>2, <3>3 DEF Noticed, Fetching
  <2>3. CASE mutation.effect.shown
    <3>1. acked' = truth' /\ exposed' = (exposed \/ Overtaken)
      BY <1>4, <2>3 DEF Commit
    <3>2. exposed' \in BOOLEAN
      BY <3>1
    <3>3. Acknowledged'
      BY <1>1, <2>1, <3>1, NoMutationFacts, CacheAssumption DEF Acknowledged, NoData
    <3>4. RestartedOrExposed' /\ OwnWriteIsNoticed'
      BY <1>1, <3>1 DEF Overtaken, Current, RestartedOrExposed, OwnWriteIsNoticed
    <3> QED
      BY <1>1, <3>2, <3>3, <3>4 DEF Noticed, Fetching
  <2> QED
    BY <2>2, <2>3
<1> QED
  BY <1>3, <1>4

\* A success marks what is shown, and leaves no fetch under way unmarked that may
\* bring an answer from before it.
LEMMA SucceedNoticed ==
  ASSUME Noticed, Succeed
  PROVE  Noticed'
<1>1. /\ entry \in Entry /\ Ordered /\ Ordered' /\ UNCHANGED <<query, truth>>
      /\ mutation \in Mutating /\ truth \in Nat
      /\ acked' = IF mutation.stage = "committed" /\ mutation.effect.shown
                   THEN mutation.version ELSE acked
  BY SucceedStep, CacheAssumption DEF Noticed, Acknowledged, Ordered, Succeed
<1>2. /\ mutation' \in Mutating
      /\ mutation'.stage # "committed"
      /\ mutation'.effect.shown => mutation'.effect.invalidates
  <2>1. CASE mutation.stage = "committed"
    BY <2>1, NoMutationFacts DEF Succeed
  <2>2. CASE mutation.stage # "committed"
    <3>1. mutation' = [mutation EXCEPT !.told = TRUE]
      BY <2>2 DEF Succeed
    <3> QED
      BY <1>1, <2>2, <3>1 DEF Noticed, Acknowledged, Mutating
  <2> QED
    BY <2>1, <2>2
<1>3. Acknowledged'
  <2>1. CASE mutation.stage = "committed" /\ mutation.effect.shown
    <3>1. mutation.version \in 0 .. MaxWrites /\ mutation.version <= truth
      BY <1>1, <2>1 DEF Noticed, Acknowledged, Mutating
    <3> QED
      BY <1>1, <1>2, <2>1, <3>1, CacheAssumption DEF Acknowledged, NoData
  <2>2. CASE ~(mutation.stage = "committed" /\ mutation.effect.shown)
    BY <1>1, <1>2, <2>2 DEF Noticed, Acknowledged
  <2> QED
    BY <2>1, <2>2
<1>4. CASE ~mutation.effect.invalidates
  <2>1. UNCHANGED <<entry, flight, exposed>>
    BY <1>4 DEF Succeed
  <2>2. acked' = acked
    BY <1>1, <1>4 DEF Noticed, Acknowledged
  <2>3. RestartedOrExposed' /\ OwnWriteIsNoticed'
    BY <2>1, <2>2 DEF Noticed, RestartedOrExposed, OwnWriteIsNoticed
  <2> QED
    BY <1>1, <1>3, <2>1, <2>3 DEF Noticed, Fetching
<1>5. CASE mutation.effect.invalidates
  <2>1. /\ Invalidate
        /\ exposed' = (Fetching(entry) /\ ~(entry.mounted /\ entry.data # NoData))
    BY <1>5 DEF Succeed
  <2>2. exposed' \in BOOLEAN
    BY <2>1
  <2>3. CASE Refetches
    <3>1. PICK f \in Fetch : /\ Free(f) /\ flight' = flight \cup {Sent(f)}
                             /\ entry' = [entry EXCEPT !.invalid = TRUE, !.fetch = f]
      BY <2>1, <2>3 DEF Invalidate
    <3>2. entry'.invalid /\ entry'.fetch = f /\ f # NoFetch
      BY <1>1, <3>1, CacheAssumption DEF Entry, Fetch, NoFetch
    <3>3. RestartedOrExposed' /\ OwnWriteIsNoticed'
      BY <1>1, <3>1, <3>2, StartedIsRecent DEF OwnWriteIsNoticed
    <3> QED
      BY <1>1, <1>3, <2>2, <3>2, <3>3 DEF Noticed, Fetching
  <2>4. CASE ~Refetches
    <3> DEFINE b == entry.data # NoData \/ Fetching(entry)
    <3>1. entry' = [entry EXCEPT !.invalid = b] /\ UNCHANGED flight
      BY <2>1, <2>4 DEF Invalidate
    <3>2. b \in BOOLEAN
      OBVIOUS
    <3> HIDE DEF b
    <3>3. /\ entry'.invalid = b /\ entry'.fetch = entry.fetch /\ entry'.data = entry.data
          /\ entry'.mounted = entry.mounted /\ entry'.error = entry.error
      BY <1>1, <3>1, <3>2 DEF Entry
    <3>4. OwnWriteIsNoticed'
      BY <3>3 DEF OwnWriteIsNoticed, b
    <3>5. RestartedOrExposed'
      <4>1. CASE Fetching(entry)
        BY <2>1, <2>4, <4>1 DEF RestartedOrExposed, Refetches
      <4>2. CASE ~Fetching(entry)
        BY <1>1, <3>1, <3>3, <4>2, CacheAssumption
           DEF RestartedOrExposed, Ordered, Request, Fetch, NoFetch, Fetching
      <4> QED
        BY <4>1, <4>2
    <3> QED
      BY <1>1, <1>3, <2>2, <3>3, <3>4, <3>5 DEF Noticed, Fetching
  <2> QED
    BY <2>3, <2>4
<1> QED
  BY <1>4, <1>5

\* An empty cache has missed nothing.
LEMMA NoticedInit == Init => Noticed
<1> SUFFICES ASSUME Init PROVE Noticed
  OBVIOUS
<1>1. Ordered
  BY CacheInit
<1>2. Acknowledged
  BY CacheAssumption DEF Init, Acknowledged, NoMutation, NoEffect, Mutating, Effects, NoData
<1> QED
  BY <1>1, <1>2 DEF Init, Noticed, RestartedOrExposed, OwnWriteIsNoticed, NoData

\* Every step.
LEMMA NoticedNext ==
  ASSUME ScreensInvalidated, Noticed, [Next]_vars
  PROVE  Noticed'
<1>1. CASE UNCHANGED vars
  <2>1. Ordered' /\ UNCHANGED <<query, truth, entry, flight, mutation, acked, exposed>>
    BY <1>1 DEF vars, Noticed, Ordered, NewerThanShown
  <2> QED
    BY <2>1, NoticedStep DEF Noticed, RestartedOrExposed, OwnWriteIsNoticed, Fetching
<1>2. CASE Mount \/ Unmount \/ Reconnect
  BY <1>2, ObserverNoticed
<1>3. CASE Collect
  BY <1>3, CollectNoticed
<1>4. CASE \E r \in flight : Read(r) \/ Arrive(r) \/ Fail(r)
  BY <1>4, ReadNoticed, EndedNoticed
<1>5. CASE Elsewhere \/ Reject \/ RollBack \/ \E h \in Mutation : Mutate(h)
  BY <1>5, MutationNoticed
<1>6. CASE Commit
  BY <1>6, CommitNoticed
<1>7. CASE Succeed
  BY <1>7, SucceedNoticed
<1> QED
  BY <1>1, <1>2, <1>3, <1>4, <1>5, <1>6, <1>7 DEF Next

\* What the run checks of the types follows.
LEMMA NoticedTypes == Noticed => CacheInvariant
BY DEF Noticed, CacheInvariant, CacheTypeOK, Ordered, Entry, Request, Acknowledged,
       Mutating, Effects

\* With hooks that invalidate what their screens show and rely on (use-*.ts), a
\* screen never shows the answer from before its own successful write without
\* knowing, for any number of requests, mutations and observers, whether the server
\* commits before the client is told or after: the exceptions are an answer under
\* way at the success and not restarted, and a refetch evaluated before the commit.
THEOREM OwnWritesAreNoticed ==
  ASSUME ScreensInvalidated
  PROVE  Spec => []CacheInvariant
BY NoticedInit, NoticedNext, NoticedTypes, PTL DEF Spec

-----------------------------------------------------------------------------
(* The keys that tokens are verified with *)

Verification == [stage : {"idle", "asked", "answered", "stored"}, start : Nat, read_at : Nat]

\* What is cached is stamped with a time at most Timeout after the provider read it.
StampedInTime ==
  key_set = None \/ \E at \in 0 .. clock : key_set = Keys(at) /\ stamp <= at + Timeout

\* A request gives up in time, and reads what the provider had since it asked.
\* One that has filled the cache and not stamped it yet will stamp it in time,
\* although another request may have filled the cache again in between.
WaitsInTime(v) ==
  /\ verifier[v].stage # "idle" =>
       verifier[v].start <= clock /\ clock - verifier[v].start <= Timeout
  /\ verifier[v].stage \in {"answered", "stored"} =>
       verifier[v].start <= verifier[v].read_at /\ verifier[v].read_at <= clock
  /\ verifier[v].stage = "stored" =>
       key_set.read /\ verifier[v].start <= key_set.at + Timeout

KeyInductive ==
  /\ clock \in 0 .. MaxClock /\ stamp \in 0 .. clock
  /\ verifier \in [Verifier -> Verification]
  /\ StampedInTime
  /\ \A v \in Verifier : WaitsInTime(v)
  /\ oldest \in Nat /\ oldest < TTL + Timeout

\* The cache is empty at first.
LEMMA KeyInductiveInit == KeyInit => KeyInductive
BY KeyAssumption
   DEF KeyInit, KeyInductive, Waiting, Verification, StampedInTime, WaitsInTime

\* A cached key set has the two fields the requests read.
LEMMA CachedKeys ==
  ASSUME KeyInductive, key_set.read
  PROVE  key_set.at \in 0 .. clock /\ stamp <= key_set.at + Timeout
BY DEF KeyInductive, StampedInTime, None, Keys

\* A set served from the cache was stamped less than TTL ago, so that it was
\* read less than TTL plus Timeout ago.
LEMMA FromCacheStep ==
  ASSUME KeyInductive, NEW v \in Verifier, FromCache(v)
  PROVE  KeyInductive'
<1>1. key_set.at \in Nat /\ clock - stamp < TTL /\ stamp <= key_set.at + Timeout
  BY CachedKeys DEF FromCache, Usable, KeyInductive
<1>2. clock - key_set.at < TTL + Timeout /\ key_set.at <= clock
  BY <1>1, CachedKeys, KeyAssumption DEF KeyInductive, FromCache, Usable
<1>3. oldest' \in Nat /\ oldest' < TTL + Timeout
  BY <1>1, <1>2, KeyAssumption DEF KeyInductive, FromCache
<1> QED
  BY <1>3 DEF KeyInductive, FromCache, StampedInTime, WaitsInTime

\* Sending the request, answering it and giving up touch one request only.
LEMMA AskStep ==
  ASSUME KeyInductive, NEW v \in Verifier, FetchKeys(v) \/ ProviderReads(v) \/ GiveUp(v)
  PROVE  KeyInductive'
<1>1. PICK x \in Verification : verifier' = [verifier EXCEPT ![v] = x]
  <2>1. CASE FetchKeys(v)
    <3> DEFINE x == [stage |-> "asked", start |-> clock, read_at |-> 0]
    <3>1. x \in Verification
      BY DEF KeyInductive, Verification
    <3> QED
      BY <2>1, <3>1 DEF FetchKeys
  <2>2. CASE ProviderReads(v)
    <3> DEFINE x == [stage |-> "answered", start |-> verifier[v].start, read_at |-> clock]
    <3>1. x \in Verification
      BY DEF KeyInductive, Verification
    <3> QED
      BY <2>2, <3>1 DEF ProviderReads
  <2>3. CASE GiveUp(v)
    BY <2>3 DEF GiveUp, Waiting, Verification
  <2> QED
    BY <2>1, <2>2, <2>3
<1>2. verifier' \in [Verifier -> Verification]
  BY <1>1 DEF KeyInductive
<1>3. UNCHANGED <<clock, key_set, stamp, oldest>>
  BY DEF FetchKeys, ProviderReads, GiveUp
<1>4. ASSUME NEW w \in Verifier PROVE WaitsInTime(w)'
  <2>1. CASE w # v
    BY <1>1, <1>3, <2>1 DEF KeyInductive, WaitsInTime
  <2>2. CASE w = v /\ FetchKeys(v)
    BY <1>3, <2>2, KeyAssumption DEF KeyInductive, WaitsInTime, FetchKeys
  <2>3. CASE w = v /\ ProviderReads(v)
    BY <1>3, <2>3, KeyAssumption DEF KeyInductive, WaitsInTime, ProviderReads, Verification
  <2>4. CASE w = v /\ GiveUp(v)
    BY <1>3, <2>4 DEF KeyInductive, WaitsInTime, GiveUp, Waiting
  <2> QED
    BY <2>1, <2>2, <2>3, <2>4
<1> QED
  BY <1>2, <1>3, <1>4 DEF KeyInductive, StampedInTime

\* Whoever fills the cache asked at most Timeout ago: every time that is or will
\* be written under these keys is within Timeout of their reading.
LEMMA StoreStep ==
  ASSUME KeyInductive, NEW v \in Verifier, StoreKeys(v)
  PROVE  KeyInductive'
<1> DEFINE at == verifier[v].read_at
<1>1. at \in 0 .. clock /\ clock <= at + Timeout
  BY KeyAssumption DEF KeyInductive, WaitsInTime, StoreKeys, Verification
<1>2. /\ key_set' = Keys(at) /\ UNCHANGED <<clock, stamp, oldest>>
      /\ verifier' = [verifier EXCEPT ![v].stage = "stored"]
  BY DEF StoreKeys
<1>3. verifier' \in [Verifier -> Verification]
  BY <1>2 DEF KeyInductive, Verification
<1>4. StampedInTime'
  BY <1>1, <1>2, KeyAssumption DEF KeyInductive, StampedInTime
<1>5. ASSUME NEW w \in Verifier PROVE WaitsInTime(w)'
  <2>1. key_set'.read /\ key_set'.at = at
    BY <1>2 DEF Keys
  <2>2. verifier[w].start \in Nat /\ verifier[w].read_at \in Nat
    BY DEF KeyInductive, Verification
  <2>3. /\ verifier'[w].start = verifier[w].start
        /\ verifier'[w].read_at = verifier[w].read_at
        /\ w # v => verifier'[w].stage = verifier[w].stage
        /\ w = v => verifier'[w].stage = "stored"
    BY <1>2 DEF KeyInductive, Verification
  <2>4. verifier[v].stage = "answered"
    BY DEF StoreKeys
  <2> QED
    BY <1>1, <1>2, <2>1, <2>2, <2>3, <2>4, KeyAssumption DEF KeyInductive, WaitsInTime
<1> QED
  BY <1>2, <1>3, <1>4, <1>5 DEF KeyInductive

\* The stamp is the time the request began.
LEMMA StampStep ==
  ASSUME KeyInductive, NEW v \in Verifier, StampKeys(v)
  PROVE  KeyInductive'
<1>1. /\ stamp' = verifier[v].start /\ UNCHANGED <<clock, key_set, oldest>>
      /\ verifier' = [verifier EXCEPT ![v] = Waiting]
      /\ verifier[v].stage = "stored"
  BY DEF StampKeys, StampOf
<1>2. stamp' \in 0 .. clock /\ key_set.read /\ stamp' <= key_set.at + Timeout
  BY <1>1 DEF KeyInductive, WaitsInTime, Verification
<1>3. verifier' \in [Verifier -> Verification]
  BY <1>1 DEF KeyInductive, Verification, Waiting
<1>4. StampedInTime'
  BY <1>1, <1>2 DEF KeyInductive, StampedInTime, None, Keys
<1>5. \A w \in Verifier : WaitsInTime(w)'
  BY <1>1 DEF KeyInductive, WaitsInTime, Waiting
<1> QED
  BY <1>1, <1>2, <1>3, <1>4, <1>5 DEF KeyInductive

\* Time passes only as far as those who wait let it.
LEMMA PassStep ==
  ASSUME KeyInductive, Pass
  PROVE  KeyInductive'
<1>1. clock' \in 0 .. MaxClock /\ stamp' \in 0 .. clock'
  BY KeyAssumption DEF KeyInductive, Pass
<1>2. StampedInTime'
  BY KeyAssumption DEF KeyInductive, Pass, StampedInTime
<1>3. ASSUME NEW w \in Verifier PROVE WaitsInTime(w)'
  BY KeyAssumption DEF KeyInductive, Pass, WaitsInTime, Verification
<1> QED
  BY <1>1, <1>2, <1>3 DEF KeyInductive, Pass

\* Fetches, reads of the provider, stores, time-outs and the clock keep the
\* invariant of the key cache.
LEMMA KeyInductiveStep == KeyInductive /\ [KeyNext]_key_vars => KeyInductive'
<1> SUFFICES ASSUME KeyInductive, [KeyNext]_key_vars PROVE KeyInductive'
  OBVIOUS
<1>1. CASE UNCHANGED key_vars
  BY <1>1 DEF key_vars, KeyInductive, StampedInTime, WaitsInTime
<1>2. CASE Pass
  BY <1>2, PassStep
<1>3. ASSUME NEW v \in Verifier,
             \/ FromCache(v) \/ FetchKeys(v) \/ ProviderReads(v)
             \/ StoreKeys(v) \/ StampKeys(v) \/ GiveUp(v)
      PROVE  KeyInductive'
  BY <1>3, FromCacheStep, AskStep, StoreStep, StampStep
<1> QED
  BY <1>1, <1>2, <1>3 DEF KeyNext

\* However many requests refresh the cache at once, what is in it was read
\* before now, and so was its stamp.
THEOREM KeyCacheTypeCorrect == KeySpec => []KeyTypeOK
<1>1. KeyInductive => KeyTypeOK
  BY CachedKeys DEF KeyInductive, KeyTypeOK, Verification
<1> QED
  BY <1>1, KeyInductiveInit, KeyInductiveStep, PTL DEF KeySpec

\* No key set is served that the provider read out TTL plus Timeout ago.
THEOREM KeysAlwaysFresh == KeySpec => []KeysAreFresh
<1>1. KeyInductive => KeysAreFresh
  BY DEF KeyInductive, KeysAreFresh
<1> QED
  BY <1>1, KeyInductiveInit, KeyInductiveStep, PTL DEF KeySpec

\* Both, as the run of the client checks them: however many requests of the
\* backend refresh the cached keys at once, get_jwks serves recent keys.
THEOREM KeyCacheInvariant == KeySpec => []KeyInvariant
BY KeyCacheTypeCorrect, KeysAlwaysFresh, PTL DEF KeyInvariant

-----------------------------------------------------------------------------
(* Signing up, routing and onboarding *)

Page == [page : Address, load : Nat, going : Address \cup {Nowhere},
         step : 1 .. 4, busy : BOOLEAN, error : BOOLEAN]
ApiCall == [n : Nat, tab : Tab, load : Nat, kind : {"create", "query", "account"},
            account : BOOLEAN, saw : Nat, stage : {"sent", "done", "declined", "over"},
            heard : BOOLEAN]
Home == [by : {"create", "query", "account"}, saw : Nat]
Log == [visits : Nat, calls : Nat, undone : SUBSET [tab : Tab, load : Nat]]

\* Requests that the last step of the onboarding waits for: the household, then its
\* account.
Creating(c) == c.kind \in {"create", "account"} /\ ~c.heard

\* A creation that is carried out and not committed, and what Chosen says of given
\* households, requests and failures.
Underway(c) == c.kind = "create" /\ c.stage = "done"
ChosenBy(page, h, q, undone) ==
  \/ \E i \in DOMAIN h : h[i].by = "create"
  \/ \E c \in q : Underway(c) /\ PageOf(c) = page
  \/ page \in undone

EntryTypes ==
  /\ user \in {"unknown", "registered", "confirmed"} /\ session \in BOOLEAN
  /\ session => user = "confirmed"
  /\ tab \in [Tab -> Page] /\ calls \subseteq ApiCall /\ homes \in Seq(Home)
  /\ entry_log \in Log

\* A page that is loaded is of a later visit than the requests of the pages before
\* it; one that waits for a creation stays in step 3, with its buttons disabled.
PageKept(t) ==
  /\ tab[t].load <= entry_log.visits
  /\ tab[t].step <= (IF tab[t].page = "/onboarding" THEN 4 ELSE 2)
  /\ tab[t].page = "/onboarding" /\ tab[t].step = 4 =>
       ChosenBy([tab |-> t, load |-> tab[t].load], homes, calls, entry_log.undone)
  /\ \A c \in calls : c.tab = t =>
       /\ c.load <= tab[t].load
       /\ Creating(c) /\ c.load = tab[t].load =>
            tab[t].page = "/onboarding" /\ tab[t].step = 3 /\ tab[t].busy
       /\ Creating(c) /\ tab[t].going # Nowhere => c.load < entry_log.visits

\* One request of the last step at a time; what it has brought about stays.
CallsKept ==
  /\ \A c, d \in calls :
       Creating(c) /\ Creating(d) /\ c.tab = d.tab /\ c.load = d.load => c = d
  /\ \A c \in calls :
       c.kind = "account" \/ (c.kind = "create" /\ c.stage = "over") =>
         ChosenBy(PageOf(c), homes, calls, entry_log.undone)
  /\ \A c \in calls : (Underway(c) => c.saw = 0) /\ (c.kind = "query" => c.heard)

EntryInductive ==
  /\ EntryTypes /\ \A t \in Tab : PageKept(t)
  /\ CallsKept /\ SecondOnlyFromOverlap

\* At first nothing is open but the landing page.
LEMMA EntryInductiveInit == EntryInit => EntryInductive
<1> SUFFICES ASSUME EntryInit PROVE EntryInductive
  OBVIOUS
<1>1. Fresh("/") \in Page
  BY DEF Fresh, Page, Address, PublicRoutes
<1>2. /\ tab \in [Tab -> Page] /\ <<>> \in Seq(Home)
      /\ [visits |-> 0, calls |-> 0, undone |-> {}] \in Log
  BY <1>1 DEF EntryInit, Log
<1>4. EntryTypes
  BY <1>2 DEF EntryInit, EntryTypes
<1>3. \A t \in Tab : PageKept(t)
  BY DEF EntryInit, PageKept, Fresh
<1> QED
  BY <1>4, <1>3 DEF EntryInit, EntryInductive, CallsKept, SecondOnlyFromOverlap

\* What speaks for a page is added to.
LEMMA ChosenGrows ==
  ASSUME NEW page, NEW h, NEW g, NEW q, NEW r, NEW u, NEW v, ChosenBy(page, h, q, u),
         (\E i \in DOMAIN h : h[i].by = "create") => (\E i \in DOMAIN g : g[i].by = "create"),
         \A c \in q : Underway(c) =>
           \/ \E i \in DOMAIN g : g[i].by = "create"
           \/ \E d \in r : Underway(d) /\ PageOf(d) = PageOf(c)
           \/ PageOf(c) \in v,
         u \subseteq v
  PROVE  ChosenBy(page, g, r, v)
BY Zenon DEF ChosenBy

\* A tab that the step does not touch.
LEMMA OtherTab ==
  ASSUME EntryInductive, EntryTypes', NEW u \in Tab, tab'[u] = tab[u],
         UNCHANGED <<calls, homes>>, entry_log'.undone = entry_log.undone,
         entry_log.visits <= entry_log'.visits
  PROVE  PageKept(u)'
<1>1. PageKept(u) /\ tab[u] \in Page /\ entry_log.visits \in Nat /\ entry_log'.visits \in Nat
  BY DEF EntryInductive, EntryTypes, Log
<1>2. \A c \in calls : c.load \in Nat
  BY DEF EntryInductive, EntryTypes, ApiCall
<1> QED
  BY <1>1, <1>2 DEF PageKept, Page

\* A step of one tab that sends no request.
LEMMA TabStep ==
  ASSUME EntryInductive, NEW t \in Tab, NEW x \in Page, tab' = [tab EXCEPT ![t] = x],
         UNCHANGED <<calls, homes>>,
         user' \in {"unknown", "registered", "confirmed"}, session' \in BOOLEAN,
         session' => user' = "confirmed",
         entry_log' \in Log, entry_log'.undone = entry_log.undone,
         entry_log.visits <= entry_log'.visits,
         PageKept(t)'
  PROVE  EntryInductive'
<1>1. EntryTypes'
  BY DEF EntryInductive, EntryTypes
<1>2. ASSUME NEW u \in Tab \ {t} PROVE PageKept(u)'
  <2>1. tab'[u] = tab[u]
    BY DEF EntryInductive, EntryTypes
  <2> QED
    BY <1>1, <2>1, OtherTab
<1>3. CallsKept' /\ SecondOnlyFromOverlap'
  BY DEF EntryInductive, CallsKept, SecondOnlyFromOverlap
<1> QED
  BY <1>1, <1>2, <1>3 DEF EntryInductive

\* A tab that stays on its page, in a step that waits for no creation.
LEMMA PageStep ==
  ASSUME EntryInductive, NEW t \in Tab, NEW x \in Page, tab' = [tab EXCEPT ![t] = x],
         UNCHANGED <<session, calls, homes, entry_log>>,
         user' \in {"unknown", "registered", "confirmed"}, session => user' = "confirmed",
         x.page = tab[t].page, x.load = tab[t].load, x.going = tab[t].going,
         \/ x.page # "/onboarding" /\ x.step <= 2
         \/ x.page = "/onboarding" /\ x.step <= 3 /\ ~tab[t].busy
  PROVE  EntryInductive'
<1>1. /\ tab'[t] = x /\ PageKept(t) /\ session' \in BOOLEAN /\ entry_log.visits \in Nat
      /\ entry_log \in Log
  BY DEF EntryInductive, EntryTypes, Log
<1>2. PageKept(t)'
  BY <1>1 DEF PageKept, Page
<1>3. /\ entry_log.visits <= entry_log'.visits /\ (session' => user' = "confirmed")
      /\ entry_log' \in Log
  BY <1>1
<1> QED
  BY <1>1, <1>2, <1>3, TabStep

\* Forms and buttons of the tab's own page.
LEMMA FormStep ==
  ASSUME EntryInductive, NEW t \in Tab,
         \/ SubmitLogin(t) \/ SubmitSignUp(t) \/ SignUpAnswered(t)
         \/ ResendConfirmation(t) \/ \E s \in 1 .. 3 : OnboardingStep(t, s)
  PROVE  EntryInductive'
<1>1. tab[t] \in Page /\ PageKept(t) /\ EntryTypes /\ tab \in [Tab -> Page]
  BY DEF EntryInductive, EntryTypes
<1>2. UNCHANGED <<session, calls, homes, entry_log>>
  BY DEF SubmitLogin, SubmitSignUp, Submit, SignUpAnswered, ResendConfirmation, OnboardingStep
<1>3. user' \in {"unknown", "registered", "confirmed"} /\ (session => user' = "confirmed")
  BY <1>1 DEF EntryTypes, SubmitLogin, SubmitSignUp, Submit, SignUpAnswered,
              ResendConfirmation, OnboardingStep
<1>4. CASE SubmitLogin(t) \/ SubmitSignUp(t)
  <2> DEFINE x == [tab[t] EXCEPT !.busy = TRUE, !.error = FALSE]
  <2>1. /\ x \in Page /\ x.page = tab[t].page /\ x.load = tab[t].load
        /\ x.going = tab[t].going /\ x.step = tab[t].step
    BY <1>1 DEF Page
  <2>2. tab' = [tab EXCEPT ![t] = x]
    BY <1>1, <1>4 DEF SubmitLogin, SubmitSignUp, Submit
  <2>3. tab[t].page # "/onboarding" /\ tab[t].step = 1
    BY <1>4 DEF SubmitLogin, SubmitSignUp, Submit, At
  <2> HIDE DEF x
  <2>5. \/ x.page # "/onboarding" /\ x.step <= 2
        \/ x.page = "/onboarding" /\ x.step <= 3 /\ ~tab[t].busy
    BY <2>1, <2>2, <2>3
  <2>6. x \in Page /\ x.page = tab[t].page /\ x.load = tab[t].load /\ x.going = tab[t].going
    BY <2>1, <2>2, <2>3
  <2> QED
    BY <1>2, <1>3, <2>1, <2>2, <2>3, <2>5, <2>6, PageStep
<1>5. CASE SignUpAnswered(t)
  <2>1. tab[t].page = "/signup" /\ tab[t].step = 1
    BY <1>5 DEF SignUpAnswered, At
  <2>2. CASE tab' = [tab EXCEPT ![t].step = 2]
    <3> DEFINE x == [tab[t] EXCEPT !.step = 2]
    <3>1. /\ x \in Page /\ x.page = tab[t].page /\ x.load = tab[t].load
          /\ x.going = tab[t].going /\ x.step = 2
      BY <1>1 DEF Page
    <3>2. tab' = [tab EXCEPT ![t] = x]
      BY <1>1, <2>2
    <3> HIDE DEF x
    <3>5. \/ x.page # "/onboarding" /\ x.step <= 2
          \/ x.page = "/onboarding" /\ x.step <= 3 /\ ~tab[t].busy
      BY <2>1, <3>1, <3>2
    <3>6. x \in Page /\ x.page = tab[t].page /\ x.load = tab[t].load /\ x.going = tab[t].going
      BY <2>1, <3>1, <3>2
    <3> QED
      BY <1>2, <1>3, <2>1, <3>1, <3>2, <3>5, <3>6, PageStep
  <2>3. CASE tab' = [tab EXCEPT ![t].busy = FALSE, ![t].error = TRUE]
    <3> DEFINE x == [tab[t] EXCEPT !.busy = FALSE, !.error = TRUE]
    <3>1. /\ x \in Page /\ x.page = tab[t].page /\ x.load = tab[t].load
          /\ x.going = tab[t].going /\ x.step = tab[t].step
      BY <1>1 DEF Page
    <3>2. tab' = [tab EXCEPT ![t] = x]
      BY <1>1, <2>3
    <3> HIDE DEF x
    <3>5. \/ x.page # "/onboarding" /\ x.step <= 2
          \/ x.page = "/onboarding" /\ x.step <= 3 /\ ~tab[t].busy
      BY <2>1, <3>1, <3>2
    <3>6. x \in Page /\ x.page = tab[t].page /\ x.load = tab[t].load /\ x.going = tab[t].going
      BY <2>1, <3>1, <3>2
    <3> QED
      BY <1>2, <1>3, <2>1, <3>1, <3>2, <3>5, <3>6, PageStep
  <2> QED
    BY <1>5, <2>2, <2>3 DEF SignUpAnswered
<1>6. CASE ResendConfirmation(t)
  <2>1. PICK e \in BOOLEAN : tab' = [tab EXCEPT ![t].error = e]
    BY <1>6 DEF ResendConfirmation
  <2> DEFINE x == [tab[t] EXCEPT !.error = e]
  <2>2. /\ x \in Page /\ x.page = tab[t].page /\ x.load = tab[t].load
        /\ x.going = tab[t].going /\ x.step = tab[t].step
    BY <1>1 DEF Page
  <2>3. tab' = [tab EXCEPT ![t] = x]
    BY <1>1, <2>1
  <2>4. tab[t].page = "/signup" /\ tab[t].step = 2
    BY <1>6 DEF ResendConfirmation, At
  <2> HIDE DEF x
  <2>5. \/ x.page # "/onboarding" /\ x.step <= 2
        \/ x.page = "/onboarding" /\ x.step <= 3 /\ ~tab[t].busy
    BY <2>2, <2>3, <2>4
  <2>6. x \in Page /\ x.page = tab[t].page /\ x.load = tab[t].load /\ x.going = tab[t].going
    BY <2>2, <2>3, <2>4
  <2> QED
    BY <1>2, <1>3, <2>2, <2>3, <2>4, <2>5, <2>6, PageStep
<1>7. ASSUME NEW s \in 1 .. 3, OnboardingStep(t, s) PROVE EntryInductive'
  <2> DEFINE x == [tab[t] EXCEPT !.step = s]
  <2>1. /\ x \in Page /\ x.page = tab[t].page /\ x.load = tab[t].load
        /\ x.going = tab[t].going /\ x.step = s
    BY <1>1 DEF Page
  <2>2. tab' = [tab EXCEPT ![t] = x]
    BY <1>1, <1>7 DEF OnboardingStep
  <2>3. tab[t].page = "/onboarding" /\ ~tab[t].busy
    BY <1>7 DEF OnboardingStep, At
  <2> HIDE DEF x
  <2>5. \/ x.page # "/onboarding" /\ x.step <= 2
        \/ x.page = "/onboarding" /\ x.step <= 3 /\ ~tab[t].busy
    BY <2>1, <2>2, <2>3
  <2>6. x \in Page /\ x.page = tab[t].page /\ x.load = tab[t].load /\ x.going = tab[t].going
    BY <2>1, <2>2, <2>3
  <2> QED
    BY <1>2, <1>3, <2>1, <2>2, <2>3, <2>5, <2>6, PageStep
<1> QED
  BY <1>4, <1>5, <1>6, <1>7

\* A tab sets out for another page: what it has sent belongs to an earlier visit
\* than the page that will be loaded.
LEMMA GoingStep ==
  ASSUME EntryInductive, NEW t \in Tab, NEW to \in Address,
         tab' = [tab EXCEPT ![t].going = to], UNCHANGED <<calls, homes>>,
         user' = user, session' \in BOOLEAN, session' => user = "confirmed",
         entry_log' \in Log, entry_log'.undone = entry_log.undone,
         entry_log.visits <= entry_log'.visits,
         \A c \in calls : c.tab = t /\ Creating(c) => c.load < entry_log'.visits
  PROVE  EntryInductive'
<1> DEFINE x == [tab[t] EXCEPT !.going = to]
<1>1. tab[t] \in Page /\ PageKept(t) /\ EntryTypes
  BY DEF EntryInductive, EntryTypes
<1>2. /\ x \in Page /\ x.page = tab[t].page /\ x.load = tab[t].load
      /\ x.step = tab[t].step /\ x.busy = tab[t].busy
  BY <1>1 DEF Page
<1>3. tab' = [tab EXCEPT ![t] = x]
  BY <1>1 DEF EntryTypes
<1> HIDE DEF x
<1>4. tab'[t] = x
  BY <1>1, <1>3 DEF EntryTypes
<1>5. PageKept(t)'
  <2>1. x.load <= entry_log'.visits
    <3>1. entry_log.visits \in Nat /\ entry_log'.visits \in Nat /\ tab[t].load \in Nat
      BY <1>1 DEF EntryTypes, Page, Log
    <3>2. tab[t].load <= entry_log.visits /\ x.load = tab[t].load
      BY <1>1, <1>2 DEF PageKept
    <3> QED
      BY <3>1, <3>2
  <2> QED
    BY <1>1, <1>2, <1>4, <2>1 DEF PageKept
<1>6. user' \in {"unknown", "registered", "confirmed"} /\ (session' => user' = "confirmed")
  BY <1>1 DEF EntryTypes
<1> QED
  BY <1>2, <1>3, <1>5, <1>6, TabStep

\* An address entered, or left for: an earlier visit, or no creation under way.
LEMMA LeaveStep ==
  ASSUME EntryInductive, NEW t \in Tab,
         \/ \E a \in Address : Visit(t, a)
         \/ GoToDashboard(t) \/ (SignInAnswered(t) /\ tab' = [tab EXCEPT ![t].going = "/dashboard"])
  PROVE  EntryInductive'
<1>1. /\ tab[t] \in Page /\ PageKept(t) /\ entry_log.visits \in Nat
      /\ session \in BOOLEAN /\ (session => user = "confirmed")
      /\ entry_log \in Log
  BY DEF EntryInductive, EntryTypes, Log
<1>2. \A c \in calls : c.load \in Nat
  BY DEF EntryInductive, EntryTypes, ApiCall
<1>3. ASSUME NEW a \in Address, Visit(t, a) PROVE EntryInductive'
  <2>1. /\ tab' = [tab EXCEPT ![t].going = a] /\ UNCHANGED <<user, session, calls, homes>>
        /\ entry_log' = [entry_log EXCEPT !.visits = @ + 1]
    BY <1>3 DEF Visit
  <2>2. /\ entry_log' \in Log
        /\ entry_log'.visits = entry_log.visits + 1
        /\ entry_log'.undone = entry_log.undone
    BY <1>1, <2>1 DEF Log
  <2>3. \A c \in calls : c.tab = t => c.load < entry_log'.visits
    BY <1>1, <1>2, <2>2 DEF PageKept, Page
  <2>4. entry_log.visits <= entry_log'.visits
    BY <1>1, <2>2
  <2> QED
    BY <1>1, <2>1, <2>2, <2>3, <2>4, GoingStep
<1>4. "/dashboard" \in Address
  BY DEF Address, Protected
<1>5. CASE GoToDashboard(t)
  <2>1. /\ tab' = [tab EXCEPT ![t].going = "/dashboard"] /\ tab[t].step = 4
        /\ UNCHANGED <<user, session, calls, homes, entry_log>>
    BY <1>5 DEF GoToDashboard
  <2>2. \A c \in calls : c.tab = t /\ Creating(c) => c.load < entry_log'.visits
    BY <1>1, <1>2, <2>1 DEF PageKept, Page
  <2>3. entry_log.visits <= entry_log'.visits
    BY <1>1, <2>1
  <2> QED
    BY <1>1, <1>4, <2>1, <2>2, <2>3, GoingStep
<1>6. CASE SignInAnswered(t) /\ tab' = [tab EXCEPT ![t].going = "/dashboard"]
  <2>1. /\ tab[t].page = "/login" /\ UNCHANGED <<user, calls, homes, entry_log>>
        /\ (user = "confirmed" /\ session' = TRUE) \/ UNCHANGED session
    BY <1>6 DEF SignInAnswered, At
  <2>2. \A c \in calls : c.tab = t /\ Creating(c) => c.load < entry_log'.visits
    BY <1>1, <1>2, <2>1 DEF PageKept, Page
  <2>3. entry_log.visits <= entry_log'.visits
    BY <1>1, <2>1
  <2>4. session' \in BOOLEAN /\ (session' => user = "confirmed")
    <3>1. CASE user = "confirmed" /\ session' = TRUE
      BY <3>1
    <3>2. CASE session' = session
      BY <1>1, <3>2, Zenon
    <3> QED
      BY <2>1, <3>1, <3>2
  <2> QED
    BY <1>1, <1>4, <1>6, <2>1, <2>2, <2>3, <2>4, GoingStep
<1> QED
  BY <1>3, <1>5, <1>6

\* Refused at the login page.
LEMMA LoginRefusedStep ==
  ASSUME EntryInductive, NEW t \in Tab, SignInAnswered(t),
         tab' = [tab EXCEPT ![t].busy = FALSE, ![t].error = TRUE], UNCHANGED session
  PROVE  EntryInductive'
<1>1. tab[t] \in Page /\ PageKept(t) /\ EntryTypes /\ tab \in [Tab -> Page]
  BY DEF EntryInductive, EntryTypes
<1> DEFINE x == [tab[t] EXCEPT !.busy = FALSE, !.error = TRUE]
<1>2. /\ x \in Page /\ x.page = tab[t].page /\ x.load = tab[t].load
      /\ x.going = tab[t].going /\ x.step = tab[t].step
  BY <1>1 DEF Page
<1>3. tab' = [tab EXCEPT ![t] = x]
  BY <1>1
<1>4. tab[t].page = "/login" /\ UNCHANGED <<user, calls, homes, entry_log>>
  BY DEF SignInAnswered, At
<1> HIDE DEF x
<1>5. x.page # "/onboarding" /\ x.step <= 2
  BY <1>1, <1>2, <1>4 DEF PageKept
<1>6. user' \in {"unknown", "registered", "confirmed"} /\ (session => user' = "confirmed")
  BY <1>1, <1>4 DEF EntryTypes
<1> QED
  BY <1>2, <1>3, <1>4, <1>5, <1>6, PageStep

\* Signing out sends every protected page to the login.
LEMMA SignOutStep ==
  ASSUME EntryInductive, NEW t \in Tab, SignOut(t)
  PROVE  EntryInductive'
<1>1. /\ session' = FALSE /\ UNCHANGED <<user, calls, homes>>
      /\ entry_log' = [entry_log EXCEPT !.visits = @ + 1]
      /\ tab' = [u \in Tab |-> IF tab[u].page \in Protected /\ tab[u].going = Nowhere
                                 THEN [tab[u] EXCEPT !.going = "/login"] ELSE tab[u]]
  BY DEF SignOut
<1>2. EntryTypes /\ entry_log.visits \in Nat
  BY DEF EntryInductive, EntryTypes, Log
<1>3. /\ entry_log' \in Log
      /\ entry_log'.visits = entry_log.visits + 1
      /\ entry_log'.undone = entry_log.undone
  BY <1>1, <1>2 DEF EntryTypes, Log
<1>4. ASSUME NEW u \in Tab
      PROVE  /\ tab'[u] \in Page /\ tab'[u].page = tab[u].page /\ tab'[u].load = tab[u].load
             /\ tab'[u].step = tab[u].step /\ tab'[u].busy = tab[u].busy
  <2>1. "/login" \in Address /\ tab[u] \in Page
    BY <1>2 DEF Address, PublicRoutes, EntryTypes
  <2> QED
    BY <1>1, <2>1 DEF Page
<1>5. tab' \in [Tab -> Page]
  BY <1>1, <1>4
<1>6. EntryTypes'
  BY <1>1, <1>2, <1>3, <1>5 DEF EntryTypes
<1>7. ASSUME NEW u \in Tab PROVE PageKept(u)'
  <2>1. PageKept(u) /\ tab[u].load \in Nat /\ \A c \in calls : c.load \in Nat
    BY <1>2 DEF EntryInductive, EntryTypes, Page, ApiCall
  <2> QED
    BY <1>1, <1>2, <1>3, <1>4, <2>1 DEF PageKept
<1>8. CallsKept' /\ SecondOnlyFromOverlap'
  BY <1>1, <1>3 DEF EntryInductive, CallsKept, SecondOnlyFromOverlap
<1> QED
  BY <1>6, <1>7, <1>8 DEF EntryInductive

\* The proxy leads to addresses.
LEMMA RoutedToAddress ==
  ASSUME NEW a \in Address, NEW has
  PROVE  Routed(a, has) \in Address
BY DEF Routed, Address, PublicRoutes, Protected

\* A redirect is one more way to be going; a page that is loaded belongs to the
\* present visit, which no creation does that the tab has sent.
LEMMA RouteStep ==
  ASSUME EntryInductive, NEW t \in Tab, Route(t)
  PROVE  EntryInductive'
<1>1. tab[t] \in Page /\ PageKept(t) /\ EntryTypes /\ tab \in [Tab -> Page]
  BY DEF EntryInductive, EntryTypes
<1>2. /\ tab[t].going \in Address /\ tab[t].going # Nowhere
      /\ UNCHANGED <<user, session, calls, homes, entry_log>>
  BY <1>1 DEF Route, Page
<1>3. PICK to \in Address :
        tab' = [tab EXCEPT ![t] =
                  IF to = tab[t].going THEN [Fresh(to) EXCEPT !.load = entry_log.visits]
                  ELSE [tab[t] EXCEPT !.going = to]]
  <2>1. Routed(tab[t].going, homes # <<>>) \in Address
    BY <1>2, RoutedToAddress
  <2> QED
    BY <1>2, <2>1 DEF Route
<1>4. CASE to = tab[t].going
  <2> DEFINE x == [Fresh(to) EXCEPT !.load = entry_log.visits]
  <2>0. entry_log.visits \in Nat
    BY <1>1 DEF EntryTypes, Log
  <2>1. /\ x \in Page /\ x.load = entry_log.visits /\ x.step = 1
        /\ x.going = Nowhere
    <3> DEFINE r == Fresh(to)
    <3>1. r \in Page /\ r.step = 1 /\ r.going = Nowhere
      BY DEF Fresh, Page
    <3> HIDE DEF r
    <3>2. [r EXCEPT !.load = entry_log.visits] \in Page
      BY <2>0, <3>1 DEF Page
    <3>3. /\ [r EXCEPT !.load = entry_log.visits].load = entry_log.visits
          /\ [r EXCEPT !.load = entry_log.visits].step = r.step
          /\ [r EXCEPT !.load = entry_log.visits].going = r.going
      BY <3>1 DEF Page
    <3> QED
      BY <3>1, <3>2, <3>3 DEF r
  <2>2. tab' = [tab EXCEPT ![t] = x]
    BY <1>3, <1>4
  <2> HIDE DEF x
  <2>3. tab'[t] = x
    BY <1>1, <2>2
  <2>4. entry_log.visits \in Nat /\ tab[t].load \in Nat /\ \A c \in calls : c.load \in Nat
    BY <1>1 DEF EntryTypes, Page, ApiCall, Log
  <2>5. PageKept(t)'
    BY <1>1, <1>2, <2>1, <2>3, <2>4 DEF PageKept
  <2>6. /\ user' \in {"unknown", "registered", "confirmed"} /\ session' \in BOOLEAN
        /\ session' => user' = "confirmed"
        /\ entry_log' \in Log /\ entry_log'.undone = entry_log.undone
        /\ entry_log.visits <= entry_log'.visits
    BY <1>1, <1>2, <2>4 DEF EntryTypes
  <2>7. x \in Page /\ UNCHANGED <<calls, homes>>
    BY <1>2, <2>1
  <2> QED
    BY <2>2, <2>5, <2>6, <2>7, TabStep
<1>5. CASE to # tab[t].going
  <2>1. tab' = [tab EXCEPT ![t].going = to]
    BY <1>1, <1>3, <1>5
  <2>2. \A c \in calls : c.tab = t /\ Creating(c) => c.load < entry_log'.visits
    BY <1>1, <1>2 DEF PageKept
  <2>3. entry_log.visits <= entry_log'.visits
    BY <1>1, <1>2 DEF EntryTypes, Log
  <2>4. /\ session' \in BOOLEAN /\ (session' => user = "confirmed") /\ user' = user
        /\ entry_log' \in Log /\ entry_log'.undone = entry_log.undone
    BY <1>1, <1>2 DEF EntryTypes
  <2> QED
    BY <1>2, <2>1, <2>2, <2>3, <2>4, GoingStep
<1> QED
  BY <1>4, <1>5

\* A request is sent from a page: a creation only where none is awaited.
LEMMA SentStep ==
  ASSUME EntryInductive, NEW t \in Tab, NEW q \in ApiCall, calls' = calls \cup {q},
         q.tab = t, q.load = tab[t].load, q.stage = "sent", q.heard <=> q.kind = "query",
         UNCHANGED <<user, session, homes>>,
         entry_log' \in Log, entry_log'.undone = entry_log.undone,
         entry_log'.visits = entry_log.visits,
         NEW x \in Page, tab' = [tab EXCEPT ![t] = x],
         x.page = tab[t].page, x.load = tab[t].load, x.going = tab[t].going,
         x.step = tab[t].step, tab[t].going = Nowhere,
         \/ q.kind = "query" /\ x.busy = tab[t].busy
         \/ /\ q.kind = "create" /\ x.busy /\ ~tab[t].busy
            /\ x.page = "/onboarding" /\ x.step = 3
  PROVE  EntryInductive'
<1>1. /\ tab[t] \in Page /\ tab'[t] = x /\ PageKept(t) /\ EntryTypes /\ CallsKept
      /\ \A u \in Tab \ {t} : tab'[u] = tab[u] /\ PageKept(u)
  BY DEF EntryInductive, EntryTypes
<1>2. EntryTypes'
  BY <1>1 DEF EntryTypes
<1>3. q.kind = "create" => \A c \in calls : ~(Creating(c) /\ c.tab = t /\ c.load = q.load)
  BY <1>1 DEF PageKept
<1>4. q.kind \in {"query", "create"} /\ (Creating(q) <=> q.kind = "create")
  BY DEF Creating
<1>5. ASSUME NEW page, ChosenBy(page, homes, calls, entry_log.undone)
      PROVE  ChosenBy(page, homes', calls', entry_log'.undone)
  BY <1>5 DEF ChosenBy
<1>6. PageKept(t)'
  <2>1. /\ tab'[t].load <= entry_log'.visits
        /\ tab'[t].step <= (IF tab'[t].page = "/onboarding" THEN 4 ELSE 2)
    BY <1>1 DEF PageKept
  <2>2. tab'[t].page = "/onboarding" /\ tab'[t].step = 4 =>
          ChosenBy([tab |-> t, load |-> tab'[t].load], homes', calls', entry_log'.undone)
    BY <1>1, <1>5 DEF PageKept
  <2>3. ASSUME NEW c \in calls', c.tab = t
        PROVE  /\ c.load <= tab'[t].load
               /\ Creating(c) /\ c.load = tab'[t].load =>
                    tab'[t].page = "/onboarding" /\ tab'[t].step = 3 /\ tab'[t].busy
               /\ Creating(c) /\ tab'[t].going # Nowhere => c.load < entry_log'.visits
    <3>1. CASE c \in calls
      BY <1>1, <1>3, <2>3, <3>1 DEF PageKept
    <3>2. CASE c = q
      BY <1>1, <1>4, <3>2 DEF Page
    <3> QED
      BY <2>3, <3>1, <3>2
  <2> QED
    BY <2>1, <2>2, <2>3 DEF PageKept, Creating
<1>7. ASSUME NEW u \in Tab \ {t} PROVE PageKept(u)'
  <2>1. tab'[u].page = "/onboarding" /\ tab'[u].step = 4 =>
          ChosenBy([tab |-> u, load |-> tab'[u].load], homes', calls', entry_log'.undone)
    BY <1>1, <1>5 DEF PageKept
  <2> QED
    BY <1>1, <2>1 DEF PageKept, Creating
<1>8. CallsKept'
  <2>1. ASSUME NEW c \in calls', NEW d \in calls',
               Creating(c), Creating(d), c.tab = d.tab, c.load = d.load
        PROVE  c = d
    BY <1>1, <1>3, <1>4, <2>1 DEF CallsKept
  <2>2. ASSUME NEW c \in calls', c.kind = "account" \/ (c.kind = "create" /\ c.stage = "over")
        PROVE  ChosenBy(PageOf(c), homes', calls', entry_log'.undone)
    BY <1>1, <1>4, <1>5, <2>2 DEF CallsKept
  <2>3. \A c \in calls' : (Underway(c) => c.saw = 0) /\ (c.kind = "query" => c.heard)
    BY <1>1 DEF CallsKept, Underway
  <2> QED
    BY <2>1, <2>2, <2>3 DEF CallsKept, Creating, Underway, PageOf
<1>9. SecondOnlyFromOverlap'
  BY DEF EntryInductive, SecondOnlyFromOverlap
<1> QED
  BY <1>1, <1>2, <1>6, <1>7, <1>8, <1>9 DEF EntryInductive

\* The household of the last step, and the queries of the dashboard.
LEMMA CallStep ==
  ASSUME EntryInductive, NEW t \in Tab,
         QueryPage(t) \/ \E account \in BOOLEAN : CreateHousehold(t, account)
  PROVE  EntryInductive'
<1>1. tab[t] \in Page /\ PageKept(t) /\ EntryTypes /\ tab \in [Tab -> Page]
  BY DEF EntryInductive, EntryTypes
<1>2. tab[t].load \in Nat /\ entry_log.calls \in Nat
  BY <1>1 DEF Page, EntryTypes, Log
<1>3. ASSUME NEW kind \in {"create", "query"}, NEW account \in BOOLEAN, Call(t, kind, account),
             UNCHANGED <<user, session, homes>>,
             NEW x \in Page, tab' = [tab EXCEPT ![t] = x],
             x.page = tab[t].page, x.load = tab[t].load, x.going = tab[t].going,
             x.step = tab[t].step, tab[t].going = Nowhere,
             \/ kind = "query" /\ x.busy = tab[t].busy
             \/ /\ kind = "create" /\ x.busy /\ ~tab[t].busy
                /\ x.page = "/onboarding" /\ x.step = 3
      PROVE  EntryInductive'
  <2> DEFINE q == [n |-> entry_log.calls + 1, tab |-> t, load |-> tab[t].load, kind |-> kind,
                   account |-> account, saw |-> 0, stage |-> "sent",
                   heard |-> kind = "query"]
  <2>1. q \in ApiCall
    BY <1>2 DEF ApiCall
  <2>2. /\ q.tab = t /\ q.load = tab[t].load /\ q.kind = kind /\ q.stage = "sent"
        /\ q.heard <=> q.kind = "query"
    OBVIOUS
  <2>3. calls' = calls \cup {q}
    BY <1>3 DEF Call
  <2>4. /\ entry_log' \in Log /\ entry_log'.undone = entry_log.undone
        /\ entry_log'.visits = entry_log.visits
    BY <1>1, <1>2, <1>3 DEF Call, EntryTypes, Log
  <2> HIDE DEF q
  <2>5. \/ q.kind = "query" /\ x.busy = tab[t].busy
        \/ /\ q.kind = "create" /\ x.busy /\ ~tab[t].busy
           /\ x.page = "/onboarding" /\ x.step = 3
    BY <1>3, <2>2
  <2> QED
    BY <1>3, <2>1, <2>2, <2>3, <2>4, <2>5, SentStep
<1>4. CASE QueryPage(t)
  <2>1. /\ Call(t, "query", FALSE) /\ UNCHANGED <<user, session, homes>>
        /\ tab[t].going = Nowhere /\ tab' = tab
    BY <1>4 DEF QueryPage, At
  <2>2. tab' = [tab EXCEPT ![t] = tab[t]]
    BY <1>1, <2>1
  <2> QED
    BY <1>1, <1>3, <2>1, <2>2
<1>5. ASSUME NEW account \in BOOLEAN, CreateHousehold(t, account) PROVE EntryInductive'
  <2> DEFINE x == [tab[t] EXCEPT !.busy = TRUE, !.error = FALSE]
  <2>1. /\ x \in Page /\ x.page = tab[t].page /\ x.load = tab[t].load
        /\ x.going = tab[t].going /\ x.step = tab[t].step /\ x.busy
    BY <1>1 DEF Page
  <2>2. tab' = [tab EXCEPT ![t] = x]
    BY <1>1, <1>5 DEF CreateHousehold
  <2>3. /\ Call(t, "create", account) /\ UNCHANGED <<user, session, homes>>
        /\ tab[t].going = Nowhere /\ tab[t].page = "/onboarding" /\ tab[t].step = 3
        /\ ~tab[t].busy
    BY <1>5 DEF CreateHousehold, Creatable, At
  <2> HIDE DEF x
  <2>4. x.busy /\ ~tab[t].busy /\ x.page = "/onboarding" /\ x.step = 3
    BY <2>1, <2>3
  <2> QED
    BY <1>3, <2>1, <2>2, <2>3, <2>4
<1> QED
  BY <1>4, <1>5

\* The request that is served, committed or answered becomes others of its page, of
\* which at most one is awaited; what speaks for the page's household stays.
LEMMA ServedStep ==
  ASSUME EntryInductive, NEW c \in calls, NEW D \in SUBSET ApiCall,
         calls' = (calls \ {c}) \cup D,
         \A d \in D :
           /\ d.tab = c.tab /\ d.load = c.load /\ (Creating(d) => Creating(c))
           /\ (d.kind = "query" => d.heard) /\ (Underway(d) => d.saw = 0),
         \A d, e \in D : Creating(d) /\ Creating(e) => d = e,
         UNCHANGED <<user, session>>, homes' \in Seq(Home), SecondOnlyFromOverlap',
         entry_log' \in Log, entry_log'.visits = entry_log.visits,
         entry_log.undone \subseteq entry_log'.undone,
         (\E i \in DOMAIN homes : homes[i].by = "create") =>
           (\E i \in DOMAIN homes' : homes'[i].by = "create"),
         Underway(c) => ChosenBy(PageOf(c), homes', D, entry_log'.undone),
         \A d \in D : d.kind = "account" \/ (d.kind = "create" /\ d.stage = "over") =>
           \/ ChosenBy(PageOf(c), homes', D, entry_log'.undone)
           \/ ChosenBy(PageOf(c), homes, calls, entry_log.undone),
         \/ tab' = tab
         \/ /\ \A d \in D : ~Creating(d)
            /\ \E x \in Page :
                 /\ tab' = [tab EXCEPT ![c.tab] = x] /\ Creating(c) /\ tab[c.tab].load = c.load
                 /\ tab[c.tab].page = "/onboarding" /\ x.page = "/onboarding"
                 /\ x.load = c.load /\ x.going = tab[c.tab].going
                 /\ \/ x.step = 3
                    \/ x.step = 4 /\ ChosenBy(PageOf(c), homes, calls, entry_log.undone)
  PROVE  EntryInductive'
<1>1. /\ EntryTypes /\ CallsKept /\ c \in ApiCall /\ c.tab \in Tab
      /\ \A u \in Tab : PageKept(u) /\ tab[u] \in Page
  BY DEF EntryInductive, EntryTypes, ApiCall
<1>2. \A d \in D : PageOf(d) = PageOf(c)
  BY DEF PageOf
<1>3. ASSUME NEW page, ChosenBy(page, homes', D, entry_log'.undone)
      PROVE  ChosenBy(page, homes', calls', entry_log'.undone)
  BY <1>3 DEF ChosenBy
<1>4. ASSUME NEW page, ChosenBy(page, homes, calls, entry_log.undone)
      PROVE  ChosenBy(page, homes', calls', entry_log'.undone)
  <2>1. ASSUME NEW e \in calls, Underway(e)
        PROVE  \/ \E i \in DOMAIN homes' : homes'[i].by = "create"
               \/ \E d \in calls' : Underway(d) /\ PageOf(d) = PageOf(e)
               \/ PageOf(e) \in entry_log'.undone
    <3>1. CASE e = c
      BY <1>3, <2>1, <3>1 DEF ChosenBy
    <3>2. CASE e # c
      BY <2>1, <3>2
    <3> QED
      BY <3>1, <3>2
  <2> QED
    BY <1>4, <2>1, ChosenGrows
<1>5. CallsKept'
  <2>1. ASSUME NEW e \in calls', NEW f \in calls',
               Creating(e), Creating(f), e.tab = f.tab, e.load = f.load
        PROVE  e = f
    <3>1. CASE e \in calls \ {c} /\ f \in calls \ {c}
      BY <1>1, <2>1, <3>1 DEF CallsKept
    <3>2. CASE e \in D /\ f \in D
      BY <2>1, <3>2
    <3>3. CASE e \in calls \ {c} /\ f \in D
      BY <1>1, <2>1, <3>3 DEF CallsKept
    <3>4. CASE e \in D /\ f \in calls \ {c}
      BY <1>1, <2>1, <3>4 DEF CallsKept
    <3> QED
      BY <3>1, <3>2, <3>3, <3>4
  <2>2. ASSUME NEW e \in calls', e.kind = "account" \/ (e.kind = "create" /\ e.stage = "over")
        PROVE  ChosenBy(PageOf(e), homes', calls', entry_log'.undone)
    <3>1. CASE e \in calls
      BY <1>1, <1>4, <2>2, <3>1 DEF CallsKept
    <3>2. CASE e \in D
      BY <1>2, <1>3, <1>4, <2>2, <3>2
    <3> QED
      BY <3>1, <3>2
  <2>3. \A e \in calls' : (Underway(e) => e.saw = 0) /\ (e.kind = "query" => e.heard)
    BY <1>1 DEF CallsKept
  <2> QED
    BY <2>1, <2>2, <2>3 DEF CallsKept, Creating, Underway, PageOf
<1>6. /\ calls' \subseteq ApiCall /\ user' = user /\ session' = session
      /\ \A u \in Tab : tab[u].load \in Nat
      /\ entry_log.visits \in Nat
  BY <1>1 DEF EntryTypes, Page, Log
<1>7. ASSUME NEW u \in Tab, tab'[u] = tab[u] PROVE PageKept(u)'
  <2>1. tab'[u].page = "/onboarding" /\ tab'[u].step = 4 =>
          ChosenBy([tab |-> u, load |-> tab'[u].load], homes', calls', entry_log'.undone)
    BY <1>1, <1>4, <1>7 DEF PageKept
  <2>2. ASSUME NEW e \in calls', e.tab = u
        PROVE  /\ e.load <= tab'[u].load
               /\ Creating(e) /\ e.load = tab'[u].load =>
                    tab'[u].page = "/onboarding" /\ tab'[u].step = 3 /\ tab'[u].busy
               /\ Creating(e) /\ tab'[u].going # Nowhere => e.load < entry_log'.visits
    <3>1. CASE e \in calls
      BY <1>1, <1>7, <2>2, <3>1 DEF PageKept
    <3>2. CASE e \in D
      BY <1>1, <1>7, <2>2, <3>2 DEF PageKept
    <3> QED
      BY <3>1, <3>2
  <2> QED
    BY <1>1, <1>7, <2>1, <2>2 DEF PageKept, Creating
<1>8. CASE tab' = tab
  <2>1. EntryTypes'
    BY <1>1, <1>6, <1>8 DEF EntryTypes
  <2> QED
    BY <1>5, <1>7, <1>8, <2>1 DEF EntryInductive
<1>9. ASSUME NEW x \in Page, \A d \in D : ~Creating(d),
             tab' = [tab EXCEPT ![c.tab] = x], Creating(c), tab[c.tab].load = c.load,
             tab[c.tab].page = "/onboarding", x.page = "/onboarding",
             x.load = c.load, x.going = tab[c.tab].going,
             \/ x.step = 3
             \/ x.step = 4 /\ ChosenBy(PageOf(c), homes, calls, entry_log.undone)
      PROVE  EntryInductive'
  <2>1. EntryTypes'
    BY <1>1, <1>6, <1>9 DEF EntryTypes
  <2>2. ASSUME NEW u \in Tab, u # c.tab PROVE PageKept(u)'
    <3>1. tab'[u] = tab[u]
      BY <1>1, <1>9, <2>2 DEF EntryTypes
    <3> QED
      BY <1>7, <3>1
  <2>3. tab'[c.tab] = x
    BY <1>1, <1>9 DEF EntryTypes
  <2>4. \A e \in calls' : e.tab = c.tab /\ e.load = c.load => ~Creating(e)
    BY <1>1, <1>9 DEF CallsKept
  <2>5. PageKept(c.tab)'
    <3>1. PageKept(c.tab)
      BY <1>1
    <3>2. x.load <= entry_log'.visits /\ x.step <= 4
      BY <1>1, <1>9, <3>1 DEF PageKept
    <3>3. \A e \in calls' : e.tab = c.tab =>
            /\ e.load <= x.load
            /\ Creating(e) /\ x.going # Nowhere => e.load < entry_log'.visits
      BY <1>6, <1>9, <3>1 DEF PageKept
    <3>4. x.step = 4 => ChosenBy([tab |-> c.tab, load |-> x.load],
                                 homes', calls', entry_log'.undone)
      <4>1. ASSUME x.step = 4 PROVE ChosenBy(PageOf(c), homes', calls', entry_log'.undone)
        <5>1. ChosenBy(PageOf(c), homes, calls, entry_log.undone)
          BY <1>9, <4>1
        <5> QED
          BY <1>4, <5>1
      <4>2. PageOf(c) = [tab |-> c.tab, load |-> x.load]
        BY <1>9 DEF PageOf
      <4> QED
        BY <4>1, <4>2
    <3> QED
      BY <1>9, <2>3, <2>4, <3>2, <3>3, <3>4 DEF PageKept, Creating
  <2> QED
    BY <1>5, <2>1, <2>2, <2>5 DEF EntryInductive
<1> QED
  BY <1>8, <1>9

\* Nothing is added to the households.
LEMMA HomesStay ==
  ASSUME EntryInductive, UNCHANGED homes
  PROVE  /\ homes' \in Seq(Home) /\ SecondOnlyFromOverlap'
         /\ (\E i \in DOMAIN homes : homes[i].by = "create") =>
              (\E i \in DOMAIN homes' : homes'[i].by = "create")
BY DEF EntryInductive, EntryTypes, SecondOnlyFromOverlap

\* The handler reads how many there are, and refuses a creation if there are any.
LEMMA BeginStep ==
  ASSUME EntryInductive, NEW c \in calls, BeginCall(c)
  PROVE  EntryInductive'
<1>1. /\ c \in ApiCall /\ EntryTypes /\ CallsKept /\ Len(homes) \in Nat /\ c.stage = "sent"
      /\ UNCHANGED <<user, session, tab, homes, entry_log>>
  BY DEF EntryInductive, EntryTypes, BeginCall
<1>2. PICK stage \in {"declined", "done"} :
        /\ Refused(c.kind, Len(homes)) => stage = "declined"
        /\ LET begun == [c EXCEPT !.stage = stage, !.saw = Len(homes)]
           IN  calls' = (calls \ {c}) \cup
                          (IF c.heard /\ stage = "declined" THEN {} ELSE {begun})
  BY DEF BeginCall
<1> DEFINE begun == [c EXCEPT !.stage = stage, !.saw = Len(homes)]
           D == IF c.heard /\ stage = "declined" THEN {} ELSE {begun}
<1>3. /\ begun \in ApiCall /\ begun.tab = c.tab /\ begun.load = c.load
      /\ begun.kind = c.kind /\ begun.heard = c.heard
      /\ begun.stage = stage /\ begun.saw = Len(homes)
  BY <1>1 DEF ApiCall
<1>4. calls' = (calls \ {c}) \cup D
  BY <1>2
<1>5. D \subseteq {begun}
  OBVIOUS
<1> HIDE DEF D, begun
<1>6. D \in SUBSET ApiCall
  BY <1>3, <1>5
<1>7. \A d \in D :
        /\ d.tab = c.tab /\ d.load = c.load /\ (Creating(d) => Creating(c))
        /\ (d.kind = "query" => d.heard) /\ (Underway(d) => d.saw = 0)
  <2>1. Creating(begun) => Creating(c)
    BY <1>3 DEF Creating
  <2>2. begun.kind = "query" => begun.heard
    BY <1>1, <1>3 DEF CallsKept
  <2>3. Underway(begun) => begun.saw = 0
    BY <1>1, <1>2, <1>3 DEF Underway, Refused
  <2> QED
    BY <1>3, <1>5, <2>1, <2>2, <2>3
<1>8. \A d, e \in D : Creating(d) /\ Creating(e) => d = e
  BY <1>5
<1>9. ~Underway(c)
  BY <1>1 DEF Underway
<1>10. \A d \in D : d.kind = "account" \/ (d.kind = "create" /\ d.stage = "over") =>
         ChosenBy(PageOf(c), homes, calls, entry_log.undone)
  BY <1>1, <1>3, <1>5 DEF CallsKept
<1>11. entry_log' \in Log /\ entry_log' = entry_log /\ tab' = tab
       /\ entry_log'.visits = entry_log.visits /\ entry_log.undone \subseteq entry_log'.undone
  BY <1>1 DEF EntryTypes
<1> QED
  BY <1>1, <1>4, <1>6, <1>7, <1>8, <1>9, <1>10, <1>11, HomesStay, ServedStep

\* The end of the transaction adds a household that began with none, or takes back
\* what the page was told.
LEMMA CommitStep ==
  ASSUME EntryInductive, NEW c \in calls, CommitCall(c)
  PROVE  EntryInductive'
<1>1. /\ c \in ApiCall /\ EntryTypes /\ CallsKept /\ SecondOnlyFromOverlap
      /\ homes \in Seq(Home) /\ entry_log \in Log /\ c.stage = "done"
      /\ UNCHANGED <<user, session, tab>>
  BY DEF EntryInductive, EntryTypes, CommitCall
<1> DEFINE over == [c EXCEPT !.stage = "over"]
           D == IF c.heard THEN {} ELSE {over}
           home == [by |-> c.kind, saw |-> c.saw]
<1>2. /\ over \in ApiCall /\ over.tab = c.tab /\ over.load = c.load /\ over.kind = c.kind
      /\ over.heard = c.heard /\ over.stage = "over"
  BY <1>1 DEF ApiCall
<1>3. calls' = (calls \ {c}) \cup D /\ D \subseteq {over}
  BY DEF CommitCall
<1>4. /\ home \in Home /\ home.by = c.kind /\ home.saw = c.saw
      /\ PageOf(c) \in [tab : Tab, load : Nat]
  BY <1>1 DEF ApiCall, Home, PageOf
<1>5. \/ Provisions(c) /\ homes' = Append(homes, home) /\ entry_log' = entry_log
      \/ homes' = homes /\ c.kind # "create" /\ entry_log' = entry_log
      \/ /\ homes' = homes /\ c.kind = "create"
         /\ entry_log' = [entry_log EXCEPT !.undone = @ \cup {PageOf(c)}]
  BY DEF CommitCall, Provisions
<1> HIDE DEF D, over, home
<1>6. D \in SUBSET ApiCall
  BY <1>2, <1>3
<1>7. \A d \in D :
        /\ d.tab = c.tab /\ d.load = c.load /\ (Creating(d) => Creating(c))
        /\ (d.kind = "query" => d.heard) /\ (Underway(d) => d.saw = 0)
  <2>1. Creating(over) => Creating(c)
    BY <1>2 DEF Creating
  <2>2. over.kind = "query" => over.heard
    BY <1>1, <1>2 DEF CallsKept
  <2> QED
    BY <1>2, <1>3, <2>1, <2>2 DEF Underway
<1>8. \A d, e \in D : Creating(d) /\ Creating(e) => d = e
  BY <1>3
<1>9. /\ entry_log' \in Log /\ entry_log'.visits = entry_log.visits
      /\ entry_log.undone \subseteq entry_log'.undone
      /\ homes' = homes /\ c.kind = "create" => PageOf(c) \in entry_log'.undone
  <2>1. CASE entry_log' = entry_log /\ (homes' # homes \/ c.kind # "create")
    BY <1>1, <2>1
  <2>2. CASE entry_log' = [entry_log EXCEPT !.undone = @ \cup {PageOf(c)}]
    BY <1>1, <1>4, <2>2 DEF Log
  <2>3. Append(homes, home) # homes
    <3>1. Len(Append(homes, home)) = Len(homes) + 1 /\ Len(homes) \in Nat
      BY <1>1, <1>4
    <3> QED
      BY <3>1
  <2> QED
    BY <1>5, <2>1, <2>2, <2>3
<1>10. \A d \in D : d.kind = "account" \/ (d.kind = "create" /\ d.stage = "over") =>
         \/ ChosenBy(PageOf(c), homes', D, entry_log'.undone)
         \/ ChosenBy(PageOf(c), homes, calls, entry_log.undone)
  <2>1. c.kind = "create" => Underway(c)
    BY <1>1 DEF Underway
  <2>2. Underway(c) => ChosenBy(PageOf(c), homes, calls, entry_log.undone)
    BY DEF ChosenBy
  <2> QED
    BY <1>1, <1>2, <1>3, <2>1, <2>2 DEF CallsKept
<1>11. CASE homes' = homes /\ (c.kind = "create" => PageOf(c) \in entry_log'.undone)
  <2>1. Underway(c) => ChosenBy(PageOf(c), homes', D, entry_log'.undone)
    BY <1>11 DEF Underway, ChosenBy
  <2> QED
    BY <1>1, <1>3, <1>6, <1>7, <1>8, <1>9, <1>10, <1>11, <2>1, HomesStay, ServedStep
<1>12. CASE homes' = Append(homes, home) /\ c.saw = 0
  <2>1. /\ homes' \in Seq(Home) /\ Len(homes) \in Nat /\ DOMAIN homes = 1 .. Len(homes)
        /\ DOMAIN homes' = 1 .. Len(homes) + 1
        /\ \A i \in 1 .. Len(homes) : homes'[i] = homes[i]
        /\ homes'[Len(homes) + 1] = home
    BY <1>1, <1>4, <1>12
  <2>2. SecondOnlyFromOverlap'
    <3>1. ASSUME NEW i \in DOMAIN homes' PROVE homes'[i].saw = 0
      <4>1. CASE i \in DOMAIN homes
        BY <1>1, <2>1, <4>1 DEF SecondOnlyFromOverlap
      <4>2. CASE i = Len(homes) + 1
        BY <1>4, <1>12, <2>1, <4>2
      <4> QED
        BY <2>1, <4>1, <4>2
    <3> QED
      BY <3>1 DEF SecondOnlyFromOverlap
  <2>3. (\E i \in DOMAIN homes : homes[i].by = "create") =>
          (\E i \in DOMAIN homes' : homes'[i].by = "create")
    BY <2>1
  <2>4. c.kind = "create" => \E i \in DOMAIN homes' : homes'[i].by = "create"
    BY <1>4, <2>1
  <2>5. Underway(c) => ChosenBy(PageOf(c), homes', D, entry_log'.undone)
    BY <2>4 DEF Underway, ChosenBy
  <2> QED
    BY <1>1, <1>3, <1>6, <1>7, <1>8, <1>9, <1>10, <2>1, <2>2, <2>3, <2>5, ServedStep
<1>13. CASE Provisions(c) /\ homes' = Append(homes, home)
  <2>1. c.saw = 0
    BY <1>1, <1>13 DEF Provisions, CallsKept, Underway
  <2> QED
    BY <1>12, <1>13, <2>1
<1> QED
  BY <1>5, <1>9, <1>11, <1>13

\* The answer, or the loss of it: after the household its account, if it is to have
\* one; what is not committed stays under way.
LEMMA AnswerStep ==
  ASSUME EntryInductive, NEW c \in calls, NEW well \in BOOLEAN, AnswerCall(c, well)
  PROVE  EntryInductive'
<1>1. /\ EntryTypes /\ CallsKept /\ SecondOnlyFromOverlap /\ c \in ApiCall /\ c.tab \in Tab
      /\ tab[c.tab] \in Page /\ tab \in [Tab -> Page]
  BY DEF EntryInductive, EntryTypes, ApiCall
<1>2. /\ UNCHANGED <<user, session, homes, entry_log>> /\ ~c.heard
      /\ well => c.stage \in {"done", "over"}
      /\ entry_log' \in Log /\ entry_log'.visits = entry_log.visits
      /\ entry_log.undone \subseteq entry_log'.undone
  BY <1>1 DEF AnswerCall, EntryTypes
<1>3. c.kind \in {"create", "account"} /\ Creating(c)
  BY <1>1, <1>2 DEF CallsKept, ApiCall, Creating
<1>4. Rest(c) \in SUBSET ApiCall
  BY <1>1 DEF Rest, ApiCall
<1>5. \A d \in Rest(c) :
        /\ d.tab = c.tab /\ d.load = c.load /\ d.kind = c.kind /\ d.saw = c.saw
        /\ d.stage = c.stage /\ d.stage # "over" /\ d.heard
  BY <1>1 DEF Rest, ApiCall
<1>6. \A d \in Rest(c) :
        /\ d.tab = c.tab /\ d.load = c.load /\ (Creating(d) => Creating(c))
        /\ (d.kind = "query" => d.heard) /\ (Underway(d) => d.saw = 0) /\ ~Creating(d)
  <2>1. \A d \in Rest(c) : Underway(d) => d.saw = 0
    BY <1>1, <1>5 DEF Underway, CallsKept
  <2> QED
    BY <1>5, <2>1 DEF Creating
<1>7. Underway(c) => \E d \in Rest(c) : Underway(d) /\ PageOf(d) = PageOf(c)
  <2>1. Underway(c) => Rest(c) # {}
    BY DEF Rest, Underway
  <2> QED
    BY <1>5, <2>1 DEF Underway, PageOf
<1>8. /\ AfterCall(c, well) # "error" => ChosenBy(PageOf(c), homes, calls, entry_log.undone)
      /\ AfterCall(c, well) = "account" => c.kind = "create"
  <2>1. CASE c.kind = "create"
    <3>1. AfterCall(c, well) # "error" => well
      BY <2>1 DEF AfterCall, AfterCreate
    <3>2. c.stage = "done" => ChosenBy(PageOf(c), homes, calls, entry_log.undone)
      BY <2>1 DEF ChosenBy, Underway
    <3>3. c.stage = "over" => ChosenBy(PageOf(c), homes, calls, entry_log.undone)
      BY <1>1, <2>1 DEF CallsKept
    <3> QED
      BY <1>2, <2>1, <3>1, <3>2, <3>3
  <2>2. CASE c.kind = "account"
    BY <1>1, <2>2 DEF AfterCall, CallsKept
  <2> QED
    BY <1>3, <2>1, <2>2
<1>9. \A d \in Rest(c) : d.kind = "account" \/ (d.kind = "create" /\ d.stage = "over") =>
        ChosenBy(PageOf(c), homes, calls, entry_log.undone)
  BY <1>1, <1>5 DEF CallsKept
<1>10. Underway(c) => ChosenBy(PageOf(c), homes', Rest(c), entry_log'.undone)
  BY <1>7 DEF ChosenBy
<1>11. CASE ~Waits(c) /\ calls' = (calls \ {c}) \cup Rest(c) /\ UNCHANGED tab
  <2>1. \A d, e \in Rest(c) : Creating(d) /\ Creating(e) => d = e
    BY <1>6
  <2> QED
    BY <1>2, <1>4, <1>6, <1>9, <1>10, <1>11, <2>1, HomesStay, ServedStep
<1>12. CASE /\ Waits(c) /\ AfterCall(c, well) = "account" /\ UNCHANGED tab
            /\ calls' = ((calls \ {c}) \cup Rest(c)) \cup {ForAccount(c)}
  <2> DEFINE f == ForAccount(c)
             D == Rest(c) \cup {f}
  <2>1. /\ f \in ApiCall /\ f.tab = c.tab /\ f.load = c.load /\ f.kind = "account"
        /\ f.stage = "sent"
    BY <1>1 DEF ApiCall, ForAccount
  <2> HIDE DEF f
  <2>2. calls' = (calls \ {c}) \cup D /\ D \in SUBSET ApiCall
    BY <1>4, <1>12, <2>1 DEF f
  <2>3. \A d \in D :
          /\ d.tab = c.tab /\ d.load = c.load /\ (Creating(d) => Creating(c))
          /\ (d.kind = "query" => d.heard) /\ (Underway(d) => d.saw = 0)
    BY <1>3, <1>6, <2>1 DEF Underway
  <2>4. \A d, e \in D : Creating(d) /\ Creating(e) => d = e
    BY <1>6
  <2>5. ChosenBy(PageOf(c), homes, calls, entry_log.undone)
    BY <1>8, <1>12
  <2>6. Underway(c) => ChosenBy(PageOf(c), homes', D, entry_log'.undone)
    BY <1>7 DEF ChosenBy
  <2> HIDE DEF D
  <2> QED
    BY <1>2, <1>12, <2>2, <2>3, <2>4, <2>5, <2>6, HomesStay, ServedStep
<1>13. ASSUME NEW e \in BOOLEAN, NEW s \in {3, 4},
              Waits(c), s = 4 => AfterCall(c, well) # "error",
              calls' = (calls \ {c}) \cup Rest(c),
              tab' = [tab EXCEPT ![c.tab].busy = FALSE, ![c.tab].error = e, ![c.tab].step = s]
       PROVE  EntryInductive'
  <2> DEFINE w == [tab[c.tab] EXCEPT !.busy = FALSE, !.error = e]
             x == [w EXCEPT !.step = s]
  <2>1. /\ w \in Page /\ w.page = tab[c.tab].page /\ w.load = tab[c.tab].load
        /\ w.going = tab[c.tab].going
    BY <1>1 DEF Page
  <2>2. tab' = [tab EXCEPT ![c.tab] = x]
    BY <1>1, <1>13
  <2> HIDE DEF w
  <2>3. /\ x \in Page /\ x.page = w.page /\ x.load = w.load
        /\ x.going = w.going /\ x.step = s
    BY <2>1 DEF Page
  <2>4. tab[c.tab].page = "/onboarding" /\ tab[c.tab].load = c.load
    BY <1>13 DEF Waits, At
  <2> HIDE DEF x
  <2>5. \/ x.step = 3
        \/ x.step = 4 /\ ChosenBy(PageOf(c), homes, calls, entry_log.undone)
    BY <1>8, <1>13, <2>3
  <2>6. \E y \in Page :
          /\ tab' = [tab EXCEPT ![c.tab] = y] /\ Creating(c) /\ tab[c.tab].load = c.load
          /\ tab[c.tab].page = "/onboarding" /\ y.page = "/onboarding"
          /\ y.load = c.load /\ y.going = tab[c.tab].going
          /\ \/ y.step = 3
             \/ y.step = 4 /\ ChosenBy(PageOf(c), homes, calls, entry_log.undone)
    <3>1. x \in Page
      BY <2>3
    <3> WITNESS x \in Page
    <3> QED
      BY <1>3, <2>1, <2>2, <2>3, <2>4, <2>5
  <2>7. /\ \A d, g \in Rest(c) : Creating(d) /\ Creating(g) => d = g
        /\ \A d \in Rest(c) : ~Creating(d)
    BY <1>6
  <2> QED
    BY <1>2, <1>4, <1>6, <1>9, <1>10, <1>13, <2>6, <2>7, HomesStay, ServedStep
<1>14. CASE /\ Waits(c) /\ AfterCall(c, well) = "done" /\ calls' = (calls \ {c}) \cup Rest(c)
            /\ tab' = [tab EXCEPT ![c.tab].busy = FALSE, ![c.tab].error = FALSE,
                                  ![c.tab].step = 4]
  <2>1. AfterCall(c, well) # "error"
    BY <1>14
  <2> QED
    BY <1>13, <1>14, <2>1
<1>15. CASE /\ Waits(c) /\ AfterCall(c, well) = "error" /\ calls' = (calls \ {c}) \cup Rest(c)
            /\ tab' = [tab EXCEPT ![c.tab].busy = FALSE, ![c.tab].error = TRUE,
                                  ![c.tab].step = 3]
  <2>1. 3 = 4 => AfterCall(c, well) # "error"
    OBVIOUS
  <2> QED
    BY <1>13, <1>15, <2>1
<1> QED
  BY <1>11, <1>12, <1>14, <1>15 DEF AnswerCall

\* Every step keeps it.
LEMMA EntryStep == EntryInductive /\ [EntryNext]_entry_vars => EntryInductive'
<1> SUFFICES ASSUME EntryInductive, [EntryNext]_entry_vars PROVE EntryInductive'
  OBVIOUS
<1>1. ASSUME NEW t \in Tab, NEW a \in Address, Visit(t, a) PROVE EntryInductive'
  BY <1>1, LeaveStep
<1>2. ASSUME NEW t \in Tab, Route(t) PROVE EntryInductive'
  BY <1>2, RouteStep
<1>3. ASSUME NEW t \in Tab,
             \/ SubmitLogin(t) \/ SubmitSignUp(t) \/ SignUpAnswered(t)
             \/ ResendConfirmation(t) \/ \E s \in 1 .. 3 : OnboardingStep(t, s)
      PROVE  EntryInductive'
  BY <1>3, FormStep
<1>4. ASSUME NEW t \in Tab, SignInAnswered(t) PROVE EntryInductive'
  <2>1. CASE tab' = [tab EXCEPT ![t].going = "/dashboard"]
    BY <1>4, <2>1, LeaveStep
  <2>2. CASE tab' = [tab EXCEPT ![t].busy = FALSE, ![t].error = TRUE] /\ UNCHANGED session
    BY <1>4, <2>2, LoginRefusedStep
  <2> QED
    BY <1>4, <2>1, <2>2 DEF SignInAnswered
<1>5. ASSUME NEW t \in Tab, SignOut(t) PROVE EntryInductive'
  BY <1>5, SignOutStep
<1>6. ASSUME NEW t \in Tab, GoToDashboard(t) PROVE EntryInductive'
  BY <1>6, LeaveStep
<1>7. ASSUME NEW t \in Tab, QueryPage(t) \/ \E account \in BOOLEAN : CreateHousehold(t, account)
      PROVE  EntryInductive'
  BY <1>7, CallStep
<1>8. CASE FollowConfirmation
  <2>1. /\ user' = "confirmed" /\ UNCHANGED <<session, tab, calls, homes, entry_log>>
    BY <1>8 DEF FollowConfirmation
  <2>2. EntryTypes'
    BY <2>1 DEF EntryInductive, EntryTypes
  <2>3. /\ \A t \in Tab : PageKept(t)'
        /\ CallsKept' /\ SecondOnlyFromOverlap'
    BY <2>1 DEF EntryInductive, PageKept, CallsKept, SecondOnlyFromOverlap
  <2> QED
    BY <2>2, <2>3 DEF EntryInductive
<1>9. ASSUME NEW c \in calls, BeginCall(c) \/ CommitCall(c) PROVE EntryInductive'
  BY <1>9, BeginStep, CommitStep
<1>10. ASSUME NEW c \in calls, NEW well \in BOOLEAN, AnswerCall(c, well) PROVE EntryInductive'
  BY <1>10, AnswerStep
<1>11. CASE UNCHANGED entry_vars
  <2>1. UNCHANGED <<user, session, tab, calls, homes, entry_log>>
    BY <1>11 DEF entry_vars
  <2> QED
    BY <2>1 DEF EntryInductive, EntryTypes, PageKept, CallsKept, SecondOnlyFromOverlap
<1> QED
  BY <1>1, <1>2, <1>3, <1>4, <1>5, <1>6, <1>7, <1>8, <1>9, <1>10, <1>11 DEF EntryNext

\* What the step keeps is more than what the run checks.
LEMMA EntryInductiveImplies == EntryInductive => EntryInvariant
<1> SUFFICES ASSUME EntryInductive PROVE EntryInvariant
  OBVIOUS
<1>1. EntryTypeOK
  <2>1. \A t \in Tab : tab[t] \in Page /\ PageKept(t)
    BY DEF EntryInductive, EntryTypes
  <2>2. \A t \in Tab : tab[t].step \in 1 .. (IF tab[t].page = "/onboarding" THEN 4 ELSE 2)
    <3> SUFFICES ASSUME NEW t \in Tab
                 PROVE  tab[t].step \in 1 .. (IF tab[t].page = "/onboarding" THEN 4 ELSE 2)
      OBVIOUS
    <3>1. tab[t].step \in 1 .. 4
      BY <2>1 DEF Page
    <3>2. tab[t].step <= (IF tab[t].page = "/onboarding" THEN 4 ELSE 2)
      BY <2>1 DEF PageKept
    <3> QED
      BY <3>1, <3>2
  <2>3. \A i \in DOMAIN homes : homes[i] \in Home
    BY DEF EntryInductive, EntryTypes
  <2> QED
    BY <2>1, <2>2, <2>3 DEF EntryTypeOK, EntryInductive, EntryTypes, Page, ApiCall, Home
<1>2. OnboardedIntoChosen
  BY DEF OnboardedIntoChosen, EntryInductive, PageKept, Chosen, ChosenBy, Underway, At
<1>3. CreatesOneAtATime
  BY DEF CreatesOneAtATime, EntryInductive, CallsKept, Creating, PageOf
<1> QED
  BY <1>1, <1>2, <1>3 DEF EntryInvariant, EntryInductive

\* Whatever the tabs do beside each other: pages and sessions belong together, the
\* onboarding ends in the household chosen there (create_household refuses with 409)
\* but for a commit that is under way or has failed after the answer, one page waits
\* for one creation at a time, and a second household takes transactions that
\* overlapped.
THEOREM EntryKept == EntrySpec => []EntryInvariant
BY EntryInductiveInit, EntryStep, EntryInductiveImplies, PTL DEF EntrySpec
=============================================================================
