------------------------------ MODULE KeyCache -------------------------------
(***************************************************************************)
(* The cache of the identity provider's key set in dependencies.py: two    *)
(* module variables, written one after the other with an await in between, *)
(* by every request that finds them too old.                               *)
(***************************************************************************)
EXTENDS Naturals

CONSTANTS
  Verifier,  \* requests that verify a token
  TTL,       \* _JWKS_CACHE_TTL
  Timeout,   \* how long a request waits for the provider
  MaxClock   \* bound: the time that passes

ASSUME KeyAssumption == TTL \in Nat \ {0} /\ Timeout \in Nat /\ MaxClock \in Nat

VARIABLES
  clock,
  key_set,     \* _jwks_cache: none, or when the provider has read out what is cached
  stamp,       \* _jwks_cache_time
  verifier,    \* per request: stage, its now, when the provider has answered it
  oldest       \* history: the greatest age of a key set served from the cache

key_vars == <<clock, key_set, stamp, verifier, oldest>>

None == [read |-> FALSE]
KeysFaulty(at) == [read |-> TRUE, at |-> at + TTL]
Keys(at) == [read |-> TRUE, at |-> at]
Waiting == [stage |-> "idle", start |-> 0, read_at |-> 0]

KeyInit ==
  /\ clock = 0 /\ key_set = None /\ stamp = 0
  /\ verifier = [v \in Verifier |-> Waiting]
  /\ oldest = 0

Usable(time) == key_set.read /\ time - stamp < TTL

FromCache(v) ==
  /\ verifier[v].stage = "idle" /\ Usable(clock)
  /\ oldest' = IF clock - key_set.at > oldest THEN clock - key_set.at ELSE oldest
  /\ UNCHANGED <<clock, key_set, stamp, verifier>>

FetchKeys(v) ==
  /\ verifier[v].stage = "idle" /\ ~Usable(clock)
  /\ verifier' = [verifier EXCEPT ![v] = [stage |-> "asked", start |-> clock, read_at |-> 0]]
  /\ UNCHANGED <<clock, key_set, stamp, oldest>>

ProviderReads(v) ==
  /\ verifier[v].stage = "asked"
  /\ verifier' = [verifier EXCEPT ![v] =
                   [stage |-> "answered", start |-> verifier[v].start, read_at |-> clock]]
  /\ UNCHANGED <<clock, key_set, stamp, oldest>>

\* _jwks_cache = resp.json(), before the client is closed
StoreKeys(v) ==
  /\ verifier[v].stage = "answered"
  /\ key_set' = Keys(verifier[v].read_at)
  /\ verifier' = [verifier EXCEPT ![v].stage = "stored"]
  /\ UNCHANGED <<clock, stamp, oldest>>

StampOfFaulty(v) == clock
StampOf(v) == verifier[v].start

\* _jwks_cache_time = now, after it
StampKeys(v) ==
  /\ verifier[v].stage = "stored"
  /\ stamp' = StampOf(v)
  /\ verifier' = [verifier EXCEPT ![v] = Waiting]
  /\ UNCHANGED <<clock, key_set, oldest>>

\* No answer in time, or an error: the cache stays as it is.
GiveUp(v) ==
  /\ verifier[v].stage \in {"asked", "answered"}
  /\ verifier' = [verifier EXCEPT ![v] = Waiting]
  /\ UNCHANGED <<clock, key_set, stamp, oldest>>

Pass ==
  /\ clock < MaxClock
  /\ \A v \in Verifier : verifier[v].stage # "idle" => clock - verifier[v].start < Timeout
  /\ clock' = clock + 1
  /\ UNCHANGED <<key_set, stamp, verifier, oldest>>

KeyNext ==
  \/ \E v \in Verifier : \/ FromCache(v) \/ FetchKeys(v) \/ ProviderReads(v)
                         \/ StoreKeys(v) \/ StampKeys(v) \/ GiveUp(v)
  \/ Pass

KeySpec == KeyInit /\ [][KeyNext]_key_vars

\* A key set served from the cache was the provider's less than TTL plus the time
\* one request may wait ago, although two requests that refresh it at once can
\* leave the answer of one under the time of the other.
KeysAreFresh == oldest < TTL + Timeout

\* The cache is stamped no later than it is now, and never before it is filled.
KeyTypeOK ==
  /\ clock \in 0 .. MaxClock /\ stamp \in 0 .. clock
  /\ key_set.read => key_set.at \in 0 .. clock
  /\ \A v \in Verifier : verifier[v].stage \in {"idle", "asked", "answered", "stored"}

\* The cache of the keys, however many requests refresh it at once: what is
\* served is recent, what is stored and stamped is not from the future.
KeyInvariant == KeyTypeOK /\ KeysAreFresh
=============================================================================
