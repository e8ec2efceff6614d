-------------------------- MODULE MCLedgerSessions --------------------------
(* Instances of LedgerSessions for TLC. *)
EXTENDS SessionsClaims, TLC

CONSTANTS s1, s2, s3

\* Sessions are interchangeable.
Sessions == Permutations(Session)

\* Three transfers in a ring of three accounts.
RingFrom == [x \in Transfer |-> x]
RingTo == [x \in Transfer |-> IF x = 3 THEN 1 ELSE x + 1]

\* Two transfers between two accounts, one each way.
CrossFrom == [x \in Transfer |-> x]
CrossTo == [x \in Transfer |-> 3 - x]
=============================================================================
