--------------------------- MODULE SessionsClaims ---------------------------
(***************************************************************************)
(* What the documentation says of transfers, as a property of              *)
(* LedgerSessions; concurrent requests refute it.                          *)
(***************************************************************************)
EXTENDS LedgerSessions

\* docs/03-features/transfers.md:15-20: a transfer updates the balances by
\* "UPDATE accounts SET balance = balance - source_amount", so that no two of
\* them can lose an amount; the code writes back a balance it read before.
TransfersMoveBalances == \A a \in live : balance[a] = LegSum(a)
=============================================================================
