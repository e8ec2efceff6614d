------------------------------ MODULE MCLedger ------------------------------
(* Instances of Ledger for TLC: one household with two accounts for the     *)
(* balance rules, two households with one each for tenant isolation, two    *)
(* currencies for the transfers.                                            *)
EXTENDS Ledger

CONSTANTS h1, h2, a1, a2, b1, mine

\* One household, two accounts, a debit and a credit one.
OneHousehold == [a \in {a1, a2} |-> h1]
OneCurrency == [a \in {a1, a2} |-> "EGP"]
MineOwner == [c \in {mine} |-> h1]

\* Two households, an account each.
Neighbours == [a \in {a1, b1} |-> IF a = a1 THEN h1 ELSE h2]
NeighboursCurrency == [a \in {a1, b1} |-> "EGP"]

\* Two currencies in one household.
TwoCurrencies == [a \in {a1, a2} |-> IF a = a1 THEN "EGP" ELSE "USD"]
=============================================================================
