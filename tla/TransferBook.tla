---------------------------- MODULE TransferBook ----------------------------
(***************************************************************************)
(* What the transfer endpoints promise about the legs in the transactions  *)
(* table, whatever else runs at the same time: the two legs of a transfer  *)
(* appear in one step and a deletion takes every remaining leg of it in    *)
(* one step; only the closing of an account may take legs without their    *)
(* counterparts, and then only legs on that account.                       *)
(***************************************************************************)
CONSTANTS
  Account,    \* account ids
  Transfer,   \* transfer ids
  Leg,        \* ids of the rows of the transactions table that are legs
  TransferOf, \* leg -> its transfer
  AccountOf   \* leg -> its account

VARIABLES
  active,  \* the legs with is_active
  live     \* the accounts with is_active

LegsOf(x) == {l \in Leg : TransferOf[l] = x}

Init ==
  /\ \E xs \in SUBSET Transfer : active = {l \in Leg : TransferOf[l] \in xs}
  /\ live = Account

Book(x) ==
  /\ LegsOf(x) \cap active = {}
  /\ active' = active \cup LegsOf(x)
  /\ UNCHANGED live

Reverse(x) ==
  /\ active' = active \ LegsOf(x)
  /\ UNCHANGED live

\* The closing may have overlooked legs that were booked while it ran.
CloseAccount(a) ==
  /\ live' = live \ {a}
  /\ \E legs \in SUBSET {l \in active : AccountOf[l] = a} :
       active' = active \ legs

Next ==
  \/ \E x \in Transfer : Book(x) \/ Reverse(x)
  \/ \E a \in Account : CloseAccount(a)

Spec == Init /\ [][Next]_<<active, live>>
=============================================================================
