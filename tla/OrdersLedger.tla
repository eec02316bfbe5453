---------------------------- MODULE OrdersLedger ----------------------------
(***************************************************************************)
(* The checkout of Orders as an implementation of OrderLedger.  It is one   *)
(* when sessions do not overlap (MaxInFlight = 1): crashes, failing Stripe  *)
(* calls, lost answers and webhooks that are late, lost, repeated or out of *)
(* order do not matter then.                                                *)
(***************************************************************************)
EXTENDS Orders

\* An order exists in the ledger once transaction 1 of BuyBooks is committed.
LedgerState == [o \in Orders |-> IF Placed(o) THEN status[o] ELSE "none"]
LedgerBasket == [o \in Orders |-> IF Placed(o) THEN items[o] ELSE NoItems]

Ledger == INSTANCE OrderLedger WITH basket <- LedgerBasket, state <- LedgerState

\* Every step of the checkout is a step of the ledger or leaves it unchanged:
\* a reservation, a cancellation or a confirmation is never half done, done
\* twice, or done to the wrong amount, whatever happens between the sessions.
LedgerImplemented == Ledger!Spec
=============================================================================
