--------------------------- MODULE OrdersInvariant ---------------------------
(***************************************************************************)
(* The inductive invariant behind the safety properties of Orders: what is  *)
(* true of a session between two of its statements.                        *)
(***************************************************************************)
EXTENDS Orders

\* No URL for the order is, or will be, in the hands of a buyer who could
\* still pay: its Stripe session is over, or it was never offered and no
\* purchase request is left that would offer it.
Settled(o) ==
    \/ checkout[o] \in {"completed", "expired"}
    \/ ~offered[o] /\ \A t \in Session : pc[t] \in BuyPC => ord[t] # o

\* Stripe and the sweep know an order only after its row exists.
OrderInv ==
    /\ \A o \in Orders :
          /\ ~Placed(o) => checkout[o] = "none" /\ o \notin aged
          /\ offered[o] => checkout[o] # "none"
          /\ o \in aged \/ status[o] = "canceled" => Settled(o)
    /\ todo \subseteq aged

\* A purchase request is the only one about its order until it hands the URL
\* over; the Stripe session is where the request left it.
PurchaseInv ==
    /\ \A s \in Session :
          /\ pc[s] \in OrderPC => status[ord[s]] # "new"
          /\ pc[s] \in {"reserve", "commitReserve"} => status[ord[s]] = "sent"
          /\ pc[s] \in {"stripe", "saveCheckout"} => Placed(ord[s])
          /\ pc[s] \in {"reserve", "commitReserve", "stripe"} => checkout[ord[s]] = "none"
          /\ pc[s] = "saveCheckout" => checkout[ord[s]] = "open"
          /\ pc[s] \in BuyPC => ~offered[ord[s]]
    /\ \A s, t \in Session :
          pc[s] \in BuyPC /\ pc[t] \in BuyPC /\ ord[s] = ord[t] => s = t

\* A confirmation works for a completed Stripe session; one that read PAID may
\* have been overtaken by a cancellation only.
ConfirmInv ==
    \A s \in Session :
        /\ pc[s] \in ConfirmPC => checkout[ord[s]] = "completed"
        /\ pc[s] = "commitConfirm" /\ seen[s] = "paid"
              => status[ord[s]] \in {"paid", "canceled"}

\* A cancellation works for an order nobody can pay any more, and has read the
\* order and its payment together.
CancelInv ==
    \A s \in Session :
        /\ pc[s] \in CancelPC => Placed(ord[s]) /\ Settled(ord[s])
        /\ pc[s] \in CancelPC /\ seen[s] = "pending" => seenPay[s] = "pending"
        /\ pc[s] \in {"lockBooks", "commitCancel"} => seen[s] = "pending"

\* A session about to write a book holds its row lock.
LockInv ==
    \A s \in Session :
        pc[s] \in {"commitReserve", "commitCancel"} =>
            \A b \in Ordered(ord[s]) : lock[b] = s

\* What such a session will write is a quantity, and that of a direct purchase
\* was read under the lock.
CopyInv ==
    \A s \in Session :
        /\ pc[s] = "reserve" /\ ord[s] \notin CartOrders => copy[s] = EmptyMap
        /\ pc[s] \in {"commitReserve", "commitCancel"} =>
              \A b \in Ordered(ord[s]) : copy[s][b] \in Nat
        /\ pc[s] = "commitReserve" =>
              \A b \in Ordered(ord[s]) : copy[s][b] >= items[ord[s]][b]
        /\ pc[s] = "commitReserve" /\ ord[s] \notin CartOrders =>
              \A b \in Ordered(ord[s]) : copy[s][b] = stock[b]

\* The inductive invariant: it implies PaidOnlyIfCompleted,
\* NeverCanceledWhilePayable and StatusAgreesWithPayment, and every step of
\* every session preserves it.
IInv ==
    /\ TypeOK
    /\ OrderInv
    /\ PurchaseInv
    /\ ConfirmInv
    /\ CancelInv
    /\ LockInv
    /\ CopyInv
    /\ PaidOnlyIfCompleted
    /\ StatusAgreesWithPayment
=============================================================================
