---------------------------- MODULE OrderLedger ----------------------------
(***************************************************************************)
(* What the checkout promises, without sessions, locks or webhooks: placing *)
(* an order takes its books from the stock, canceling a pending order puts  *)
(* exactly these books back, a payment that Stripe took makes the order     *)
(* paid.  Each is one indivisible step.                                     *)
(***************************************************************************)
EXTENDS Naturals

CONSTANTS Books, Orders, InitStock

VARIABLES
    stock,     \* copies on the shelf
    basket,    \* what an order holds or held
    state      \* "none" | "pending" | "paid" | "canceled"

vars == <<stock, basket, state>>

Init ==
    /\ stock = InitStock
    /\ basket = [o \in Orders |-> [b \in Books |-> 0]]
    /\ state = [o \in Orders |-> "none"]

\* CreateOrder and the reservation of its books.
Place(o) ==
    /\ state[o] = "none"
    /\ basket'[o] \in [Books -> Nat]
    /\ basket' = [basket EXCEPT ![o] = basket'[o]]
    /\ \A b \in Books : basket'[o][b] <= stock[b]
    /\ stock' = [b \in Books |-> stock[b] - basket'[o][b]]
    /\ state' = [state EXCEPT ![o] = "pending"]

Cancel(o) ==
    /\ state[o] = "pending"
    /\ stock' = [b \in Books |-> stock[b] + basket[o][b]]
    /\ state' = [state EXCEPT ![o] = "canceled"]
    /\ UNCHANGED basket

\* The money is with Stripe: also a canceled order becomes paid, its books
\* stay on the shelf.
Confirm(o) ==
    /\ state[o] \in {"pending", "canceled"}
    /\ state' = [state EXCEPT ![o] = "paid"]
    /\ UNCHANGED <<stock, basket>>

Next == \E o \in Orders : Place(o) \/ Cancel(o) \/ Confirm(o)

Spec == Init /\ [][Next]_vars
=============================================================================
