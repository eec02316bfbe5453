------------------------------- MODULE Orders -------------------------------
(***************************************************************************)
(* Checkout of the bookshop: reservation of stock (BuyBooks, BuyCart), the *)
(* Stripe checkout session, the webhooks that confirm or cancel an order   *)
(* (ConfirmOrderPayment, CancelOrder) and the cron task that cancels what  *)
(* the webhooks left behind (cancel_expired_pending_orders).               *)
(*                                                                         *)
(* Every HTTP request, webhook delivery or task run owns one SQLAlchemy    *)
(* session.  A statement of a session (a SELECT, a FOR UPDATE NOWAIT, a    *)
(* COMMIT that flushes the pending UPDATEs: autoflush is off) is one       *)
(* action; sessions interleave between statements, as READ COMMITTED lets  *)
(* them.  A session keeps what it has read in its identity map: a row that *)
(* is already there is NOT refreshed by a later SELECT, not even by SELECT *)
(* FOR UPDATE, and a flush writes absolute values computed from it.        *)
(***************************************************************************)
EXTENDS Naturals, FiniteSets

CONSTANTS
    Books, Users,
    Orders,        \* one element per purchase request; the order it may create
    CartOrders,    \* the requests that arrive at /orders/from-cart
    UserOf,        \* [Orders -> Users]
    Request,       \* [Orders -> [Books -> Nat]]: items of a /orders request
    InitStock,     \* [Books -> Nat]
    InitCart,      \* [Users -> [Books -> Nat]], 0: the book is not in the cart
    OnSale,        \* the books with is_available = true
    Web,           \* sessions of the web process (requests and webhooks)
    Sweeper,       \* the session of the taskiq cron task
    MaxItems,      \* 10 in the code, for an order and for a cart
    MaxInFlight,   \* bound: sessions at work at the same time
    MaxCrashes,    \* bound: processes killed in the middle of a session
    None,          \* no order / no lock owner
    Absent         \* the identity map does not hold the book

Session == Web \cup {Sweeper}

Basket == [Books -> Nat]

ASSUME OrdersAssumption ==
    /\ IsFiniteSet(Session)
    /\ CartOrders \subseteq Orders
    /\ UserOf \in [Orders -> Users]
    /\ Request \in [Orders -> Basket]
    /\ InitStock \in Basket
    /\ InitCart \in [Users -> Basket]
    /\ Sweeper \notin Web
    /\ None \notin Session
    /\ None \notin Orders
    /\ Absent \notin Nat
    /\ MaxItems \in Nat
    /\ MaxInFlight \in Nat
    /\ MaxCrashes \in Nat

VARIABLES
    \* PostgreSQL
    stock,         \* books.quantity
    lock,          \* row lock of a book: its owner or None
    cart,          \* cart_items.quantity per user and book
    items,         \* order_items.quantity per order and book
    status,        \* orders.status; see Status for the values without a row
    payment,       \* payments.status of the order's payment
    restocks,      \* history: how many commits returned the order's books
    \* Stripe
    checkout,      \* the checkout session of the order
    offered,       \* the buyer was given the checkout URL
    aged,          \* orders older than checkout_ttl + EXPIRE_BUFFER_MINUTES
    \* SQLAlchemy sessions
    pc, ord,       \* the next statement, and the order it is about
    seen, seenPay, \* order.status and payment.status in the identity map
    copy,          \* book.quantity in the identity map
    todo,          \* expired_ids the sweep has still to visit
    crashes

dbVars == <<stock, lock, cart, items, status, payment, restocks>>
stripeVars == <<checkout, offered, aged>>
sessionVars == <<pc, ord, seen, seenPay, copy>>
vars == <<dbVars, stripeVars, sessionVars, todo, crashes>>

-----------------------------------------------------------------------------
\* "new", "sent" and "rejected" have no row: the request was not made yet, is
\* being served, was refused.
Status == {"new", "sent", "rejected", "pending", "paid", "canceled"}
Payment == {"none", "pending", "success", "failed"}
Checkout == {"none", "open", "completed", "expired"}
BuyPC == {"reserve", "commitReserve", "stripe", "saveCheckout"}
ConfirmPC == {"confirmOrder", "commitConfirm"}
CancelPC == {"loadBooks", "lockBooks", "commitCancel"}
OrderPC == BuyPC \cup ConfirmPC \cup CancelPC
PC == OrderPC \cup {"idle", "sweep"}

TypeOK ==
    /\ stock \in Basket
    /\ lock \in [Books -> Session \cup {None}]
    /\ cart \in [Users -> Basket]
    /\ items \in [Orders -> Basket]
    /\ status \in [Orders -> Status]
    /\ payment \in [Orders -> Payment]
    /\ restocks \in [Orders -> Nat]
    /\ checkout \in [Orders -> Checkout]
    /\ offered \in [Orders -> BOOLEAN]
    /\ aged \subseteq Orders
    /\ pc \in [Session -> PC]
    /\ ord \in [Session -> Orders \cup {None}]
    /\ seen \in [Session -> Status]
    /\ seenPay \in [Session -> Payment]
    /\ copy \in [Session -> [Books -> Nat \cup {Absent}]]
    /\ todo \subseteq Orders
    /\ crashes \in 0..MaxCrashes
    /\ \A s \in Session : pc[s] \in OrderPC <=> ord[s] # None

\* Transaction 1 of BuyBooks is committed: the order has its row.
Placed(o) == status[o] \in {"pending", "paid", "canceled"}

EmptyMap == [b \in Books |-> Absent]
NoItems == [b \in Books |-> 0]

Init ==
    /\ stock = InitStock
    /\ lock = [b \in Books |-> None]
    /\ cart = InitCart
    /\ items = [o \in Orders |-> NoItems]
    /\ status = [o \in Orders |-> "new"]
    /\ payment = [o \in Orders |-> "none"]
    /\ restocks = [o \in Orders |-> 0]
    /\ checkout = [o \in Orders |-> "none"]
    /\ offered = [o \in Orders |-> FALSE]
    /\ aged = {}
    /\ pc = [s \in Session |-> "idle"]
    /\ ord = [s \in Session |-> None]
    /\ seen = [s \in Session |-> "new"]
    /\ seenPay = [s \in Session |-> "none"]
    /\ copy = [s \in Session |-> EmptyMap]
    /\ todo = {}
    /\ crashes = 0

-----------------------------------------------------------------------------
\* The books of a basket.
BooksOf(basket) == {b \in Books : basket[b] > 0}
Ordered(o) == BooksOf(items[o])

InFlight == {s \in Session : pc[s] # "idle"}
MayStart(s) == pc[s] = "idle" /\ Cardinality(InFlight) < MaxInFlight

Goto(s, label) == pc' = [pc EXCEPT ![s] = label]

\* The session is closed: its identity map is gone.
Close(s) ==
    /\ Goto(s, "idle")
    /\ ord' = [ord EXCEPT ![s] = None]
    /\ seen' = [seen EXCEPT ![s] = "new"]
    /\ seenPay' = [seenPay EXCEPT ![s] = "none"]
    /\ copy' = [copy EXCEPT ![s] = EmptyMap]

\* CancelOrder.cancel returned to its caller: a request ends, the sweep goes
\* on to its next order with the identity map the call left.
Return(s, map) ==
    IF s = Sweeper
    THEN /\ Goto(s, "sweep")
         /\ ord' = [ord EXCEPT ![s] = None]
         /\ seen' = [seen EXCEPT ![s] = "new"]
         /\ seenPay' = [seenPay EXCEPT ![s] = "none"]
         /\ copy' = [copy EXCEPT ![s] = map]
    ELSE Close(s)

Unlocked(s) == [b \in Books |-> IF lock[b] = s THEN None ELSE lock[b]]

\* SELECT of books: rows the identity map holds keep their old quantity.
Loaded(map, books) ==
    [b \in Books |-> IF b \in books /\ map[b] = Absent THEN stock[b] ELSE map[b]]

\* Wrong on purpose: a SELECT without FOR UPDATE.
LockBooksUnguarded(s, books) ==
    lock' = [b \in Books |-> IF b \in books THEN s ELSE lock[b]]

\* get_list_by_ids_for_update: FOR UPDATE NOWAIT, then the rows are merged
\* into the identity map.
LockBooks(s, books) ==
    /\ \A b \in books : lock[b] = None
    /\ lock' = [b \in Books |-> IF b \in books THEN s ELSE lock[b]]

-----------------------------------------------------------------------------
\* BuyBooks.buy and BuyCart.buy

\* BuyCart reads the cart with its books before any lock; BuyBooks is given
\* the items and reads no book before the lock.
StartPurchase(s, o) ==
    /\ s \in Web
    /\ MayStart(s)
    /\ status[o] = "new"
    /\ LET basket == IF o \in CartOrders THEN cart[UserOf[o]] ELSE Request[o]
           allowed == Cardinality(BooksOf(basket)) \in 1..MaxItems
       IN  IF allowed
           THEN /\ items' = [items EXCEPT ![o] = basket]
                /\ status' = [status EXCEPT ![o] = "sent"]
                /\ Goto(s, "reserve")
                /\ ord' = [ord EXCEPT ![s] = o]
                /\ copy' = [copy EXCEPT ![s] =
                                IF o \in CartOrders
                                THEN Loaded(EmptyMap, BooksOf(basket))
                                ELSE EmptyMap]
           ELSE /\ status' = [status EXCEPT ![o] = "rejected"]
                /\ UNCHANGED <<items, pc, ord, copy>>
    /\ UNCHANGED <<stock, lock, cart, payment, restocks, stripeVars,
                   seen, seenPay, todo, crashes>>

\* Wrong on purpose: the quantity is not compared with the stock.
LockForReserveUnchecked(s) ==
    /\ pc[s] = "reserve"
    /\ LockBooks(s, Ordered(ord[s]))
    /\ copy' = [copy EXCEPT ![s] = Loaded(@, Ordered(ord[s]))]
    /\ Goto(s, "commitReserve")
    /\ UNCHANGED <<stock, cart, items, status, payment, restocks, stripeVars,
                   ord, seen, seenPay, todo, crashes>>

LockForReserve(s) ==
    /\ pc[s] = "reserve"
    /\ LET basket == items[ord[s]]
           map == Loaded(copy[s], BooksOf(basket))
       IN  /\ LockBooks(s, BooksOf(basket))
           /\ \A b \in BooksOf(basket) : b \in OnSale /\ map[b] >= basket[b]
           /\ copy' = [copy EXCEPT ![s] = map]
    /\ Goto(s, "commitReserve")
    /\ UNCHANGED <<stock, cart, items, status, payment, restocks, stripeVars,
                   ord, seen, seenPay, todo, crashes>>

\* OrderBookNotAvailableERR, or BooksBusyERR.  Always possible: a statement
\* outside this module (the foreign key check of a new cart item) may hold the
\* row at this instant.
RejectPurchase(s) ==
    /\ pc[s] = "reserve"
    /\ status' = [status EXCEPT ![ord[s]] = "rejected"]
    /\ Close(s)
    /\ UNCHANGED <<stock, lock, cart, items, payment, restocks, stripeVars,
                   todo, crashes>>

\* The flush and COMMIT of transaction 1.
CommitReserve(s) ==
    /\ pc[s] = "commitReserve"
    /\ LET o == ord[s]
           left == [b \in Books |-> IF b \in Ordered(o)
                                    THEN copy[s][b] - items[o][b]
                                    ELSE copy[s][b]]
       IN  /\ stock' = [b \in Books |-> IF b \in Ordered(o) THEN left[b]
                                                            ELSE stock[b]]
           /\ copy' = [copy EXCEPT ![s] = left]
           /\ status' = [status EXCEPT ![o] = "pending"]
           /\ payment' = [payment EXCEPT ![o] = "pending"]
    /\ lock' = Unlocked(s)
    /\ Goto(s, "stripe")
    /\ UNCHANGED <<cart, items, restocks, stripeVars, ord, seen, seenPay,
                   todo, crashes>>

CheckoutCreated(s) ==
    /\ pc[s] = "stripe"
    /\ checkout' = [checkout EXCEPT ![ord[s]] = "open"]
    /\ Goto(s, "saveCheckout")
    /\ UNCHANGED <<dbVars, offered, aged, ord, seen, seenPay, copy, todo, crashes>>

\* Stripe raised (the session may exist all the same: only the answer was
\* lost).  CancelOrder runs in the same SQLAlchemy session: its SELECTs find
\* the order, the payment and the books in the identity map as transaction 1
\* left them.
CheckoutFailed(s) ==
    /\ pc[s] = "stripe"
    /\ \E made \in {"none", "open"} :
            checkout' = [checkout EXCEPT ![ord[s]] = made]
    /\ seen' = [seen EXCEPT ![s] = "pending"]
    /\ seenPay' = [seenPay EXCEPT ![s] = "pending"]
    /\ Goto(s, "lockBooks")
    /\ UNCHANGED <<dbVars, offered, aged, ord, copy, todo, crashes>>

\* Transaction 2 stores transaction_id (read by nothing here); the response
\* gives the buyer the checkout URL.
SaveCheckout(s) ==
    /\ pc[s] = "saveCheckout"
    /\ offered' = [offered EXCEPT ![ord[s]] = TRUE]
    /\ Close(s)
    /\ UNCHANGED <<dbVars, checkout, aged, todo, crashes>>

-----------------------------------------------------------------------------
\* ConfirmOrderPayment.confirm, run by the checkout.session.completed webhook.
\* Stripe delivers it at least once: a delivery may start whenever the session
\* is completed.  One that finds the payment in SUCCESS returns at once and
\* changes nothing, so only the others are steps.

\* Wrong on purpose: the type of the event is not looked at.
StartConfirmAnyEvent(s, o) ==
    /\ s \in Web
    /\ MayStart(s)
    /\ checkout[o] \in {"completed", "expired"}
    /\ payment[o] # "success"
    /\ ord' = [ord EXCEPT ![s] = o]
    /\ seenPay' = [seenPay EXCEPT ![s] = payment[o]]
    /\ Goto(s, "confirmOrder")
    /\ UNCHANGED <<dbVars, stripeVars, seen, copy, todo, crashes>>

\* Wrong on purpose: a payment that was marked FAILED stays so.
StartConfirmOnlyPending(s, o) ==
    /\ s \in Web
    /\ MayStart(s)
    /\ checkout[o] = "completed"
    /\ payment[o] = "pending"
    /\ ord' = [ord EXCEPT ![s] = o]
    /\ seenPay' = [seenPay EXCEPT ![s] = payment[o]]
    /\ Goto(s, "confirmOrder")
    /\ UNCHANGED <<dbVars, stripeVars, seen, copy, todo, crashes>>

StartConfirm(s, o) ==
    /\ s \in Web
    /\ MayStart(s)
    /\ checkout[o] = "completed"
    /\ payment[o] # "success"
    /\ ord' = [ord EXCEPT ![s] = o]
    /\ seenPay' = [seenPay EXCEPT ![s] = payment[o]]
    /\ Goto(s, "confirmOrder")
    /\ UNCHANGED <<dbVars, stripeVars, seen, copy, todo, crashes>>

ReadOrderToConfirm(s) ==
    /\ pc[s] = "confirmOrder"
    /\ seen' = [seen EXCEPT ![s] = status[ord[s]]]
    /\ Goto(s, "commitConfirm")
    /\ UNCHANGED <<dbVars, stripeVars, ord, seenPay, copy, todo, crashes>>

\* order.status is not checked; an attribute set to the value it already has
\* in the identity map is not flushed.
CommitConfirm(s) ==
    /\ pc[s] = "commitConfirm"
    /\ LET o == ord[s]
       IN  /\ payment' = [payment EXCEPT ![o] = "success"]
           /\ status' = [status EXCEPT ![o] = IF seen[s] = "paid" THEN @ ELSE "paid"]
           /\ cart' = [cart EXCEPT ![UserOf[o]] =
                          [b \in Books |-> IF b \in Ordered(o) THEN 0 ELSE @[b]]]
    /\ Close(s)
    /\ UNCHANGED <<stock, lock, items, restocks, stripeVars, todo, crashes>>

-----------------------------------------------------------------------------
\* CancelOrder.cancel

\* The first SELECT of get_by_id_with_items: the order and its payment.
ReadOrderToCancel(s, o) ==
    /\ ord' = [ord EXCEPT ![s] = o]
    /\ seen' = [seen EXCEPT ![s] = status[o]]
    /\ seenPay' = [seenPay EXCEPT ![s] = payment[o]]
    /\ Goto(s, "loadBooks")

\* The checkout.session.expired webhook, delivered at least once.
StartExpired(s, o) ==
    /\ s \in Web
    /\ MayStart(s)
    /\ checkout[o] = "expired"
    /\ ReadOrderToCancel(s, o)
    /\ UNCHANGED <<dbVars, stripeVars, copy, todo, crashes>>

\* The second SELECT: the items with their books, unlocked.  The identity map
\* holds books weakly: those of an earlier order of the sweep may be gone.  An
\* order that was not PENDING is left alone.
LoadBooks(s) ==
    /\ pc[s] = "loadBooks"
    /\ \E gone \in SUBSET {b \in Books : copy[s][b] # Absent} :
          LET map == Loaded([b \in Books |-> IF b \in gone THEN Absent
                                                          ELSE copy[s][b]],
                            Ordered(ord[s]))
          IN  IF seen[s] = "pending"
              THEN /\ copy' = [copy EXCEPT ![s] = map]
                   /\ Goto(s, "lockBooks")
                   /\ UNCHANGED <<ord, seen, seenPay>>
              ELSE Return(s, map)
    /\ UNCHANGED <<dbVars, stripeVars, todo, crashes>>

LockForCancel(s) ==
    /\ pc[s] = "lockBooks"
    /\ LockBooks(s, Ordered(ord[s]))
    /\ copy' = [copy EXCEPT ![s] = Loaded(@, Ordered(ord[s]))]
    /\ Goto(s, "commitCancel")
    /\ UNCHANGED <<stock, cart, items, status, payment, restocks, stripeVars,
                   ord, seen, seenPay, todo, crashes>>

\* DBAPIError of NOWAIT (see RejectPurchase): the transaction is rolled back,
\* which also expires the identity map.
CancelBusy(s) ==
    /\ pc[s] = "lockBooks"
    /\ Return(s, EmptyMap)
    /\ UNCHANGED <<dbVars, stripeVars, todo, crashes>>

\* Wrong on purpose: the payment is left PENDING.
CommitCancelPaymentLeft(s) ==
    /\ pc[s] = "commitCancel"
    /\ LET o == ord[s]
       IN  /\ stock' = [b \in Books |-> IF b \in Ordered(o)
                                        THEN copy[s][b] + items[o][b] ELSE stock[b]]
           /\ status' = [status EXCEPT ![o] = "canceled"]
           /\ restocks' = [restocks EXCEPT ![o] = @ + 1]
           /\ Return(s, EmptyMap)
    /\ lock' = Unlocked(s)
    /\ UNCHANGED <<cart, items, payment, stripeVars, todo, crashes>>

\* Wrong on purpose: the books are not returned.
CommitCancelNoRestock(s) ==
    /\ pc[s] = "commitCancel"
    /\ status' = [status EXCEPT ![ord[s]] = "canceled"]
    /\ payment' = [payment EXCEPT ![ord[s]] = "failed"]
    /\ Return(s, EmptyMap)
    /\ lock' = Unlocked(s)
    /\ UNCHANGED <<stock, cart, items, restocks, stripeVars, todo, crashes>>

\* The flush and COMMIT: UPDATE ... WHERE id = ..., without a look at the
\* status the row has by now.
CommitCancel(s) ==
    /\ pc[s] = "commitCancel"
    /\ LET o == ord[s]
           back == [b \in Books |-> IF b \in Ordered(o)
                                    THEN copy[s][b] + items[o][b]
                                    ELSE copy[s][b]]
       IN  /\ stock' = [b \in Books |-> IF b \in Ordered(o) THEN back[b]
                                                            ELSE stock[b]]
           /\ status' = [status EXCEPT ![o] = "canceled"]
           /\ payment' = [payment EXCEPT ![o] =
                             IF seenPay[s] \in {"success", "failed"} THEN @ ELSE "failed"]
           /\ restocks' = [restocks EXCEPT ![o] = @ + 1]
           /\ Return(s, back)
    /\ lock' = Unlocked(s)
    /\ UNCHANGED <<cart, items, stripeVars, todo, crashes>>

-----------------------------------------------------------------------------
\* cancel_expired_pending_orders: one session for all the orders of a run.

\* Wrong on purpose: orders whose payment has no transaction_id are skipped.
StartSweepOnlyOffered ==
    /\ MayStart(Sweeper)
    /\ todo' = {o \in aged : status[o] = "pending" /\ offered[o]}
    /\ todo' # {}
    /\ Goto(Sweeper, "sweep")
    /\ UNCHANGED <<dbVars, stripeVars, ord, seen, seenPay, copy, crashes>>

StartSweep ==
    /\ MayStart(Sweeper)
    /\ todo' = {o \in aged : status[o] = "pending"}
    /\ todo' # {}
    /\ Goto(Sweeper, "sweep")
    /\ UNCHANGED <<dbVars, stripeVars, ord, seen, seenPay, copy, crashes>>

SweepOrder(o) ==
    /\ pc[Sweeper] = "sweep"
    /\ o \in todo
    /\ todo' = todo \ {o}
    /\ ReadOrderToCancel(Sweeper, o)
    /\ UNCHANGED <<dbVars, stripeVars, copy, crashes>>

EndSweep ==
    /\ pc[Sweeper] = "sweep"
    /\ todo = {}
    /\ Close(Sweeper)
    /\ UNCHANGED <<dbVars, stripeVars, todo, crashes>>

-----------------------------------------------------------------------------
\* The environment

\* The process dies: PostgreSQL rolls the open transaction back.
Crash(s) ==
    /\ pc[s] # "idle"
    /\ crashes < MaxCrashes
    /\ crashes' = crashes + 1
    /\ lock' = Unlocked(s)
    /\ status' = [o \in Orders |-> IF ord[s] = o /\ status[o] = "sent"
                                   THEN "rejected" ELSE status[o]]
    /\ todo' = IF s = Sweeper THEN {} ELSE todo
    /\ Close(s)
    /\ UNCHANGED <<stock, cart, items, payment, restocks, stripeVars>>

\* The buyer pays at the URL they were given.
Pay(o) ==
    /\ offered[o]
    /\ checkout[o] = "open"
    /\ checkout' = [checkout EXCEPT ![o] = "completed"]
    /\ UNCHANGED <<dbVars, offered, aged, sessionVars, todo, crashes>>

\* expires_at passes: checkout_ttl_minutes, longer than the purchase request
\* (the only session that is about an order whose checkout is open) takes.
Expire(o) ==
    /\ checkout[o] = "open"
    /\ \A s \in Session : ord[s] # o
    /\ checkout' = [checkout EXCEPT ![o] = "expired"]
    /\ UNCHANGED <<dbVars, offered, aged, sessionVars, todo, crashes>>

\* Wrong on purpose: a cutoff shorter than the life of the Stripe session.
AgeNoBuffer(o) ==
    /\ status[o] = "pending"
    /\ o \notin aged
    /\ aged' = aged \cup {o}
    /\ UNCHANGED <<dbVars, checkout, offered, sessionVars, todo, crashes>>

\* The order becomes older than the cutoff.  EXPIRE_BUFFER_MINUTES is longer
\* than a Stripe call takes, so by then a Stripe session is over, and without
\* one the purchase request has died.
Age(o) ==
    /\ status[o] = "pending"
    /\ \/ checkout[o] \in {"completed", "expired"}
       \/ checkout[o] = "none" /\ \A s \in Session : ord[s] # o
    /\ o \notin aged
    /\ aged' = aged \cup {o}
    /\ UNCHANGED <<dbVars, checkout, offered, sessionVars, todo, crashes>>

-----------------------------------------------------------------------------
\* A statement of a session that is at work.
Step(s) ==
    \/ LockForReserve(s) \/ RejectPurchase(s) \/ CommitReserve(s)
    \/ CheckoutCreated(s) \/ CheckoutFailed(s) \/ SaveCheckout(s)
    \/ ReadOrderToConfirm(s) \/ CommitConfirm(s)
    \/ LoadBooks(s) \/ LockForCancel(s) \/ CancelBusy(s) \/ CommitCancel(s)

Start(s, o) == StartPurchase(s, o) \/ StartConfirm(s, o) \/ StartExpired(s, o)

Sweep == StartSweep \/ (\E o \in Orders : SweepOrder(o)) \/ EndSweep

Outside(o) == Pay(o) \/ Expire(o) \/ Age(o)

Next ==
    \/ \E s \in Session : Step(s) \/ Crash(s)
    \/ \E s \in Session, o \in Orders : Start(s, o)
    \/ Sweep
    \/ \E o \in Orders : Outside(o)

Spec == Init /\ [][Next]_vars

\* A session that was started runs to its end unless the process dies; the
\* cron task is started again and again; Stripe sessions expire and orders grow
\* old; Stripe repeats an unanswered completed webhook.  NOWAIT that is retried
\* forever finds the rows free at some time.  Nothing forces an expired
\* webhook to arrive, or a buyer to pay.
Fairness ==
    /\ \A s \in Session : WF_vars(Step(s)) /\ SF_vars(LockForCancel(s))
    /\ WF_vars(Sweep)
    /\ \A o \in Orders : WF_vars(Expire(o)) /\ WF_vars(Age(o))
    /\ \A o \in Orders : SF_vars(\E s \in Web : StartConfirm(s, o))

FairSpec == Spec /\ Fairness

-----------------------------------------------------------------------------
\* Nobody gets books for nothing: an order is PAID, or its payment SUCCESS,
\* only if the buyer completed the Stripe session of this very order, however
\* webhooks are repeated, delayed and raced by the sweep.
PaidOnlyIfCompleted ==
    \A o \in Orders : status[o] = "paid" \/ payment[o] = "success"
                        => checkout[o] = "completed"

\* While a buyer holds a URL at which they can still pay, their order is not
\* canceled (and its books sold to somebody else): the sweep waits for the
\* session to be over, BuyBooks cancels only what it never handed out.
NeverCanceledWhilePayable ==
    \A o \in Orders : status[o] = "canceled" => ~(offered[o] /\ checkout[o] = "open")

\* orders.status and payments.status are written by different code paths that
\* race each other, and still never tell contradictory stories about money: a
\* PENDING order has a PENDING payment, a PAID one a SUCCESS payment, a
\* CANCELED one a payment that was settled one way or the other.
StatusAgreesWithPayment ==
    \A o \in Orders :
        /\ status[o] = "pending" => payment[o] = "pending"
        /\ status[o] = "paid" => payment[o] = "success"
        /\ status[o] = "canceled" => payment[o] \in {"success", "failed"}

\* FOR UPDATE NOWAIT does its work for a /orders request: the COMMIT that
\* creates its order takes exactly the ordered quantities from what the stock
\* is at that moment, and never more than there is, whatever other purchases
\* and cancellations run meanwhile.
ReservationIsExact ==
    [][\A o \in Orders \ CartOrders :
          status[o] = "sent" /\ status'[o] = "pending" =>
              \A b \in Books : /\ stock[b] >= items[o][b]
                               /\ stock'[b] = stock[b] - items[o][b]]_vars

\* The same of a /orders/from-cart request.
CartReservationIsExact ==
    [][\A o \in CartOrders :
          status[o] = "sent" /\ status'[o] = "pending" =>
              \A b \in Books : /\ stock[b] >= items[o][b]
                               /\ stock'[b] = stock[b] - items[o][b]]_vars

\* cancel.py: only a PENDING order is canceled, a PAID or CANCELED one is not
\* touched, so that duplicated webhooks and the task may repeat a cancellation:
\* what the row holds at the commit, not what was read before, is PENDING.
CancelsOnlyPending ==
    [][\A o \in Orders : restocks'[o] > restocks[o] => status[o] = "pending"]_vars

\* No reservation is stuck: every PENDING order is settled, though webhooks
\* may be lost, processes die between the transactions of BuyBooks, and rows
\* be locked when the sweep wants them.
PendingIsSettled ==
    \A o \in Orders : status[o] = "pending" ~> status[o] # "pending"

\* A buyer who paid gets their payment recorded, however late or often the
\* completed webhook comes and whatever cancels the order in between.
CompletedIsRecorded ==
    \A o \in Orders : checkout[o] = "completed" ~> payment[o] = "success"
=============================================================================
