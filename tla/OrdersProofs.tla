---------------------------- MODULE OrdersProofs ----------------------------
(***************************************************************************)
(* Proofs about Orders for any sets of books, orders, users and sessions:  *)
(* the invariant IInv is inductive (one lemma per action, one step per     *)
(* conjunct), and the safety properties follow from it.  Sessions that do  *)
(* not overlap implement the ledger.                                       *)
(***************************************************************************)
EXTENDS OrdersInvariant, OrdersLedger, TLAPS, FiniteSetTheorems

\* What the end of CancelOrder.cancel does to the session, for a request and
\* for the sweep.
LEMMA ReturnEffect ==
    ASSUME NEW s \in Session, NEW map, Return(s, map)
    PROVE  \E label \in {"idle", "sweep"}, left \in {map, EmptyMap} :
              /\ pc' = [pc EXCEPT ![s] = label]
              /\ ord' = [ord EXCEPT ![s] = None]
              /\ seen' = [seen EXCEPT ![s] = "new"]
              /\ seenPay' = [seenPay EXCEPT ![s] = "none"]
              /\ copy' = [copy EXCEPT ![s] = left]
BY DEF Return, Close, Goto

\* A cancellation that gives up without writing preserves the invariant.
LEMMA GiveUpStep ==
    ASSUME IInv, NEW s \in Session, NEW map \in [Books -> Nat \cup {Absent}],
           pc[s] \in CancelPC, Return(s, map),
           UNCHANGED <<dbVars, stripeVars, todo, crashes>>
    PROVE  IInv'
<1> USE OrdersAssumption DEF IInv, dbVars, stripeVars
<1>0. PICK label \in {"idle", "sweep"}, left \in {map, EmptyMap} :
              /\ pc' = [pc EXCEPT ![s] = label]
              /\ ord' = [ord EXCEPT ![s] = None]
              /\ seen' = [seen EXCEPT ![s] = "new"]
              /\ seenPay' = [seenPay EXCEPT ![s] = "none"]
              /\ copy' = [copy EXCEPT ![s] = left]
    BY ReturnEffect
<1>l. left \in [Books -> Nat \cup {Absent}] BY DEF EmptyMap
<1>1. TypeOK'
    <2>1. copy' \in [Session -> [Books -> Nat \cup {Absent}]] BY <1>0, <1>l DEF TypeOK
    <2>2. QED BY <1>0, <2>1
            DEF TypeOK, Status, Payment, PC, OrderPC, BuyPC, ConfirmPC, CancelPC
<1>2. OrderInv' BY <1>0 DEF OrderInv, TypeOK, Settled, Placed, BuyPC
<1>3. PurchaseInv' BY <1>0 DEF PurchaseInv, TypeOK, Placed, OrderPC, BuyPC, ConfirmPC, CancelPC
<1>4. ConfirmInv' BY <1>0 DEF ConfirmInv, TypeOK, ConfirmPC
<1>5. CancelInv' BY <1>0 DEF CancelInv, TypeOK, Settled, Placed, BuyPC, CancelPC
<1>6. LockInv' BY <1>0 DEF LockInv, TypeOK, Ordered
<1>7. CopyInv' BY <1>0 DEF CopyInv, TypeOK, Ordered, BooksOf
<1>8. PaidOnlyIfCompleted' BY DEF PaidOnlyIfCompleted
<1>9. StatusAgreesWithPayment' BY DEF StatusAgreesWithPayment
<1>10. QED BY <1>1, <1>2, <1>3, <1>4, <1>5, <1>6, <1>7, <1>8, <1>9

LEMMA CancelBusyStep == ASSUME IInv, NEW s \in Session, CancelBusy(s) PROVE IInv'
<1>1. EmptyMap \in [Books -> Nat \cup {Absent}] BY DEF EmptyMap
<1>2. pc[s] \in CancelPC BY DEF CancelBusy, CancelPC
<1>3. QED BY <1>1, <1>2, GiveUpStep DEF CancelBusy

LEMMA LoadBooksStep == ASSUME IInv, NEW s \in Session, LoadBooks(s) PROVE IInv'
<1> USE OrdersAssumption DEF IInv, dbVars, stripeVars
<1>0. PICK map \in [Books -> Nat \cup {Absent}] :
        IF seen[s] = "pending"
        THEN /\ copy' = [copy EXCEPT ![s] = map]
             /\ pc' = [pc EXCEPT ![s] = "lockBooks"]
             /\ UNCHANGED <<ord, seen, seenPay>>
        ELSE Return(s, map)
    <2>1. PICK gone \in SUBSET {b \in Books : copy[s][b] # Absent} :
          LET map == Loaded([b \in Books |-> IF b \in gone THEN Absent
                                                          ELSE copy[s][b]],
                            Ordered(ord[s]))
          IN  IF seen[s] = "pending"
              THEN /\ copy' = [copy EXCEPT ![s] = map]
                   /\ Goto(s, "lockBooks")
                   /\ UNCHANGED <<ord, seen, seenPay>>
              ELSE Return(s, map)
        BY DEF LoadBooks
    <2> DEFINE map == Loaded([b \in Books |-> IF b \in gone THEN Absent
                                                            ELSE copy[s][b]],
                             Ordered(ord[s]))
    <2>2. map \in [Books -> Nat \cup {Absent}]
        BY DEF Loaded, TypeOK, Basket
    <2>3. QED BY <2>1, <2>2 DEF Goto
<1>p. pc[s] = "loadBooks" /\ UNCHANGED <<dbVars, stripeVars, todo, crashes>>
    BY DEF LoadBooks
<1>1. CASE seen[s] # "pending"
    <2>1. Return(s, map) BY <1>0, <1>1
    <2>2. pc[s] \in CancelPC BY <1>p DEF CancelPC
    <2>3. QED BY <1>p, <2>1, <2>2, GiveUpStep
<1>2. CASE seen[s] = "pending"
    <2>0. /\ copy' = [copy EXCEPT ![s] = map]
          /\ pc' = [pc EXCEPT ![s] = "lockBooks"]
          /\ UNCHANGED <<ord, seen, seenPay>>
        BY <1>0, <1>2
    <2>1. TypeOK' BY <2>0, <1>p DEF TypeOK, PC, OrderPC, BuyPC, ConfirmPC, CancelPC
    <2>2. OrderInv' BY <2>0, <1>p DEF OrderInv, TypeOK, Settled, Placed, BuyPC
    <2>3. PurchaseInv' BY <2>0, <1>p DEF PurchaseInv, TypeOK, Placed, OrderPC, BuyPC, ConfirmPC, CancelPC
    <2>4. ConfirmInv' BY <2>0, <1>p DEF ConfirmInv, TypeOK, ConfirmPC
    <2>5. CancelInv' BY <2>0, <1>p, <1>2 DEF CancelInv, TypeOK, Settled, Placed, BuyPC, CancelPC
    <2>6. LockInv' BY <2>0, <1>p DEF LockInv, TypeOK, Ordered
    <2>7. CopyInv' BY <2>0, <1>p DEF CopyInv, TypeOK, Ordered
    <2>8. PaidOnlyIfCompleted' BY <1>p DEF PaidOnlyIfCompleted
    <2>9. StatusAgreesWithPayment' BY <1>p DEF StatusAgreesWithPayment
    <2>10. QED BY <2>1, <2>2, <2>3, <2>4, <2>5, <2>6, <2>7, <2>8, <2>9
<1>3. QED BY <1>1, <1>2

LEMMA CommitCancelStep == ASSUME IInv, NEW s \in Session, CommitCancel(s) PROVE IInv'
<1> USE OrdersAssumption DEF IInv, stripeVars
<1> DEFINE o == ord[s]
           back == [b \in Books |-> IF b \in Ordered(o)
                                    THEN copy[s][b] + items[o][b]
                                    ELSE copy[s][b]]
<1>p. /\ pc[s] = "commitCancel"
      /\ stock' = [b \in Books |-> IF b \in Ordered(o) THEN back[b] ELSE stock[b]]
      /\ status' = [status EXCEPT ![o] = "canceled"]
      /\ restocks' = [restocks EXCEPT ![o] = @ + 1]
      /\ Return(s, back)
      /\ lock' = Unlocked(s)
      /\ UNCHANGED <<cart, items, stripeVars, todo, crashes>>
    BY DEF CommitCancel
<1>o. o \in Orders BY <1>p DEF TypeOK, OrderPC, CancelPC
<1>f. payment' = [payment EXCEPT ![o] = "failed"]
    BY <1>p DEF CommitCancel, CancelInv, CancelPC
<1>b. back \in [Books -> Nat \cup {Absent}]
    BY <1>p, <1>o DEF TypeOK, CopyInv, Basket
<1>n. \A b \in Ordered(o) : back[b] \in Nat
    BY <1>p, <1>o DEF TypeOK, CopyInv, Basket, Ordered, BooksOf
<1>s. status[o] # "sent" /\ status[o] # "new" /\ Placed(o) /\ Settled(o)
    BY <1>p, <1>o DEF CancelInv, CancelPC, Placed
<1> HIDE DEF o, back
<1>0. PICK label \in {"idle", "sweep"}, left \in {back, EmptyMap} :
              /\ pc' = [pc EXCEPT ![s] = label]
              /\ ord' = [ord EXCEPT ![s] = None]
              /\ seen' = [seen EXCEPT ![s] = "new"]
              /\ seenPay' = [seenPay EXCEPT ![s] = "none"]
              /\ copy' = [copy EXCEPT ![s] = left]
    BY <1>p, ReturnEffect
<1>l. left \in [Books -> Nat \cup {Absent}] BY <1>b DEF EmptyMap
<1>1. TypeOK'
    <2>1. stock' \in Basket BY <1>p, <1>n DEF TypeOK, Basket
    <2>2. lock' \in [Books -> Session \cup {None}] BY <1>p DEF TypeOK, Unlocked
    <2>3. copy' \in [Session -> [Books -> Nat \cup {Absent}]] BY <1>0, <1>l DEF TypeOK
    <2>4. QED BY <2>1, <2>2, <2>3, <1>0, <1>p, <1>f, <1>o
            DEF TypeOK, Status, Payment, PC, OrderPC, BuyPC, ConfirmPC, CancelPC
<1>2. OrderInv' BY <1>0, <1>p, <1>o, <1>s DEF OrderInv, TypeOK, Settled, Placed, BuyPC
<1>3. PurchaseInv'
    BY <1>0, <1>p, <1>o, <1>s DEF PurchaseInv, TypeOK, Placed, OrderPC, BuyPC, ConfirmPC, CancelPC
<1>4. ConfirmInv' BY <1>0, <1>p, <1>o DEF ConfirmInv, TypeOK, ConfirmPC
<1>5. CancelInv' BY <1>0, <1>p, <1>o DEF CancelInv, TypeOK, Settled, Placed, BuyPC, CancelPC
<1>6. LockInv' BY <1>0, <1>p DEF LockInv, TypeOK, Ordered, BooksOf, Unlocked
<1>7. CopyInv'
    <2> SUFFICES ASSUME NEW t \in Session, t # s, ord'[t] = ord[t],
                        pc'[t] = pc[t], copy'[t] = copy[t]
                 PROVE  /\ pc[t] = "reserve" /\ ord[t] \notin CartOrders => copy[t] = EmptyMap
                        /\ pc[t] \in {"commitReserve", "commitCancel"} =>
                              \A b \in Ordered(ord[t]) : copy[t][b] \in Nat
                        /\ pc[t] = "commitReserve" =>
                              \A b \in Ordered(ord[t]) : copy[t][b] >= items[ord[t]][b]
                        /\ pc[t] = "commitReserve" /\ ord[t] \notin CartOrders =>
                              \A b \in Ordered(ord[t]) : copy[t][b] = stock'[b]
        BY <1>0, <1>p DEF CopyInv, TypeOK, Ordered, BooksOf
    <2>1. ASSUME pc[t] = "commitReserve", NEW b \in Ordered(ord[t])
          PROVE  stock'[b] = stock[b]
        BY <2>1, <1>p DEF LockInv, Ordered, BooksOf, o
    <2>2. QED BY <2>1 DEF CopyInv
<1>8. PaidOnlyIfCompleted' BY <1>p, <1>f, <1>o DEF PaidOnlyIfCompleted, TypeOK
<1>9. StatusAgreesWithPayment' BY <1>p, <1>f, <1>o DEF StatusAgreesWithPayment, TypeOK
<1>10. QED BY <1>1, <1>2, <1>3, <1>4, <1>5, <1>6, <1>7, <1>8, <1>9

LEMMA StartPurchaseStep ==
    ASSUME IInv, NEW s \in Session, NEW o \in Orders, StartPurchase(s, o)
    PROVE  IInv'
<1> USE OrdersAssumption DEF IInv, stripeVars
<1> DEFINE basket == IF o \in CartOrders THEN cart[UserOf[o]] ELSE Request[o]
           allowed == Cardinality(BooksOf(basket)) \in 1..MaxItems
           map == IF o \in CartOrders THEN Loaded(EmptyMap, BooksOf(basket))
                                      ELSE EmptyMap
<1>p. /\ s \in Web /\ pc[s] = "idle" /\ status[o] = "new"
      /\ UNCHANGED <<stock, lock, cart, payment, restocks, stripeVars,
                     seen, seenPay, todo, crashes>>
    BY DEF StartPurchase, MayStart
<1>n. /\ \A t \in Session : pc[t] \in OrderPC => ord[t] # o
      /\ ~Placed(o) /\ checkout[o] = "none" /\ o \notin aged /\ ~offered[o]
    BY <1>p DEF PurchaseInv, OrderInv, Placed
<1>b. basket \in Basket BY DEF TypeOK, Basket
<1>m. map \in [Books -> Nat \cup {Absent}] /\ (o \notin CartOrders => map = EmptyMap)
    BY DEF TypeOK, Basket, Loaded, EmptyMap
<1>1. CASE ~allowed
    <2>0. status' = [status EXCEPT ![o] = "rejected"] /\ UNCHANGED <<items, pc, ord, copy>>
        BY <1>1 DEF StartPurchase
    <2> HIDE DEF basket, allowed, map
    <2>1. TypeOK' BY <2>0, <1>p DEF TypeOK, Status
    <2>2. OrderInv' BY <2>0, <1>p, <1>n DEF OrderInv, TypeOK, Settled, Placed
    <2>3. PurchaseInv' BY <2>0, <1>p, <1>n DEF PurchaseInv, TypeOK, Placed, OrderPC, BuyPC, ConfirmPC, CancelPC
    <2>4. ConfirmInv' BY <2>0, <1>p, <1>n DEF ConfirmInv, TypeOK, OrderPC, ConfirmPC
    <2>5. CancelInv' BY <2>0, <1>p, <1>n DEF CancelInv, TypeOK, Settled, Placed, OrderPC, CancelPC
    <2>6. LockInv' BY <2>0, <1>p DEF LockInv, Ordered
    <2>7. CopyInv' BY <2>0, <1>p DEF CopyInv, Ordered
    <2>8. PaidOnlyIfCompleted' BY <2>0, <1>p DEF PaidOnlyIfCompleted, TypeOK
    <2>9. StatusAgreesWithPayment' BY <2>0, <1>p DEF StatusAgreesWithPayment, TypeOK
    <2>10. QED BY <2>1, <2>2, <2>3, <2>4, <2>5, <2>6, <2>7, <2>8, <2>9
<1>2. CASE allowed
    <2>0. /\ items' = [items EXCEPT ![o] = basket]
          /\ status' = [status EXCEPT ![o] = "sent"]
          /\ pc' = [pc EXCEPT ![s] = "reserve"]
          /\ ord' = [ord EXCEPT ![s] = o]
          /\ copy' = [copy EXCEPT ![s] = map]
        BY <1>2 DEF StartPurchase, Goto
    <2> HIDE DEF basket, allowed, map
    <2>1. TypeOK' BY <2>0, <1>p, <1>b, <1>m DEF TypeOK, Status, PC, OrderPC, BuyPC
    <2>2. OrderInv' BY <2>0, <1>p, <1>n DEF OrderInv, TypeOK, Settled, Placed, BuyPC
    <2>3. PurchaseInv'
        BY <2>0, <1>p, <1>n DEF PurchaseInv, TypeOK, Placed, OrderPC, BuyPC, ConfirmPC, CancelPC
    <2>4. ConfirmInv' BY <2>0, <1>p, <1>n DEF ConfirmInv, TypeOK, OrderPC, ConfirmPC
    <2>5. CancelInv'
        BY <2>0, <1>p, <1>n DEF CancelInv, TypeOK, Settled, Placed, OrderPC, BuyPC, CancelPC
    <2>6. LockInv' BY <2>0, <1>p, <1>n DEF LockInv, TypeOK, Ordered, OrderPC, BuyPC, CancelPC
    <2>7. CopyInv' BY <2>0, <1>p, <1>n, <1>m DEF CopyInv, TypeOK, Ordered, OrderPC, BuyPC, CancelPC
    <2>8. PaidOnlyIfCompleted' BY <2>0, <1>p DEF PaidOnlyIfCompleted, TypeOK
    <2>9. StatusAgreesWithPayment' BY <2>0, <1>p DEF StatusAgreesWithPayment, TypeOK
    <2>10. QED BY <2>1, <2>2, <2>3, <2>4, <2>5, <2>6, <2>7, <2>8, <2>9
<1>3. QED BY <1>1, <1>2

\* Taking the row locks and reading the locked books.
LEMMA LockForReserveStep ==
    ASSUME IInv, NEW s \in Session, LockForReserve(s)
    PROVE  IInv'
<1> USE OrdersAssumption DEF IInv, LockForReserve, LockBooks, Loaded, Goto, dbVars,
        stripeVars, sessionVars, Session
<1>1. TypeOK'
    BY DEF TypeOK, Basket, Status, Payment, Checkout, PC, OrderPC, BuyPC, ConfirmPC,
           CancelPC
<1>2. OrderInv'
    BY DEF OrderInv, TypeOK, Settled, Placed, PurchaseInv, CancelInv, BuyPC, ConfirmPC,
           CancelPC, OrderPC
<1>3. PurchaseInv'
    BY DEF PurchaseInv, TypeOK, Placed, OrderPC, BuyPC, ConfirmPC, CancelPC
<1>4. ConfirmInv' BY DEF ConfirmInv, TypeOK, ConfirmPC
<1>5. CancelInv'
    BY DEF CancelInv, TypeOK, Settled, Placed, CancelPC, PurchaseInv, OrderInv, BuyPC,
           ConfirmPC, OrderPC, StatusAgreesWithPayment
<1>6. LockInv'
    BY DEF LockInv, TypeOK, Ordered, PurchaseInv, OrderPC, BuyPC, ConfirmPC, CancelPC,
           BooksOf
<1>7. CopyInv'
    BY DEF CopyInv, TypeOK, Ordered, PurchaseInv, LockInv, OrderPC, BuyPC, ConfirmPC,
           CancelPC, BooksOf, EmptyMap, Basket
<1>8. PaidOnlyIfCompleted' BY DEF PaidOnlyIfCompleted, TypeOK
<1>9. StatusAgreesWithPayment' BY DEF StatusAgreesWithPayment, TypeOK
<1>10. QED BY <1>1, <1>2, <1>3, <1>4, <1>5, <1>6, <1>7, <1>8, <1>9

LEMMA RejectPurchaseStep ==
    ASSUME IInv, NEW s \in Session, RejectPurchase(s)
    PROVE  IInv'
<1> USE OrdersAssumption DEF IInv, RejectPurchase, Close, Goto, dbVars, stripeVars,
        sessionVars, Session
<1>1. TypeOK'
    BY DEF TypeOK, Basket, Status, Payment, Checkout, PC, OrderPC, BuyPC, ConfirmPC,
           CancelPC, CopyInv, Ordered, BooksOf, EmptyMap
<1>2. OrderInv'
    BY DEF OrderInv, TypeOK, Settled, Placed, PurchaseInv, CancelInv, BuyPC, ConfirmPC,
           CancelPC, OrderPC
<1>3. PurchaseInv'
    BY DEF PurchaseInv, TypeOK, Placed, OrderPC, BuyPC, ConfirmPC, CancelPC
<1>4. ConfirmInv'
    BY DEF ConfirmInv, TypeOK, ConfirmPC, PurchaseInv, OrderInv, PaidOnlyIfCompleted,
           BuyPC, OrderPC, CancelPC, Placed
<1>5. CancelInv'
    BY DEF CancelInv, TypeOK, Settled, Placed, CancelPC, PurchaseInv, OrderInv, BuyPC,
           ConfirmPC, OrderPC, StatusAgreesWithPayment
<1>6. LockInv' BY DEF LockInv, TypeOK, Ordered
<1>7. CopyInv' BY DEF CopyInv, TypeOK, Ordered
<1>8. PaidOnlyIfCompleted' BY DEF PaidOnlyIfCompleted, TypeOK
<1>9. StatusAgreesWithPayment' BY DEF StatusAgreesWithPayment, TypeOK
<1>10. QED BY <1>1, <1>2, <1>3, <1>4, <1>5, <1>6, <1>7, <1>8, <1>9

\* The commit writes what was read under the lock; who else writes a book holds
\* another lock.
LEMMA CommitReserveStep ==
    ASSUME IInv, NEW s \in Session, CommitReserve(s)
    PROVE  IInv'
<1> USE OrdersAssumption DEF IInv, CommitReserve, Unlocked, Goto, dbVars, stripeVars,
        sessionVars, Session
<1>1. TypeOK'
    BY DEF TypeOK, Basket, Status, Payment, Checkout, PC, OrderPC, BuyPC, ConfirmPC,
           CancelPC, CopyInv, Ordered, BooksOf, EmptyMap
<1>2. OrderInv'
    BY DEF OrderInv, TypeOK, Settled, Placed, PurchaseInv, CancelInv, BuyPC, ConfirmPC,
           CancelPC, OrderPC
<1>3. PurchaseInv'
    BY DEF PurchaseInv, TypeOK, Placed, OrderPC, BuyPC, ConfirmPC, CancelPC
<1>4. ConfirmInv'
    BY DEF ConfirmInv, TypeOK, ConfirmPC, PurchaseInv, OrderInv, PaidOnlyIfCompleted,
           BuyPC, OrderPC, CancelPC, Placed
<1>5. CancelInv'
    BY DEF CancelInv, TypeOK, Settled, Placed, CancelPC, PurchaseInv, OrderInv, BuyPC,
           ConfirmPC, OrderPC, StatusAgreesWithPayment
<1>6. LockInv'
    BY DEF LockInv, TypeOK, Ordered, PurchaseInv, OrderPC, BuyPC, ConfirmPC, CancelPC,
           BooksOf
<1>7. CopyInv'
    BY DEF CopyInv, TypeOK, Ordered, PurchaseInv, LockInv, OrderPC, BuyPC, ConfirmPC,
           CancelPC, BooksOf, EmptyMap, Basket
<1>8. PaidOnlyIfCompleted' BY DEF PaidOnlyIfCompleted, TypeOK
<1>9. StatusAgreesWithPayment' BY DEF StatusAgreesWithPayment, TypeOK
<1>10. QED BY <1>1, <1>2, <1>3, <1>4, <1>5, <1>6, <1>7, <1>8, <1>9

LEMMA CheckoutCreatedStep ==
    ASSUME IInv, NEW s \in Session, CheckoutCreated(s)
    PROVE  IInv'
<1> USE OrdersAssumption DEF IInv, CheckoutCreated, Goto, dbVars, stripeVars,
        sessionVars, Session
<1>1. TypeOK'
    BY DEF TypeOK, Basket, Status, Payment, Checkout, PC, OrderPC, BuyPC, ConfirmPC,
           CancelPC
<1>2. OrderInv'
    BY DEF OrderInv, TypeOK, Settled, Placed, PurchaseInv, CancelInv, BuyPC, ConfirmPC,
           CancelPC, OrderPC
<1>3. PurchaseInv'
    BY DEF PurchaseInv, TypeOK, Placed, OrderPC, BuyPC, ConfirmPC, CancelPC
<1>4. ConfirmInv'
    BY DEF ConfirmInv, TypeOK, ConfirmPC, PurchaseInv, OrderInv, PaidOnlyIfCompleted,
           BuyPC, OrderPC, CancelPC, Placed
<1>5. CancelInv'
    BY DEF CancelInv, TypeOK, Settled, Placed, CancelPC, PurchaseInv, OrderInv, BuyPC,
           ConfirmPC, OrderPC, StatusAgreesWithPayment
<1>6. LockInv' BY DEF LockInv, TypeOK, Ordered
<1>7. CopyInv' BY DEF CopyInv, TypeOK, Ordered
<1>8. PaidOnlyIfCompleted'
    BY DEF PaidOnlyIfCompleted, TypeOK, PurchaseInv, ConfirmInv, OrderInv, Placed,
           BuyPC, ConfirmPC, CancelPC, OrderPC
<1>9. StatusAgreesWithPayment' BY DEF StatusAgreesWithPayment, TypeOK
<1>10. QED BY <1>1, <1>2, <1>3, <1>4, <1>5, <1>6, <1>7, <1>8, <1>9

LEMMA CheckoutFailedStep ==
    ASSUME IInv, NEW s \in Session, CheckoutFailed(s)
    PROVE  IInv'
<1> USE OrdersAssumption DEF IInv, CheckoutFailed, Goto, dbVars, stripeVars,
        sessionVars, Session
<1>1. TypeOK'
    BY DEF TypeOK, Basket, Status, Payment, Checkout, PC, OrderPC, BuyPC, ConfirmPC,
           CancelPC
<1>2. OrderInv'
    BY DEF OrderInv, TypeOK, Settled, Placed, PurchaseInv, CancelInv, BuyPC, ConfirmPC,
           CancelPC, OrderPC
<1>3. PurchaseInv'
    BY DEF PurchaseInv, TypeOK, Placed, OrderPC, BuyPC, ConfirmPC, CancelPC
<1>4. ConfirmInv'
    BY DEF ConfirmInv, TypeOK, ConfirmPC, PurchaseInv, OrderInv, PaidOnlyIfCompleted,
           BuyPC, OrderPC, CancelPC, Placed
<1>5. CancelInv'
    BY DEF CancelInv, TypeOK, Settled, Placed, CancelPC, PurchaseInv, OrderInv, BuyPC,
           ConfirmPC, OrderPC, StatusAgreesWithPayment
<1>6. LockInv' BY DEF LockInv, TypeOK, Ordered
<1>7. CopyInv' BY DEF CopyInv, TypeOK, Ordered
<1>8. PaidOnlyIfCompleted'
    BY DEF PaidOnlyIfCompleted, TypeOK, PurchaseInv, ConfirmInv, OrderInv, Placed,
           BuyPC, ConfirmPC, CancelPC, OrderPC
<1>9. StatusAgreesWithPayment' BY DEF StatusAgreesWithPayment, TypeOK
<1>10. QED BY <1>1, <1>2, <1>3, <1>4, <1>5, <1>6, <1>7, <1>8, <1>9

LEMMA SaveCheckoutStep ==
    ASSUME IInv, NEW s \in Session, SaveCheckout(s)
    PROVE  IInv'
<1> USE OrdersAssumption DEF IInv, SaveCheckout, Close, Goto, dbVars, stripeVars,
        sessionVars, Session
<1>1. TypeOK'
    BY DEF TypeOK, Basket, Status, Payment, Checkout, PC, OrderPC, BuyPC, ConfirmPC,
           CancelPC, CopyInv, Ordered, BooksOf, EmptyMap
<1>2. OrderInv'
    BY DEF OrderInv, TypeOK, Settled, Placed, PurchaseInv, CancelInv, BuyPC, ConfirmPC,
           CancelPC, OrderPC
<1>3. PurchaseInv'
    BY DEF PurchaseInv, TypeOK, Placed, OrderPC, BuyPC, ConfirmPC, CancelPC
<1>4. ConfirmInv' BY DEF ConfirmInv, TypeOK, ConfirmPC
<1>5. CancelInv'
    BY DEF CancelInv, TypeOK, Settled, Placed, CancelPC, PurchaseInv, OrderInv, BuyPC,
           ConfirmPC, OrderPC, StatusAgreesWithPayment
<1>6. LockInv' BY DEF LockInv, TypeOK, Ordered
<1>7. CopyInv' BY DEF CopyInv, TypeOK, Ordered
<1>8. PaidOnlyIfCompleted' BY DEF PaidOnlyIfCompleted, TypeOK
<1>9. StatusAgreesWithPayment' BY DEF StatusAgreesWithPayment, TypeOK
<1>10. QED BY <1>1, <1>2, <1>3, <1>4, <1>5, <1>6, <1>7, <1>8, <1>9

LEMMA ReadOrderToConfirmStep ==
    ASSUME IInv, NEW s \in Session, ReadOrderToConfirm(s)
    PROVE  IInv'
<1> USE OrdersAssumption DEF IInv, ReadOrderToConfirm, Goto, dbVars, stripeVars,
        sessionVars, Session
<1>1. TypeOK'
    BY DEF TypeOK, Basket, Status, Payment, Checkout, PC, OrderPC, BuyPC, ConfirmPC,
           CancelPC
<1>2. OrderInv'
    BY DEF OrderInv, TypeOK, Settled, Placed, PurchaseInv, CancelInv, BuyPC, ConfirmPC,
           CancelPC, OrderPC
<1>3. PurchaseInv'
    BY DEF PurchaseInv, TypeOK, Placed, OrderPC, BuyPC, ConfirmPC, CancelPC
<1>4. ConfirmInv' BY DEF ConfirmInv, TypeOK, ConfirmPC
<1>5. CancelInv'
    BY DEF CancelInv, TypeOK, Settled, Placed, CancelPC, PurchaseInv, OrderInv, BuyPC,
           ConfirmPC, OrderPC, StatusAgreesWithPayment
<1>6. LockInv' BY DEF LockInv, TypeOK, Ordered
<1>7. CopyInv' BY DEF CopyInv, TypeOK, Ordered
<1>8. PaidOnlyIfCompleted' BY DEF PaidOnlyIfCompleted, TypeOK
<1>9. StatusAgreesWithPayment' BY DEF StatusAgreesWithPayment, TypeOK
<1>10. QED BY <1>1, <1>2, <1>3, <1>4, <1>5, <1>6, <1>7, <1>8, <1>9

LEMMA CommitConfirmStep ==
    ASSUME IInv, NEW s \in Session, CommitConfirm(s)
    PROVE  IInv'
<1> USE OrdersAssumption DEF IInv, CommitConfirm, Close, Goto, dbVars, stripeVars,
        sessionVars, Session
<1>1. TypeOK'
    <2>0. ord[s] \in Orders BY DEF TypeOK, OrderPC, ConfirmPC
    <2>1. cart' \in [Users -> Basket]
        <3> DEFINE rest == [b \in Books |-> IF b \in Ordered(ord[s]) THEN 0
                                            ELSE cart[UserOf[ord[s]]][b]]
        <3>1. UserOf[ord[s]] \in Users BY <2>0
        <3>2. rest \in Basket BY <3>1 DEF TypeOK, Basket
        <3>3. cart' = [cart EXCEPT ![UserOf[ord[s]]] = rest] OBVIOUS
        <3>4. QED BY <3>2, <3>3 DEF TypeOK
    <2>2. QED BY <2>0, <2>1
            DEF TypeOK, Status, Payment, PC, OrderPC, BuyPC, ConfirmPC, CancelPC, EmptyMap
<1>2. OrderInv' BY DEF OrderInv, TypeOK, Settled, Placed
<1>3. PurchaseInv'
    BY DEF PurchaseInv, TypeOK, Placed, OrderPC, BuyPC, ConfirmPC, CancelPC, OrderInv,
           ConfirmInv, CancelInv
<1>4. ConfirmInv' BY DEF ConfirmInv, TypeOK, ConfirmPC
<1>5. CancelInv'
    BY DEF CancelInv, TypeOK, Settled, Placed, CancelPC, PurchaseInv, OrderInv, BuyPC,
           ConfirmPC, OrderPC, StatusAgreesWithPayment
<1>6. LockInv' BY DEF LockInv, TypeOK, Ordered
<1>7. CopyInv' BY DEF CopyInv, TypeOK, Ordered
<1>8. PaidOnlyIfCompleted'
    BY DEF PaidOnlyIfCompleted, TypeOK, PurchaseInv, ConfirmInv, OrderInv, Placed,
           BuyPC, ConfirmPC, CancelPC, OrderPC
<1>9. StatusAgreesWithPayment'
    BY DEF StatusAgreesWithPayment, TypeOK, ConfirmInv, CancelInv, PurchaseInv, OrderPC,
           BuyPC, ConfirmPC, CancelPC
<1>10. QED BY <1>1, <1>2, <1>3, <1>4, <1>5, <1>6, <1>7, <1>8, <1>9

LEMMA LockForCancelStep ==
    ASSUME IInv, NEW s \in Session, LockForCancel(s)
    PROVE  IInv'
<1> USE OrdersAssumption DEF IInv, LockForCancel, LockBooks, Loaded, Goto, dbVars,
        stripeVars, sessionVars, Session
<1>1. TypeOK'
    BY DEF TypeOK, Basket, Status, Payment, Checkout, PC, OrderPC, BuyPC, ConfirmPC,
           CancelPC
<1>2. OrderInv'
    BY DEF OrderInv, TypeOK, Settled, Placed, PurchaseInv, CancelInv, BuyPC, ConfirmPC,
           CancelPC, OrderPC
<1>3. PurchaseInv'
    BY DEF PurchaseInv, TypeOK, Placed, OrderPC, BuyPC, ConfirmPC, CancelPC
<1>4. ConfirmInv' BY DEF ConfirmInv, TypeOK, ConfirmPC
<1>5. CancelInv'
    BY DEF CancelInv, TypeOK, Settled, Placed, CancelPC, PurchaseInv, OrderInv, BuyPC,
           ConfirmPC, OrderPC, StatusAgreesWithPayment
<1>6. LockInv'
    BY DEF LockInv, TypeOK, Ordered, PurchaseInv, OrderPC, BuyPC, ConfirmPC, CancelPC,
           BooksOf
<1>7. CopyInv'
    BY DEF CopyInv, TypeOK, Ordered, PurchaseInv, LockInv, OrderPC, BuyPC, ConfirmPC,
           CancelPC, BooksOf, EmptyMap, Basket
<1>8. PaidOnlyIfCompleted' BY DEF PaidOnlyIfCompleted, TypeOK
<1>9. StatusAgreesWithPayment' BY DEF StatusAgreesWithPayment, TypeOK
<1>10. QED BY <1>1, <1>2, <1>3, <1>4, <1>5, <1>6, <1>7, <1>8, <1>9

LEMMA CrashStep ==
    ASSUME IInv, NEW s \in Session, Crash(s)
    PROVE  IInv'
<1> USE OrdersAssumption DEF IInv, Crash, Close, Goto, Unlocked, dbVars, stripeVars,
        sessionVars, Session
<1>1. TypeOK'
    BY DEF TypeOK, Basket, Status, Payment, Checkout, PC, OrderPC, BuyPC, ConfirmPC,
           CancelPC, CopyInv, Ordered, BooksOf, EmptyMap
<1>2. OrderInv' BY DEF OrderInv, TypeOK, Settled, Placed
<1>3. PurchaseInv'
    BY DEF PurchaseInv, TypeOK, Placed, OrderPC, BuyPC, ConfirmPC, CancelPC, OrderInv,
           ConfirmInv, CancelInv
<1>4. ConfirmInv'
    BY DEF ConfirmInv, TypeOK, ConfirmPC, PurchaseInv, OrderInv, PaidOnlyIfCompleted,
           BuyPC, OrderPC, CancelPC, Placed
<1>5. CancelInv'
    BY DEF CancelInv, TypeOK, Settled, Placed, CancelPC, PurchaseInv, OrderInv, BuyPC,
           ConfirmPC, OrderPC, StatusAgreesWithPayment
<1>6. LockInv'
    BY DEF LockInv, TypeOK, Ordered, PurchaseInv, OrderPC, BuyPC, ConfirmPC, CancelPC,
           BooksOf
<1>7. CopyInv' BY DEF CopyInv, TypeOK, Ordered
<1>8. PaidOnlyIfCompleted' BY DEF PaidOnlyIfCompleted, TypeOK
<1>9. StatusAgreesWithPayment' BY DEF StatusAgreesWithPayment, TypeOK
<1>10. QED BY <1>1, <1>2, <1>3, <1>4, <1>5, <1>6, <1>7, <1>8, <1>9

LEMMA StartConfirmStep ==
    ASSUME IInv, NEW s \in Session, NEW o \in Orders, StartConfirm(s, o)
    PROVE  IInv'
<1> USE OrdersAssumption DEF IInv, StartConfirm, MayStart, Goto, dbVars, stripeVars,
        sessionVars, Session
<1>1. TypeOK'
    BY DEF TypeOK, Basket, Status, Payment, Checkout, PC, OrderPC, BuyPC, ConfirmPC,
           CancelPC
<1>2. OrderInv' BY DEF OrderInv, TypeOK, Settled, Placed
<1>3. PurchaseInv'
    BY DEF PurchaseInv, TypeOK, Placed, OrderPC, BuyPC, ConfirmPC, CancelPC, OrderInv,
           ConfirmInv, CancelInv
<1>4. ConfirmInv' BY DEF ConfirmInv, TypeOK, ConfirmPC
<1>5. CancelInv' BY DEF CancelInv, TypeOK, Settled, Placed, CancelPC
<1>6. LockInv' BY DEF LockInv, TypeOK, Ordered
<1>7. CopyInv' BY DEF CopyInv, TypeOK, Ordered
<1>8. PaidOnlyIfCompleted' BY DEF PaidOnlyIfCompleted, TypeOK
<1>9. StatusAgreesWithPayment' BY DEF StatusAgreesWithPayment, TypeOK
<1>10. QED BY <1>1, <1>2, <1>3, <1>4, <1>5, <1>6, <1>7, <1>8, <1>9

LEMMA StartExpiredStep ==
    ASSUME IInv, NEW s \in Session, NEW o \in Orders, StartExpired(s, o)
    PROVE  IInv'
<1> USE OrdersAssumption DEF IInv, StartExpired, MayStart, ReadOrderToCancel, Goto,
        dbVars, stripeVars, sessionVars, Session
<1>1. TypeOK'
    BY DEF TypeOK, Basket, Status, Payment, Checkout, PC, OrderPC, BuyPC, ConfirmPC,
           CancelPC
<1>2. OrderInv' BY DEF OrderInv, TypeOK, Settled, Placed
<1>3. PurchaseInv'
    BY DEF PurchaseInv, TypeOK, Placed, OrderPC, BuyPC, ConfirmPC, CancelPC, OrderInv,
           ConfirmInv, CancelInv
<1>4. ConfirmInv' BY DEF ConfirmInv, TypeOK, ConfirmPC
<1>5. CancelInv'
    BY DEF CancelInv, TypeOK, Settled, Placed, CancelPC, PurchaseInv, OrderInv, BuyPC,
           ConfirmPC, OrderPC, StatusAgreesWithPayment
<1>6. LockInv' BY DEF LockInv, TypeOK, Ordered
<1>7. CopyInv' BY DEF CopyInv, TypeOK, Ordered
<1>8. PaidOnlyIfCompleted' BY DEF PaidOnlyIfCompleted, TypeOK
<1>9. StatusAgreesWithPayment' BY DEF StatusAgreesWithPayment, TypeOK
<1>10. QED BY <1>1, <1>2, <1>3, <1>4, <1>5, <1>6, <1>7, <1>8, <1>9

LEMMA StartSweepStep ==
    ASSUME IInv, StartSweep
    PROVE  IInv'
<1> USE OrdersAssumption DEF IInv, StartSweep, MayStart, Goto, dbVars, stripeVars,
        sessionVars, Session
<1>1. TypeOK'
    BY DEF TypeOK, Basket, Status, Payment, Checkout, PC, OrderPC, BuyPC, ConfirmPC,
           CancelPC
<1>2. OrderInv'
    BY DEF OrderInv, TypeOK, Settled, Placed, PurchaseInv, CancelInv, BuyPC, ConfirmPC,
           CancelPC, OrderPC
<1>3. PurchaseInv'
    BY DEF PurchaseInv, TypeOK, Placed, OrderPC, BuyPC, ConfirmPC, CancelPC
<1>4. ConfirmInv' BY DEF ConfirmInv, TypeOK, ConfirmPC
<1>5. CancelInv'
    BY DEF CancelInv, TypeOK, Settled, Placed, CancelPC, PurchaseInv, OrderInv, BuyPC,
           ConfirmPC, OrderPC, StatusAgreesWithPayment
<1>6. LockInv' BY DEF LockInv, TypeOK, Ordered
<1>7. CopyInv' BY DEF CopyInv, TypeOK, Ordered
<1>8. PaidOnlyIfCompleted' BY DEF PaidOnlyIfCompleted, TypeOK
<1>9. StatusAgreesWithPayment' BY DEF StatusAgreesWithPayment, TypeOK
<1>10. QED BY <1>1, <1>2, <1>3, <1>4, <1>5, <1>6, <1>7, <1>8, <1>9

LEMMA SweepOrderStep ==
    ASSUME IInv, NEW o \in Orders, SweepOrder(o)
    PROVE  IInv'
<1> USE OrdersAssumption DEF IInv, SweepOrder, ReadOrderToCancel, Goto, dbVars,
        stripeVars, sessionVars, Session
<1>1. TypeOK'
    BY DEF TypeOK, Basket, Status, Payment, Checkout, PC, OrderPC, BuyPC, ConfirmPC,
           CancelPC
<1>2. OrderInv'
    BY DEF OrderInv, TypeOK, Settled, Placed, PurchaseInv, CancelInv, BuyPC, ConfirmPC,
           CancelPC, OrderPC
<1>3. PurchaseInv'
    BY DEF PurchaseInv, TypeOK, Placed, OrderPC, BuyPC, ConfirmPC, CancelPC, OrderInv,
           ConfirmInv, CancelInv
<1>4. ConfirmInv' BY DEF ConfirmInv, TypeOK, ConfirmPC
<1>5. CancelInv'
    BY DEF CancelInv, TypeOK, Settled, Placed, CancelPC, PurchaseInv, OrderInv, BuyPC,
           ConfirmPC, OrderPC, StatusAgreesWithPayment
<1>6. LockInv' BY DEF LockInv, TypeOK, Ordered
<1>7. CopyInv' BY DEF CopyInv, TypeOK, Ordered
<1>8. PaidOnlyIfCompleted' BY DEF PaidOnlyIfCompleted, TypeOK
<1>9. StatusAgreesWithPayment' BY DEF StatusAgreesWithPayment, TypeOK
<1>10. QED BY <1>1, <1>2, <1>3, <1>4, <1>5, <1>6, <1>7, <1>8, <1>9

LEMMA EndSweepStep ==
    ASSUME IInv, EndSweep
    PROVE  IInv'
<1> USE OrdersAssumption DEF IInv, EndSweep, Close, Goto, dbVars, stripeVars,
        sessionVars, Session
<1>1. TypeOK'
    BY DEF TypeOK, Basket, Status, Payment, Checkout, PC, OrderPC, BuyPC, ConfirmPC,
           CancelPC, CopyInv, Ordered, BooksOf, EmptyMap
<1>2. OrderInv' BY DEF OrderInv, TypeOK, Settled, Placed
<1>3. PurchaseInv'
    BY DEF PurchaseInv, TypeOK, Placed, OrderPC, BuyPC, ConfirmPC, CancelPC
<1>4. ConfirmInv' BY DEF ConfirmInv, TypeOK, ConfirmPC
<1>5. CancelInv'
    BY DEF CancelInv, TypeOK, Settled, Placed, CancelPC, PurchaseInv, OrderInv, BuyPC,
           ConfirmPC, OrderPC, StatusAgreesWithPayment
<1>6. LockInv' BY DEF LockInv, TypeOK, Ordered
<1>7. CopyInv' BY DEF CopyInv, TypeOK, Ordered
<1>8. PaidOnlyIfCompleted' BY DEF PaidOnlyIfCompleted, TypeOK
<1>9. StatusAgreesWithPayment' BY DEF StatusAgreesWithPayment, TypeOK
<1>10. QED BY <1>1, <1>2, <1>3, <1>4, <1>5, <1>6, <1>7, <1>8, <1>9

LEMMA PayStep ==
    ASSUME IInv, NEW o \in Orders, Pay(o)
    PROVE  IInv'
<1> USE OrdersAssumption DEF IInv, Pay, dbVars, stripeVars, sessionVars, Session
<1>1. TypeOK'
    BY DEF TypeOK, Basket, Status, Payment, Checkout, PC, OrderPC, BuyPC, ConfirmPC,
           CancelPC
<1>2. OrderInv' BY DEF OrderInv, TypeOK, Settled, Placed
<1>3. PurchaseInv'
    BY DEF PurchaseInv, TypeOK, Placed, OrderPC, BuyPC, ConfirmPC, CancelPC
<1>4. ConfirmInv' BY DEF ConfirmInv, TypeOK, ConfirmPC
<1>5. CancelInv' BY DEF CancelInv, TypeOK, Settled, Placed, CancelPC
<1>6. LockInv' BY DEF LockInv, TypeOK, Ordered
<1>7. CopyInv' BY DEF CopyInv, TypeOK, Ordered
<1>8. PaidOnlyIfCompleted' BY DEF PaidOnlyIfCompleted, TypeOK
<1>9. StatusAgreesWithPayment' BY DEF StatusAgreesWithPayment, TypeOK
<1>10. QED BY <1>1, <1>2, <1>3, <1>4, <1>5, <1>6, <1>7, <1>8, <1>9

LEMMA ExpireStep ==
    ASSUME IInv, NEW o \in Orders, Expire(o)
    PROVE  IInv'
<1> USE OrdersAssumption DEF IInv, Expire, dbVars, stripeVars, sessionVars, Session
<1>1. TypeOK'
    BY DEF TypeOK, Basket, Status, Payment, Checkout, PC, OrderPC, BuyPC, ConfirmPC,
           CancelPC
<1>2. OrderInv' BY DEF OrderInv, TypeOK, Settled, Placed
<1>3. PurchaseInv'
    BY DEF PurchaseInv, TypeOK, Placed, OrderPC, BuyPC, ConfirmPC, CancelPC
<1>4. ConfirmInv' BY DEF ConfirmInv, TypeOK, ConfirmPC
<1>5. CancelInv' BY DEF CancelInv, TypeOK, Settled, Placed, CancelPC
<1>6. LockInv' BY DEF LockInv, TypeOK, Ordered
<1>7. CopyInv' BY DEF CopyInv, TypeOK, Ordered
<1>8. PaidOnlyIfCompleted' BY DEF PaidOnlyIfCompleted, TypeOK
<1>9. StatusAgreesWithPayment' BY DEF StatusAgreesWithPayment, TypeOK
<1>10. QED BY <1>1, <1>2, <1>3, <1>4, <1>5, <1>6, <1>7, <1>8, <1>9

\* An aged order has no request left that could offer its URL.
LEMMA AgeStep ==
    ASSUME IInv, NEW o \in Orders, Age(o)
    PROVE  IInv'
<1> USE OrdersAssumption DEF IInv, Age, dbVars, stripeVars, sessionVars, Session
<1>1. TypeOK'
    BY DEF TypeOK, Basket, Status, Payment, Checkout, PC, OrderPC, BuyPC, ConfirmPC,
           CancelPC
<1>2. OrderInv' BY DEF OrderInv, TypeOK, Settled, Placed
<1>3. PurchaseInv'
    BY DEF PurchaseInv, TypeOK, Placed, OrderPC, BuyPC, ConfirmPC, CancelPC
<1>4. ConfirmInv' BY DEF ConfirmInv, TypeOK, ConfirmPC
<1>5. CancelInv' BY DEF CancelInv, TypeOK, Settled, Placed, CancelPC
<1>6. LockInv' BY DEF LockInv, TypeOK, Ordered
<1>7. CopyInv' BY DEF CopyInv, TypeOK, Ordered
<1>8. PaidOnlyIfCompleted' BY DEF PaidOnlyIfCompleted, TypeOK
<1>9. StatusAgreesWithPayment' BY DEF StatusAgreesWithPayment, TypeOK
<1>10. QED BY <1>1, <1>2, <1>3, <1>4, <1>5, <1>6, <1>7, <1>8, <1>9

-----------------------------------------------------------------------------
LEMMA InitInv == Init => IInv
<1> SUFFICES ASSUME Init PROVE IInv
    OBVIOUS
<1> USE OrdersAssumption DEF Init
<1>1. TypeOK
    BY DEF TypeOK, Basket, NoItems, EmptyMap, Status, Payment, Checkout, PC, OrderPC,
           BuyPC, ConfirmPC, CancelPC
<1>2. OrderInv BY DEF OrderInv, Placed, Settled
<1>3. PurchaseInv BY DEF PurchaseInv, OrderPC, BuyPC, ConfirmPC, CancelPC
<1>4. ConfirmInv BY DEF ConfirmInv, ConfirmPC
<1>5. CancelInv BY DEF CancelInv, CancelPC
<1>6. LockInv BY DEF LockInv
<1>7. CopyInv BY DEF CopyInv
<1>8. PaidOnlyIfCompleted BY DEF PaidOnlyIfCompleted
<1>9. StatusAgreesWithPayment BY DEF StatusAgreesWithPayment
<1>10. QED BY <1>1, <1>2, <1>3, <1>4, <1>5, <1>6, <1>7, <1>8, <1>9 DEF IInv

LEMMA NextInv == IInv /\ [Next]_vars => IInv'
<1> SUFFICES ASSUME IInv, [Next]_vars PROVE IInv'
    OBVIOUS
<1>1. ASSUME NEW s \in Session, Step(s) PROVE IInv'
    BY <1>1, LockForReserveStep, RejectPurchaseStep, CommitReserveStep,
       CheckoutCreatedStep, CheckoutFailedStep, SaveCheckoutStep,
       ReadOrderToConfirmStep, CommitConfirmStep, LoadBooksStep,
       LockForCancelStep, CancelBusyStep, CommitCancelStep DEF Step
<1>2. ASSUME NEW s \in Session, Crash(s) PROVE IInv'
    BY <1>2, CrashStep
<1>3. ASSUME NEW s \in Session, NEW o \in Orders, Start(s, o) PROVE IInv'
    BY <1>3, StartPurchaseStep, StartConfirmStep, StartExpiredStep DEF Start
<1>4. ASSUME Sweep PROVE IInv'
    BY <1>4, StartSweepStep, SweepOrderStep, EndSweepStep DEF Sweep
<1>5. ASSUME NEW o \in Orders, Outside(o) PROVE IInv'
    BY <1>5, PayStep, ExpireStep, AgeStep DEF Outside
<1>6. CASE UNCHANGED vars
    <2> USE <1>6 DEF IInv, vars, dbVars, stripeVars, sessionVars
    <2>1. TypeOK' BY DEF TypeOK
    <2>2. OrderInv' BY DEF OrderInv, Placed, Settled
    <2>3. PurchaseInv' BY DEF PurchaseInv, Placed
    <2>4. ConfirmInv' BY DEF ConfirmInv
    <2>5. CancelInv' BY DEF CancelInv, Placed, Settled
    <2>6. LockInv' BY DEF LockInv, Ordered, BooksOf
    <2>7. CopyInv' BY DEF CopyInv, Ordered, BooksOf
    <2>8. PaidOnlyIfCompleted' BY DEF PaidOnlyIfCompleted
    <2>9. StatusAgreesWithPayment' BY DEF StatusAgreesWithPayment
    <2>10. QED BY <2>1, <2>2, <2>3, <2>4, <2>5, <2>6, <2>7, <2>8, <2>9
<1>7. QED BY <1>1, <1>2, <1>3, <1>4, <1>5, <1>6 DEF Next

\* The invariant holds in every reachable state of the checkout.
THEOREM Invariance == Spec => []IInv
BY InitInv, NextInv, PTL DEF Spec

\* Stock, carts and order quantities stay natural numbers (books.quantity >= 0
\* is a CHECK of the table: no commit can run into it), and every session is
\* at a statement of a known handler, about an order exactly when it has one.
THEOREM TypeCorrect == Spec => []TypeOK
<1>1. IInv => TypeOK BY DEF IInv
<1>2. QED BY <1>1, Invariance, PTL

\* ConfirmOrderPayment is the only way to PAID and SUCCESS, and it runs only
\* for an order whose own Stripe session was completed.
THEOREM NoBooksForFree == Spec => []PaidOnlyIfCompleted
<1>1. IInv => PaidOnlyIfCompleted BY DEF IInv
<1>2. QED BY <1>1, Invariance, PTL

\* Neither CancelOrder's webhook, nor the sweep, nor a failed Stripe call
\* cancels an order whose URL is with a buyer who can still pay.
THEOREM NoCancelUnderTheBuyer == Spec => []NeverCanceledWhilePayable
<1>1. IInv => NeverCanceledWhilePayable
    BY DEF IInv, OrderInv, Settled, NeverCanceledWhilePayable, TypeOK, Checkout
<1>2. QED BY <1>1, Invariance, PTL

\* The two status columns, written by racing commits, agree about the money.
THEOREM OneStoryAboutMoney == Spec => []StatusAgreesWithPayment
<1>1. IInv => StatusAgreesWithPayment BY DEF IInv
<1>2. QED BY <1>1, Invariance, PTL

\* Only the commit of its own purchase request takes an order from sent to
\* pending.
LEMMA OnlyCommitReservePlaces ==
    ASSUME IInv, [Next]_vars, NEW o \in Orders,
           status[o] = "sent", status'[o] = "pending"
    PROVE  \E s \in Session : CommitReserve(s) /\ ord[s] = o
<1> USE OrdersAssumption DEF IInv, TypeOK
<1>1. ASSUME NEW s \in Session, Step(s), ~CommitReserve(s) PROVE FALSE
    BY <1>1 DEF Step, LockForReserve, RejectPurchase, CheckoutCreated, CheckoutFailed,
            SaveCheckout, ReadOrderToConfirm, CommitConfirm, LoadBooks, LockForCancel,
            CancelBusy, CommitCancel, dbVars
<1>2. ASSUME NEW s \in Session, CommitReserve(s) PROVE ord[s] = o
    BY <1>2 DEF CommitReserve
<1>3. ASSUME NEW s \in Session, Crash(s) PROVE FALSE
    BY <1>3 DEF Crash
<1>4. ASSUME NEW s \in Session, NEW p \in Orders, Start(s, p) PROVE FALSE
    BY <1>4 DEF Start, StartPurchase, StartConfirm, StartExpired, dbVars
<1>5. ASSUME Sweep PROVE FALSE
    BY <1>5 DEF Sweep, StartSweep, SweepOrder, EndSweep, dbVars
<1>6. ASSUME NEW p \in Orders, Outside(p) PROVE FALSE
    BY <1>6 DEF Outside, Pay, Expire, Age, dbVars
<1>7. CASE UNCHANGED vars
    BY <1>7 DEF vars, dbVars
<1>8. QED BY <1>1, <1>2, <1>3, <1>4, <1>5, <1>6, <1>7 DEF Next

\* FOR UPDATE NOWAIT is enough for direct purchases: what the commit writes
\* was read under the lock, and every other writer of the row needs the lock.
THEOREM ExactReservation == Spec => ReservationIsExact
<1> DEFINE Exact == \A o \in Orders \ CartOrders :
              status[o] = "sent" /\ status'[o] = "pending" =>
                  \A b \in Books : /\ stock[b] >= items[o][b]
                                   /\ stock'[b] = stock[b] - items[o][b]
<1>1. IInv /\ [Next]_vars => [Exact]_vars
    <2> SUFFICES ASSUME IInv, [Next]_vars, NEW o \in Orders \ CartOrders,
                        status[o] = "sent", status'[o] = "pending", NEW b \in Books
                 PROVE  stock[b] >= items[o][b] /\ stock'[b] = stock[b] - items[o][b]
        OBVIOUS
    <2>1. PICK s \in Session : CommitReserve(s) /\ ord[s] = o
        BY OnlyCommitReservePlaces
    <2>2. stock[b] \in Nat /\ items[o][b] \in Nat
        BY DEF IInv, TypeOK, Basket
    <2>3. CASE b \in Ordered(o)
        BY <2>1, <2>2, <2>3 DEF IInv, CopyInv, CommitReserve
    <2>4. CASE b \notin Ordered(o)
        BY <2>1, <2>2, <2>4 DEF CommitReserve, Ordered, BooksOf
    <2>5. QED BY <2>3, <2>4
<1>2. QED BY <1>1, Invariance, PTL DEF Spec, ReservationIsExact

-----------------------------------------------------------------------------
(* The ledger.  With one session in flight, what a session has read is what *)
(* the database holds, so its commits are the ledger's steps.               *)

\* The other sessions are closed.
Alone(s) == \A t \in Session \ {s} : pc[t] = "idle" /\ copy[t] = EmptyMap

\* What the session has read is what the database holds.
UpToDate(s) ==
    /\ pc[s] = "idle" => copy[s] = EmptyMap
    /\ \A b \in Books : copy[s][b] \in {Absent, stock[b]}
    /\ pc[s] \in CancelPC \cup {"commitConfirm"} => seen[s] = status[ord[s]]
    /\ pc[s] = "stripe" => status[ord[s]] = "pending"

\* The session at work, if any, is alone and up to date.
SerialInv ==
    /\ \A s \in Session : UpToDate(s)
    /\ \A s \in Session : pc[s] # "idle" => Alone(s)

LEMMA NobodyInFlight ==
    ASSUME SerialInv, MaxInFlight = 1, NEW s \in Session, MayStart(s)
    PROVE  Alone(s) /\ pc[s] = "idle" /\ copy[s] = EmptyMap
<1>1. IsFiniteSet(InFlight)
    BY OrdersAssumption, FS_Subset DEF InFlight
<1>2. Cardinality(InFlight) \in Nat /\ Cardinality(InFlight) < 1
    BY <1>1, FS_CardinalityType DEF MayStart
<1>3. InFlight = {} BY <1>1, <1>2, FS_EmptySet
<1>4. QED BY <1>3 DEF InFlight, SerialInv, UpToDate, Alone

\* A step of a session that is alone concerns nobody else.
LEMMA OneSession ==
    ASSUME NEW s \in Session, Alone(s),
           NEW label, pc' = [pc EXCEPT ![s] = label],
           NEW map, copy' = [copy EXCEPT ![s] = map],
           pc \in [Session -> PC],
           copy \in [Session -> [Books -> Nat \cup {Absent}]],
           UpToDate(s)'
    PROVE  SerialInv'
<1>1. \A t \in Session \ {s} : pc'[t] = "idle" /\ copy'[t] = EmptyMap
    BY DEF Alone
<1>2. \A t \in Session \ {s} : UpToDate(t)'
    BY <1>1 DEF UpToDate, EmptyMap, CancelPC
<1>3. QED BY <1>1, <1>2 DEF SerialInv, Alone, EmptyMap

LEMMA SerialInit == Init => SerialInv
BY DEF Init, SerialInv, UpToDate, Alone, EmptyMap, CancelPC

\* The end of a cancellation: the sweep keeps what it has read.
LEMMA ReturnSerial ==
    ASSUME TypeOK, NEW s \in Session, Alone(s), NEW map, Return(s, map),
           \A b \in Books : map[b] \in {Absent, stock'[b]}
    PROVE  SerialInv'
<1>t. /\ pc \in [Session -> PC]
      /\ copy \in [Session -> [Books -> Nat \cup {Absent}]]
    BY DEF TypeOK
<1>1. CASE s = Sweeper
    <2>1. /\ pc' = [pc EXCEPT ![s] = "sweep"]
          /\ copy' = [copy EXCEPT ![s] = map]
        BY <1>1 DEF Return, Goto
    <2>2. UpToDate(s)' BY <2>1, <1>t DEF UpToDate, CancelPC
    <2>3. QED BY <2>1, <2>2, <1>t, OneSession
<1>2. CASE s # Sweeper
    <2>1. /\ pc' = [pc EXCEPT ![s] = "idle"]
          /\ copy' = [copy EXCEPT ![s] = EmptyMap]
        BY <1>2 DEF Return, Close, Goto
    <2>2. UpToDate(s)' BY <2>1, <1>t DEF UpToDate, CancelPC, EmptyMap
    <2>3. QED BY <2>1, <2>2, <1>t, OneSession
<1>3. QED BY <1>1, <1>2

\* Sessions stay serial and up to date.
LEMMA SerialNext ==
    ASSUME MaxInFlight = 1
    PROVE  IInv /\ SerialInv /\ [Next]_vars => SerialInv'
<1> SUFFICES ASSUME IInv, SerialInv, [Next]_vars PROVE SerialInv'
    OBVIOUS
<1> USE OrdersAssumption DEF dbVars, stripeVars, sessionVars
<1>t. /\ TypeOK
      /\ pc \in [Session -> PC]
      /\ copy \in [Session -> [Books -> Nat \cup {Absent}]]
    BY DEF IInv, TypeOK
<1>a. \A s \in Session : pc[s] # "idle" => Alone(s) /\ UpToDate(s)
    BY DEF SerialInv
<1>b. \A s \in Session : MayStart(s) => Alone(s) /\ UpToDate(s) /\ pc[s] = "idle"
                                           /\ copy[s] = EmptyMap
    BY NobodyInFlight DEF SerialInv
<1>o. \A s \in Session : pc[s] \in OrderPC => ord[s] \in Orders
    BY <1>t DEF TypeOK
<1>1. ASSUME NEW s \in Session, Step(s) PROVE SerialInv'
    <2>1. CASE LockForReserve(s)
        <3>1. Alone(s) /\ UpToDate(s) BY <2>1, <1>a DEF LockForReserve
        <3>2. /\ pc' = [pc EXCEPT ![s] = "commitReserve"]
              /\ copy' = [copy EXCEPT ![s] = Loaded(copy[s], Ordered(ord[s]))]
            BY <2>1, <1>t DEF LockForReserve, Loaded, Goto, Ordered, BooksOf
        <3>3. UpToDate(s)'
            BY <2>1, <3>1, <3>2, <1>t DEF LockForReserve, Loaded, UpToDate, CancelPC
        <3>4. QED BY <3>1, <3>2, <3>3, <1>t, OneSession
    <2>2. CASE RejectPurchase(s)
        <3>1. Alone(s) /\ UpToDate(s) BY <2>2, <1>a DEF RejectPurchase
        <3>2. /\ pc' = [pc EXCEPT ![s] = "idle"]
              /\ copy' = [copy EXCEPT ![s] = EmptyMap]
            BY <2>2, <1>t DEF RejectPurchase, Close, Goto
        <3>3. UpToDate(s)'
            BY <3>2, <1>t DEF UpToDate, CancelPC, EmptyMap
        <3>4. QED BY <3>1, <3>2, <3>3, <1>t, OneSession
    <2>3. CASE CommitReserve(s)
        <3>1. Alone(s) /\ UpToDate(s) BY <2>3, <1>a DEF CommitReserve
        <3>2. /\ pc' = [pc EXCEPT ![s] = "stripe"]
              /\ copy' = [copy EXCEPT ![s] = [b \in Books |-> IF b \in Ordered(ord[s])
                                       THEN copy[s][b] - items[ord[s]][b]
                                       ELSE copy[s][b]]]
            BY <2>3, <1>t DEF CommitReserve, Goto
        <3>3. UpToDate(s)'
            BY <2>3, <3>1, <3>2, <1>t, <1>o
               DEF CommitReserve, UpToDate, TypeOK, CancelPC, OrderPC, BuyPC
        <3>4. QED BY <3>1, <3>2, <3>3, <1>t, OneSession
    <2>4. CASE CheckoutCreated(s)
        <3>1. Alone(s) /\ UpToDate(s) BY <2>4, <1>a DEF CheckoutCreated
        <3>2. /\ pc' = [pc EXCEPT ![s] = "saveCheckout"]
              /\ copy' = [copy EXCEPT ![s] = copy[s]]
            BY <2>4, <1>t DEF CheckoutCreated, Goto
        <3>3. UpToDate(s)'
            BY <2>4, <3>1, <3>2, <1>t DEF CheckoutCreated, UpToDate, CancelPC
        <3>4. QED BY <3>1, <3>2, <3>3, <1>t, OneSession
    <2>5. CASE CheckoutFailed(s)
        <3>1. Alone(s) /\ UpToDate(s) BY <2>5, <1>a DEF CheckoutFailed
        <3>2. /\ pc' = [pc EXCEPT ![s] = "lockBooks"]
              /\ copy' = [copy EXCEPT ![s] = copy[s]]
            BY <2>5, <1>t DEF CheckoutFailed, Goto
        <3>3. UpToDate(s)'
            BY <2>5, <3>1, <3>2, <1>t DEF CheckoutFailed, UpToDate, TypeOK
        <3>4. QED BY <3>1, <3>2, <3>3, <1>t, OneSession
    <2>6. CASE SaveCheckout(s)
        <3>1. Alone(s) /\ UpToDate(s) BY <2>6, <1>a DEF SaveCheckout
        <3>2. /\ pc' = [pc EXCEPT ![s] = "idle"]
              /\ copy' = [copy EXCEPT ![s] = EmptyMap]
            BY <2>6, <1>t DEF SaveCheckout, Close, Goto
        <3>3. UpToDate(s)'
            BY <3>2, <1>t DEF UpToDate, CancelPC, EmptyMap
        <3>4. QED BY <3>1, <3>2, <3>3, <1>t, OneSession
    <2>7. CASE ReadOrderToConfirm(s)
        <3>1. Alone(s) /\ UpToDate(s) BY <2>7, <1>a DEF ReadOrderToConfirm
        <3>2. /\ pc' = [pc EXCEPT ![s] = "commitConfirm"]
              /\ copy' = [copy EXCEPT ![s] = copy[s]]
            BY <2>7, <1>t DEF ReadOrderToConfirm, Goto
        <3>3. UpToDate(s)'
            BY <2>7, <3>1, <3>2, <1>t DEF ReadOrderToConfirm, UpToDate, TypeOK, CancelPC
        <3>4. QED BY <3>1, <3>2, <3>3, <1>t, OneSession
    <2>8. CASE CommitConfirm(s)
        <3>1. Alone(s) /\ UpToDate(s) BY <2>8, <1>a DEF CommitConfirm
        <3>2. /\ pc' = [pc EXCEPT ![s] = "idle"]
              /\ copy' = [copy EXCEPT ![s] = EmptyMap]
            BY <2>8, <1>t DEF CommitConfirm, Close, Goto
        <3>3. UpToDate(s)'
            BY <3>2, <1>t DEF UpToDate, CancelPC, EmptyMap
        <3>4. QED BY <3>1, <3>2, <3>3, <1>t, OneSession
    <2>9. CASE LockForCancel(s)
        <3>1. Alone(s) /\ UpToDate(s) BY <2>9, <1>a DEF LockForCancel
        <3>2. /\ pc' = [pc EXCEPT ![s] = "commitCancel"]
              /\ copy' = [copy EXCEPT ![s] = Loaded(copy[s], Ordered(ord[s]))]
            BY <2>9, <1>t DEF LockForCancel, Loaded, Goto
        <3>3. UpToDate(s)'
            BY <2>9, <3>1, <3>2, <1>t DEF LockForCancel, Loaded, UpToDate, CancelPC
        <3>4. QED BY <3>1, <3>2, <3>3, <1>t, OneSession
    <2>10. CASE LoadBooks(s)
        <3>1. Alone(s) /\ UpToDate(s) BY <2>10, <1>a DEF LoadBooks
        <3>2. PICK gone \in SUBSET {b \in Books : copy[s][b] # Absent} :
                LET map == Loaded([b \in Books |-> IF b \in gone THEN Absent
                                                                ELSE copy[s][b]],
                                  Ordered(ord[s]))
                IN  IF seen[s] = "pending"
                    THEN /\ copy' = [copy EXCEPT ![s] = map]
                         /\ Goto(s, "lockBooks")
                         /\ UNCHANGED <<ord, seen, seenPay>>
                    ELSE Return(s, map)
            BY <2>10 DEF LoadBooks
        <3> DEFINE map == Loaded([b \in Books |-> IF b \in gone THEN Absent
                                                                ELSE copy[s][b]],
                                 Ordered(ord[s]))
        <3>3. /\ \A b \in Books : map[b] \in {Absent, stock'[b]}
              /\ status' = status
            BY <2>10, <3>1 DEF LoadBooks, Loaded, UpToDate
        <3>p. pc[s] = "loadBooks" BY <2>10 DEF LoadBooks
        <3>q. IF seen[s] = "pending"
              THEN /\ copy' = [copy EXCEPT ![s] = map]
                   /\ Goto(s, "lockBooks")
                   /\ UNCHANGED <<ord, seen, seenPay>>
              ELSE Return(s, map)
            BY <3>2
        <3> HIDE DEF map
        <3>4. CASE seen[s] = "pending"
            <4>1. /\ pc' = [pc EXCEPT ![s] = "lockBooks"]
                  /\ copy' = [copy EXCEPT ![s] = map]
                  /\ UNCHANGED <<ord, seen>>
                BY <3>q, <3>4 DEF Goto
            <4>2. UpToDate(s)'
                BY <4>1, <3>1, <3>3, <3>p, <1>t DEF UpToDate, CancelPC
            <4>3. QED BY <4>1, <4>2, <3>1, <1>t, OneSession
        <3>5. CASE seen[s] # "pending"
            <4>1. Return(s, map) BY <3>q, <3>5
            <4>2. QED BY <4>1, <3>1, <3>3, <1>t, ReturnSerial
        <3>6. QED BY <3>4, <3>5
    <2>11. CASE CancelBusy(s)
        <3>1. Alone(s) BY <2>11, <1>a DEF CancelBusy
        <3>2. Return(s, EmptyMap) BY <2>11 DEF CancelBusy
        <3>3. \A b \in Books : EmptyMap[b] \in {Absent, stock'[b]} BY DEF EmptyMap
        <3>4. QED BY <3>1, <3>2, <3>3, <1>t, ReturnSerial
    <2>12. CASE CommitCancel(s)
        <3> DEFINE o == ord[s]
                   back == [b \in Books |-> IF b \in Ordered(o)
                                            THEN copy[s][b] + items[o][b]
                                            ELSE copy[s][b]]
        <3>1. Alone(s) /\ UpToDate(s) BY <2>12, <1>a DEF CommitCancel
        <3>2. /\ Return(s, back)
              /\ stock' = [b \in Books |-> IF b \in Ordered(o) THEN back[b] ELSE stock[b]]
            BY <2>12 DEF CommitCancel
        <3>3. \A b \in Books : back[b] \in {Absent, stock'[b]}
            BY <3>1, <3>2 DEF UpToDate
        <3> HIDE DEF o, back
        <3>4. QED BY <3>1, <3>2, <3>3, <1>t, ReturnSerial
    <2>13. QED BY <1>1, <2>1, <2>2, <2>3, <2>4, <2>5, <2>6, <2>7, <2>8, <2>9,
                  <2>10, <2>11, <2>12 DEF Step
<1>2. ASSUME NEW s \in Session, Crash(s) PROVE SerialInv'
    <2>1. Alone(s) BY <1>2, <1>a DEF Crash
    <2>2. /\ pc' = [pc EXCEPT ![s] = "idle"]
          /\ copy' = [copy EXCEPT ![s] = EmptyMap]
        BY <1>2 DEF Crash, Close, Goto
    <2>3. UpToDate(s)' BY <2>2, <1>t DEF UpToDate, CancelPC, EmptyMap
    <2>4. QED BY <2>1, <2>2, <2>3, <1>t, OneSession
<1>3. ASSUME NEW s \in Session, NEW o \in Orders, Start(s, o) PROVE SerialInv'
    <2>0. Alone(s) /\ UpToDate(s) /\ pc[s] = "idle" /\ copy[s] = EmptyMap
        BY <1>3, <1>b DEF Start, StartPurchase, StartConfirm, StartExpired
    <2>1. CASE StartPurchase(s, o)
        <3>1. PICK label \in {"reserve", "idle"}, map \in [Books -> Nat \cup {Absent}] :
                /\ pc' = [pc EXCEPT ![s] = label]
                /\ copy' = [copy EXCEPT ![s] = map]
                /\ \A b \in Books : map[b] \in {Absent, stock[b]}
                /\ label = "idle" => map = EmptyMap
            <4> DEFINE basket == IF o \in CartOrders THEN cart[UserOf[o]] ELSE Request[o]
                       map == IF o \in CartOrders THEN Loaded(EmptyMap, BooksOf(basket))
                                                  ELSE EmptyMap
            <4>1. /\ map \in [Books -> Nat \cup {Absent}]
                  /\ \A b \in Books : map[b] \in {Absent, stock[b]}
                BY <1>t DEF Loaded, EmptyMap, TypeOK, Basket
            <4>2. CASE Cardinality(BooksOf(basket)) \in 1..MaxItems
                BY <2>1, <4>1, <4>2 DEF StartPurchase, Goto
            <4>3. CASE Cardinality(BooksOf(basket)) \notin 1..MaxItems
                <5>1. UNCHANGED <<pc, copy>> BY <2>1, <4>3 DEF StartPurchase
                <5>2. /\ pc' = [pc EXCEPT ![s] = "idle"]
                      /\ copy' = [copy EXCEPT ![s] = EmptyMap]
                    BY <5>1, <2>0, <1>t
                <5>3. /\ EmptyMap \in [Books -> Nat \cup {Absent}]
                      /\ \A b \in Books : EmptyMap[b] \in {Absent, stock[b]}
                    BY DEF EmptyMap
                <5>4. QED BY <5>2, <5>3
            <4>4. QED BY <4>2, <4>3
        <3>2. stock' = stock BY <2>1 DEF StartPurchase
        <3>3. UpToDate(s)' BY <3>1, <3>2, <1>t DEF UpToDate, CancelPC
        <3>4. QED BY <3>1, <3>3, <2>0, <1>t, OneSession
    <2>2. CASE StartConfirm(s, o)
        <3>1. /\ pc' = [pc EXCEPT ![s] = "confirmOrder"]
              /\ copy' = [copy EXCEPT ![s] = copy[s]]
            BY <2>2, <1>t DEF StartConfirm, Goto
        <3>2. UpToDate(s)' BY <2>0, <2>2, <3>1, <1>t DEF StartConfirm, UpToDate, CancelPC
        <3>3. QED BY <3>1, <3>2, <2>0, <1>t, OneSession
    <2>3. CASE StartExpired(s, o)
        <3>1. /\ pc' = [pc EXCEPT ![s] = "loadBooks"]
              /\ copy' = [copy EXCEPT ![s] = copy[s]]
            BY <2>3, <1>t DEF StartExpired, ReadOrderToCancel, Goto
        <3>2. UpToDate(s)'
            BY <2>0, <2>3, <3>1, <1>t DEF StartExpired, ReadOrderToCancel, UpToDate, TypeOK
        <3>3. QED BY <3>1, <3>2, <2>0, <1>t, OneSession
    <2>4. QED BY <1>3, <2>1, <2>2, <2>3 DEF Start
<1>4. ASSUME Sweep PROVE SerialInv'
    <2> DEFINE s == Sweeper
    <2>s. s \in Session BY DEF Session
    <2>0. Alone(s) /\ UpToDate(s)
        BY <1>4, <1>a, <1>b, <2>s DEF Sweep, StartSweep, SweepOrder, EndSweep
    <2>1. CASE StartSweep
        <3>1. /\ pc' = [pc EXCEPT ![s] = "sweep"]
              /\ copy' = [copy EXCEPT ![s] = copy[s]]
            BY <2>1, <1>t DEF StartSweep, Goto
        <3>2. UpToDate(s)' BY <2>0, <2>1, <2>s, <3>1, <1>t DEF StartSweep, UpToDate, CancelPC
        <3>3. QED BY <3>1, <3>2, <2>0, <2>s, <1>t, OneSession
    <2>2. ASSUME NEW o \in Orders, SweepOrder(o) PROVE SerialInv'
        <3>1. /\ pc' = [pc EXCEPT ![s] = "loadBooks"]
              /\ copy' = [copy EXCEPT ![s] = copy[s]]
            BY <2>2, <1>t DEF SweepOrder, ReadOrderToCancel, Goto
        <3>2. UpToDate(s)'
            BY <2>0, <2>2, <2>s, <3>1, <1>t DEF SweepOrder, ReadOrderToCancel, UpToDate, TypeOK
        <3>3. QED BY <3>1, <3>2, <2>0, <2>s, <1>t, OneSession
    <2>3. CASE EndSweep
        <3>1. /\ pc' = [pc EXCEPT ![s] = "idle"]
              /\ copy' = [copy EXCEPT ![s] = EmptyMap]
            BY <2>3 DEF EndSweep, Close, Goto
        <3>2. UpToDate(s)' BY <2>s, <3>1, <1>t DEF UpToDate, CancelPC, EmptyMap
        <3>3. QED BY <3>1, <3>2, <2>0, <2>s, <1>t, OneSession
    <2>4. QED BY <1>4, <2>1, <2>2, <2>3 DEF Sweep
<1>5. ASSUME NEW o \in Orders, Outside(o) PROVE SerialInv'
    BY <1>5 DEF Outside, Pay, Expire, Age, SerialInv, UpToDate, Alone
<1>6. CASE UNCHANGED vars
    BY <1>6 DEF vars, SerialInv, UpToDate, Alone
<1>7. QED BY <1>1, <1>2, <1>3, <1>4, <1>5, <1>6 DEF Next

-----------------------------------------------------------------------------
\* Steps that leave the stock and the placed orders alone are not seen in the
\* ledger.
LEMMA Unseen ==
    ASSUME stock' = stock,
           \A o \in Orders : /\ Placed(o)' <=> Placed(o)
                             /\ Placed(o) => status'[o] = status[o] /\ items'[o] = items[o]
    PROVE  UNCHANGED Ledger!vars
<1>1. LedgerState' = LedgerState BY DEF LedgerState
<1>2. LedgerBasket' = LedgerBasket BY DEF LedgerBasket, NoItems
<1>3. QED BY <1>1, <1>2 DEF Ledger!vars

\* The COMMIT of a reservation is Place.
LEMMA ReserveIsPlace ==
    ASSUME IInv, SerialInv, NEW s \in Session, CommitReserve(s)
    PROVE  Ledger!Place(ord[s])
<1> DEFINE o == ord[s]
<1>t. TypeOK BY DEF IInv
<1>p. /\ pc[s] = "commitReserve"
      /\ stock' = [b \in Books |-> IF b \in Ordered(o) THEN copy[s][b] - items[o][b]
                                                       ELSE stock[b]]
      /\ status' = [status EXCEPT ![o] = "pending"]
      /\ items' = items
    BY DEF CommitReserve
<1>o. o \in Orders BY <1>p, <1>t DEF TypeOK, OrderPC, BuyPC
<1>s. status[o] = "sent" BY <1>p DEF IInv, PurchaseInv
<1>c. \A b \in Ordered(o) : copy[s][b] = stock[b] /\ copy[s][b] >= items[o][b]
    <2>1. UpToDate(s) BY DEF SerialInv
    <2>2. \A b \in Ordered(o) : copy[s][b] \in Nat /\ copy[s][b] >= items[o][b]
        BY <1>p DEF IInv, CopyInv
    <2>3. \A b \in Ordered(o) : b \in Books BY DEF Ordered, BooksOf
    <2>4. QED BY <2>1, <2>2, <2>3, OrdersAssumption DEF UpToDate
<1>i. items[o] \in [Books -> Nat] /\ stock \in [Books -> Nat]
    BY <1>t, <1>o DEF TypeOK, Basket
<1>n. \A b \in Books : b \notin Ordered(o) => items[o][b] = 0
    BY <1>i DEF Ordered, BooksOf
<1> HIDE DEF o
<1>1. LedgerState[o] = "none" BY <1>o, <1>s DEF LedgerState, Placed
<1>2. LedgerState' = [LedgerState EXCEPT ![o] = "pending"]
    BY <1>o, <1>p, <1>t DEF LedgerState, Placed, TypeOK
<1>3. LedgerBasket'[o] = items[o]
    BY <1>o, <1>p, <1>t DEF LedgerBasket, Placed, TypeOK
<1>4. LedgerBasket' = [LedgerBasket EXCEPT ![o] = LedgerBasket'[o]]
    <2>1. \A q \in Orders \ {o} : LedgerBasket'[q] = LedgerBasket[q]
        BY <1>o, <1>p, <1>t DEF LedgerBasket, Placed, TypeOK, NoItems
    <2>2. QED BY <2>1, <1>o DEF LedgerBasket
<1>5. \A b \in Books : items[o][b] <= stock[b] BY <1>c, <1>n, <1>i
<1>6. stock' = [b \in Books |-> stock[b] - items[o][b]]
    BY <1>p, <1>c, <1>n, <1>i
<1>7. QED BY <1>1, <1>2, <1>3, <1>4, <1>5, <1>6, <1>i DEF Ledger!Place, o

\* The COMMIT of a cancellation is Cancel.
LEMMA CancelIsCancel ==
    ASSUME IInv, SerialInv, NEW s \in Session, CommitCancel(s)
    PROVE  Ledger!Cancel(ord[s])
<1> DEFINE o == ord[s]
<1>t. TypeOK BY DEF IInv
<1>p. /\ pc[s] = "commitCancel"
      /\ stock' = [b \in Books |-> IF b \in Ordered(o)
                       THEN [c \in Books |-> IF c \in Ordered(o)
                                             THEN copy[s][c] + items[o][c]
                                             ELSE copy[s][c]][b]
                       ELSE stock[b]]
      /\ status' = [status EXCEPT ![o] = "canceled"]
      /\ items' = items
    BY DEF CommitCancel
<1>o. o \in Orders BY <1>p, <1>t DEF TypeOK, OrderPC, CancelPC
<1>s. status[o] = "pending"
    BY <1>p DEF IInv, CancelInv, SerialInv, UpToDate, CancelPC
<1>c. \A b \in Ordered(o) : copy[s][b] = stock[b]
    <2>1. UpToDate(s) BY DEF SerialInv
    <2>2. \A b \in Ordered(o) : copy[s][b] \in Nat BY <1>p DEF IInv, CopyInv
    <2>3. \A b \in Ordered(o) : b \in Books BY DEF Ordered, BooksOf
    <2>4. QED BY <2>1, <2>2, <2>3, OrdersAssumption DEF UpToDate
<1>i. items[o] \in [Books -> Nat] /\ stock \in [Books -> Nat]
    BY <1>t, <1>o DEF TypeOK, Basket
<1>n. \A b \in Books : b \notin Ordered(o) => items[o][b] = 0
    BY <1>i DEF Ordered, BooksOf
<1> HIDE DEF o
<1>1. LedgerState[o] = "pending" BY <1>o, <1>s DEF LedgerState, Placed
<1>2. LedgerState' = [LedgerState EXCEPT ![o] = "canceled"]
    BY <1>o, <1>p, <1>t DEF LedgerState, Placed, TypeOK
<1>3. LedgerBasket' = LedgerBasket /\ LedgerBasket[o] = items[o]
    BY <1>o, <1>p, <1>s, <1>t DEF LedgerBasket, Placed, TypeOK, NoItems
<1>4. stock' = [b \in Books |-> stock[b] + items[o][b]]
    BY <1>p, <1>c, <1>n, <1>i
<1>5. QED BY <1>1, <1>2, <1>3, <1>4 DEF Ledger!Cancel, o

\* The COMMIT of a confirmation is Confirm, or repeats one.
LEMMA ConfirmIsConfirm ==
    ASSUME IInv, SerialInv, NEW s \in Session, CommitConfirm(s)
    PROVE  Ledger!Confirm(ord[s]) \/ UNCHANGED Ledger!vars
<1> DEFINE o == ord[s]
<1>t. TypeOK BY DEF IInv
<1>p. /\ pc[s] = "commitConfirm"
      /\ status' = [status EXCEPT ![o] = IF seen[s] = "paid" THEN @ ELSE "paid"]
      /\ UNCHANGED <<stock, items>>
    BY DEF CommitConfirm
<1>o. o \in Orders BY <1>p, <1>t DEF TypeOK, OrderPC, ConfirmPC
<1>s. Placed(o)
    BY <1>p, <1>o DEF IInv, ConfirmInv, ConfirmPC, OrderInv
<1>u. seen[s] = status[o]
    BY <1>p DEF SerialInv, UpToDate
<1> HIDE DEF o
<1>1. CASE status[o] = "paid"
    BY <1>1, <1>p, <1>u, <1>o, <1>t, Unseen DEF TypeOK, Placed
<1>2. CASE status[o] # "paid"
    <2>1. LedgerState[o] \in {"pending", "canceled"}
        BY <1>2, <1>o, <1>s DEF LedgerState, Placed
    <2>2. LedgerState' = [LedgerState EXCEPT ![o] = "paid"]
        BY <1>2, <1>o, <1>p, <1>u, <1>t DEF LedgerState, Placed, TypeOK
    <2>3. LedgerBasket' = LedgerBasket
        BY <1>o, <1>p, <1>s, <1>u, <1>t DEF LedgerBasket, Placed, TypeOK, NoItems
    <2>4. QED BY <2>1, <2>2, <2>3, <1>p DEF Ledger!Confirm, o
<1>3. QED BY <1>1, <1>2

\* Every step is a step of the ledger or is not seen there.
LEMMA NextSimulates ==
    IInv /\ SerialInv /\ [Next]_vars => [Ledger!Next]_Ledger!vars
<1> SUFFICES ASSUME IInv, SerialInv, [Next]_vars PROVE [Ledger!Next]_Ledger!vars
    OBVIOUS
<1>t. TypeOK BY DEF IInv
<1>o. \A s \in Session : pc[s] \in OrderPC => ord[s] \in Orders
    BY <1>t DEF TypeOK
<1> USE DEF dbVars, stripeVars
<1>1. ASSUME NEW s \in Session, Step(s) PROVE [Ledger!Next]_Ledger!vars
    <2>1. CASE CommitReserve(s)
        <3>1. ord[s] \in Orders BY <2>1, <1>o DEF CommitReserve, OrderPC, BuyPC
        <3>2. QED BY <2>1, <3>1, ReserveIsPlace DEF Ledger!Next
    <2>2. CASE CommitCancel(s)
        <3>1. ord[s] \in Orders BY <2>2, <1>o DEF CommitCancel, OrderPC, CancelPC
        <3>2. QED BY <2>2, <3>1, CancelIsCancel DEF Ledger!Next
    <2>3. CASE CommitConfirm(s)
        <3>1. ord[s] \in Orders BY <2>3, <1>o DEF CommitConfirm, OrderPC, ConfirmPC
        <3>2. QED BY <2>3, <3>1, ConfirmIsConfirm DEF Ledger!Next
    <2>4. CASE RejectPurchase(s)
        <3>1. status[ord[s]] = "sent" BY <2>4 DEF RejectPurchase, IInv, PurchaseInv
        <3>2. \A o \in Orders : /\ Placed(o)' <=> Placed(o)
                                /\ Placed(o) => status'[o] = status[o] /\ items'[o] = items[o]
            BY <2>4, <3>1, <1>t DEF RejectPurchase, TypeOK, Placed
        <3>3. stock' = stock BY <2>4 DEF RejectPurchase
        <3>4. QED BY <3>2, <3>3, Unseen
    <2>5. CASE \/ LockForReserve(s) \/ CheckoutCreated(s) \/ CheckoutFailed(s)
               \/ SaveCheckout(s) \/ ReadOrderToConfirm(s) \/ LoadBooks(s)
               \/ LockForCancel(s) \/ CancelBusy(s)
        <3>1. UNCHANGED <<stock, status, items>>
            BY <2>5 DEF LockForReserve, CheckoutCreated, CheckoutFailed, SaveCheckout,
                        ReadOrderToConfirm, LoadBooks, LockForCancel, CancelBusy
        <3>2. QED BY <3>1, Unseen DEF Placed
    <2>6. QED BY <1>1, <2>1, <2>2, <2>3, <2>4, <2>5 DEF Step
<1>2. ASSUME NEW s \in Session, Crash(s) PROVE [Ledger!Next]_Ledger!vars
    <2>1. \A o \in Orders : /\ Placed(o)' <=> Placed(o)
                            /\ Placed(o) => status'[o] = status[o] /\ items'[o] = items[o]
        BY <1>2, <1>t DEF Crash, TypeOK, Placed
    <2>2. stock' = stock BY <1>2 DEF Crash
    <2>3. QED BY <2>1, <2>2, Unseen
<1>3. ASSUME NEW s \in Session, NEW o \in Orders, Start(s, o)
      PROVE [Ledger!Next]_Ledger!vars
    <2>1. CASE StartPurchase(s, o)
        <3>1. /\ status[o] = "new"
              /\ stock' = stock
              /\ \E v \in {"sent", "rejected"} : status' = [status EXCEPT ![o] = v]
              /\ \A q \in Orders \ {o} : items'[q] = items[q]
            BY <2>1, <1>t DEF StartPurchase, TypeOK
        <3>2. \A q \in Orders : /\ Placed(q)' <=> Placed(q)
                                /\ Placed(q) => status'[q] = status[q] /\ items'[q] = items[q]
            BY <3>1, <1>t DEF TypeOK, Placed
        <3>3. QED BY <3>1, <3>2, Unseen
    <2>2. CASE StartConfirm(s, o) \/ StartExpired(s, o)
        <3>1. UNCHANGED <<stock, status, items>> BY <2>2 DEF StartConfirm, StartExpired
        <3>2. QED BY <3>1, Unseen DEF Placed
    <2>3. QED BY <1>3, <2>1, <2>2 DEF Start
<1>4. ASSUME Sweep PROVE [Ledger!Next]_Ledger!vars
    <2>1. UNCHANGED <<stock, status, items>>
        BY <1>4 DEF Sweep, StartSweep, SweepOrder, EndSweep
    <2>2. QED BY <2>1, Unseen DEF Placed
<1>5. ASSUME NEW o \in Orders, Outside(o) PROVE [Ledger!Next]_Ledger!vars
    <2>1. UNCHANGED <<stock, status, items>> BY <1>5 DEF Outside, Pay, Expire, Age
    <2>2. QED BY <2>1, Unseen DEF Placed
<1>6. CASE UNCHANGED vars
    <2>1. UNCHANGED <<stock, status, items>> BY <1>6 DEF vars
    <2>2. QED BY <2>1, Unseen DEF Placed
<1>7. QED BY <1>1, <1>2, <1>3, <1>4, <1>5, <1>6 DEF Next

LEMMA InitSimulates == Init => Ledger!Init
BY DEF Init, Ledger!Init, LedgerState, LedgerBasket, Placed, NoItems

\* Sessions that do not overlap never do half a reservation, a cancellation
\* twice, or either to the wrong amount, whatever crashes, failing Stripe calls
\* and late, lost or repeated webhooks happen between them.
THEOREM SerialCheckoutIsALedger ==
    ASSUME MaxInFlight = 1
    PROVE  Spec => LedgerImplemented
<1>1. Spec => []IInv BY Invariance
<1>2. IInv /\ SerialInv /\ [Next]_vars => SerialInv' BY SerialNext
<1>3. QED BY <1>1, <1>2, SerialInit, NextSimulates, InitSimulates, PTL
         DEF Spec, LedgerImplemented, Ledger!Spec
=============================================================================
