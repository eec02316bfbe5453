-------------------------------- MODULE Shelf --------------------------------
(***************************************************************************)
(* The cart and the wishlist of one user, the requests that change them, and *)
(* the marks "in the cart" and "in the wishlist" that browser tabs put on    *)
(* the books (app.js).  A request reads, decides, and writes in one          *)
(* transaction (READ COMMITTED); what it writes is made of what it read.     *)
(* A purchase leaves the cart alone: when Stripe reports the payment, the    *)
(* books of the order leave it.  Admins edit both as they like.              *)
(***************************************************************************)
EXTENDS Integers, FiniteSets

CONSTANTS
    Titles,         \* books
    Tabs,           \* pages open in the user's browser
    Clicks,         \* requests at work at the same time
    MaxQuantity,    \* bound on quantities
    MaxDeeds        \* bound: requests sent, pages loaded, purchases, payments, edits

NoTitle == "no title"
Closed == "closed"

ASSUME ShelfAssumption ==
    /\ MaxQuantity \in Nat \ {0} /\ MaxDeeds \in Nat
    /\ NoTitle \notin Titles

VARIABLES
    hasCart,        \* the row of carts
    items,          \* cart_items.quantity by book, 0 for no row
    wished,         \* wishlists
    stock,          \* books.quantity; 0 also stands for not available
    orders,         \* [books], not confirmed; since: the copies of a book that
                    \* the requests answered after the purchase add up to
    click,          \* a request: [pc, tab, op, title, n, base, cart]; late: another
                    \* change of the item was committed since it read; gone: the
                    \* row it read, of the item or the cart, is deleted
    tab,            \* a page: [marks]; [loading, unread, got], its lists on their
                    \* way; knew, what the shelf has held while it is open; put,
                    \* what it put there; early, that while the lists were coming
    owed,           \* quantity the answered requests and the payments add up to
    mixed,          \* books a request was late for
    swept,          \* books whose row a payment deleted with copies it did not pay
    deeds

cartVars == <<hasCart, items, owed, orders, mixed, swept>>
shelfVars == <<cartVars, wished, stock, click, tab, deeds>>

InCart == {t \in Titles : items[t] > 0}
Lists == {"cart", "wish"}
Marks == Lists \X Titles
OnShelf == ({"cart"} \X InCart) \cup ({"wish"} \X wished)
ListOf(k) == IF k.op = "add" THEN "cart" ELSE "wish"
FreshTab == [marks |-> {}, loading |-> FALSE, unread |-> {}, got |-> {},
             knew |-> {}, put |-> {}, early |-> {}]
Ops == {"add", "set", "wish", "unwish"}
NoClick == [pc |-> "idle", tab |-> Closed, op |-> "add", title |-> NoTitle,
            n |-> 0, base |-> 0, cart |-> FALSE, late |-> FALSE, gone |-> FALSE]

ShelfTypeOK ==
    /\ hasCart \in BOOLEAN
    /\ items \in [Titles -> 0..MaxQuantity] /\ stock \in [Titles -> 0..MaxQuantity]
    /\ wished \subseteq Titles
    /\ InCart # {} => hasCart
    /\ \A c \in Clicks : /\ click[c].pc \in {"idle", "read", "write", "ok", "exists"}
                         /\ click[c].pc = "idle" <=> click[c].title = NoTitle
                         /\ click[c].tab \in Tabs \cup {Closed}
                         /\ click[c].op \in Ops /\ click[c].base \in 0..MaxQuantity
    /\ tab \in [Tabs -> [marks : SUBSET Marks, loading : BOOLEAN, unread : SUBSET Lists,
                         got : SUBSET Marks, knew : SUBSET Marks, put : SUBSET Marks,
                         early : SUBSET Marks]]
    /\ owed \in [Titles -> 0..MaxQuantity] /\ mixed \subseteq Titles /\ swept \subseteq Titles
    /\ orders \subseteq [books : SUBSET Titles, since : [Titles -> Nat]]
    /\ deeds \in 0..MaxDeeds

\* A page that has its lists.
ShelfInit ==
    /\ hasCart = FALSE
    /\ items = [t \in Titles |-> 0] /\ wished = {}
    /\ stock = [t \in Titles |-> MaxQuantity - 1]
    /\ click = [c \in Clicks |-> NoClick]
    /\ tab = [b \in Tabs |-> FreshTab]
    /\ owed = [t \in Titles |-> 0] /\ mixed = {} /\ swept = {} /\ orders = {}
    /\ deeds = 0

Deed == deeds < MaxDeeds /\ deeds' = deeds + 1
Drop(c) == click' = [click EXCEPT ![c] = NoClick]

-----------------------------------------------------------------------------
\* addToCart, the quantity buttons, addToWishlist, the wishlist page.
Click(c, b) ==
    /\ Deed
    /\ click[c].pc = "idle"
    /\ \E op \in Ops, t \in Titles, n \in 0..MaxQuantity :
         /\ op # "set" => n = 0
         /\ click' = [click EXCEPT ![c] = [NoClick EXCEPT !.pc = "read", !.tab = b, !.op = op,
                                                          !.title = t, !.n = n]]
    /\ UNCHANGED <<cartVars, wished, stock, tab>>

\* What a request refuses when it reads: BookUnavailableERR, CartItemNotFoundERR,
\* BookStockExceededERR, WishlistItemNotFound.
Refused(k) ==
    \/ k.op = "add" /\ stock[k.title] = 0
    \/ k.op = "set" /\ \/ items[k.title] = 0
                       \/ k.n > 0 /\ (stock[k.title] = 0 \/ k.n > stock[k.title])
    \/ k.op = "unwish" /\ k.title \notin wished

\* AddBookToCart.add, SetCartItemQuantity.set, AddBookToWishlist.add and
\* RemoveBookFromWishlist.remove up to what they write.
ReadShelf(c) ==
    /\ click[c].pc = "read"
    /\ LET k == click[c] IN
         \/ /\ Refused(k)
            /\ Drop(c)
         \/ /\ k.op = "wish" /\ k.title \in wished
            /\ click' = [click EXCEPT ![c].pc = "exists"]
         \/ /\ ~Refused(k)
            /\ ~(k.op = "wish" /\ k.title \in wished)
            /\ click' = [click EXCEPT ![c].pc = "write", ![c].base = items[k.title], ![c].cart = hasCart]
    /\ UNCHANGED <<cartVars, wished, stock, tab, deeds>>

-----------------------------------------------------------------------------
\* Wrong on purpose: a book that is in the cart is set to one.
WrittenQuantityOne(k) == IF k.op = "add" THEN 1 ELSE k.n

\* item.quantity += 1, of the quantity that was read; item.quantity = quantity.
WrittenQuantity(k) == IF k.op = "add" THEN k.base + 1 ELSE k.n

\* An INSERT of a cart, an item or a wish that is there by now breaks a unique
\* key, one into a cart that is gone the foreign key; an UPDATE of an item that is
\* gone raises StaleDataError.
WriteClashes(k) ==
    \/ k.op = "add" /\ \/ k.gone
                       \/ ~k.cart /\ hasCart
                       \/ k.base = 0 /\ items[k.title] > 0
    \/ k.op = "set" /\ k.n \notin {0, k.base} /\ k.gone
    \/ k.op = "wish" /\ k.title \in wished

\* The item has the quantity already, or the row to delete is deleted.
NothingToWrite(k) == k.op = "set" /\ \/ k.n = k.base /\ k.n > 0
                                     \/ k.n = 0 /\ k.gone

\* Every page is there to see it.
Noticed == tab' = [b \in Tabs |-> [tab[b] EXCEPT !.knew = @ \cup OnShelf']]

\* What a change of the items in B means to the request k at work on one of them.
Overtaken(k, B) ==
    IF k.pc = "write" /\ k.title \in B
    THEN [k EXCEPT !.late = TRUE,
                   !.gone = @ \/ (k.base > 0 /\ items'[k.title] = 0) \/ (k.cart /\ ~hasCart')]
    ELSE k

\* What is asked for, f, when a request is answered; a row that is gone already
\* is not what is in the cart now.
AskedFor(f, k) ==
    IF k.op = "set" /\ k.n = 0 /\ k.gone THEN f
    ELSE [f EXCEPT ![k.title] = IF k.op = "add" THEN @ + 1 ELSE k.n]

WriteCart(c) ==
    /\ click[c].pc = "write"
    /\ LET k == click[c] IN
         /\ k.op \in {"add", "set"} /\ ~WriteClashes(k)
         /\ WrittenQuantity(k) <= MaxQuantity
         /\ k.op = "add" => owed[k.title] < MaxQuantity
         /\ hasCart' = (hasCart \/ k.op = "add")
         /\ items' = IF NothingToWrite(k) THEN items ELSE [items EXCEPT ![k.title] = WrittenQuantity(k)]
         /\ owed' = AskedFor(owed, k)
         /\ orders' = {[o EXCEPT !.since = AskedFor(@, k)] : o \in orders}
         /\ mixed' = IF k.late THEN mixed \cup {k.title} ELSE mixed
         /\ click' = [d \in Clicks |-> IF d = c THEN [k EXCEPT !.pc = "ok"]
                                       ELSE Overtaken(click[d], {k.title})]
    /\ UNCHANGED <<wished, stock, swept, deeds>>
    /\ Noticed

Wish(c, op, after) ==
    /\ click[c].pc = "write" /\ click[c].op = op
    /\ ~WriteClashes(click[c])
    /\ wished' = after
    /\ click' = [click EXCEPT ![c].pc = "ok"]
    /\ UNCHANGED <<cartVars, stock, deeds>>
    /\ Noticed

AddWish(c) == Wish(c, "wish", wished \cup {click[c].title})
RemoveWish(c) == Wish(c, "unwish", wished \ {click[c].title})

\* The transaction is rolled back.
ClickFails(c) ==
    /\ click[c].pc \in {"read", "write"}
    /\ Drop(c)
    /\ UNCHANGED <<cartVars, wished, stock, tab, deeds>>

-----------------------------------------------------------------------------
\* Wrong on purpose: the mark is there before the answer.
ReplyFirst(c) ==
    /\ click[c].pc \in {"read", "ok", "exists"}
    /\ LET k == click[c] IN
         tab' = IF k.tab = Closed THEN tab ELSE
                [tab EXCEPT ![k.tab].marks = IF k.op \in {"add", "wish"} THEN @ \cup {<<ListOf(k), k.title>>} ELSE @]
    /\ Drop(c)
    /\ UNCHANGED <<cartVars, wished, stock, deeds>>

\* 2xx, or 409 of the wishlist: the book is marked.  The pages where quantities
\* and wishes are taken down have no marks.
Reply(c) ==
    /\ click[c].pc \in {"ok", "exists"}
    /\ LET k == click[c]
           b == k.tab
           new == IF k.op \in {"add", "wish"} THEN {<<ListOf(k), k.title>>} ELSE {}
       IN tab' = IF b = Closed THEN tab ELSE [tab EXCEPT ![b].marks = @ \cup new, ![b].put = @ \cup new,
                             ![b].early = IF tab[b].loading THEN @ \cup new ELSE @]
    /\ Drop(c)
    /\ UNCHANGED <<cartVars, wished, stock, deeds>>

\* The page is loaded; loadUserLists asks for both lists at once.  Requests of
\* the page that was there are carried out, nobody hears of it.
LoadPage(b) ==
    /\ Deed
    /\ tab' = [tab EXCEPT ![b] = [FreshTab EXCEPT !.loading = TRUE, !.unread = Lists, !.knew = OnShelf]]
    /\ click' = [c \in Clicks |-> IF click[c].tab = b THEN [click[c] EXCEPT !.tab = Closed] ELSE click[c]]
    /\ UNCHANGED <<cartVars, wished, stock>>

\* A list is read; a request that fails counts as an empty list.
ReadList(b, l) ==
    /\ l \in tab[b].unread
    /\ \E got \in {{}, {m \in OnShelf : m[1] = l}} :
         tab' = [tab EXCEPT ![b].unread = @ \ {l}, ![b].got = @ \cup got]
    /\ UNCHANGED <<cartVars, wished, stock, click, deeds>>

\* Both are there: they replace the marks of the page.
ShowLists(b) ==
    /\ tab[b].loading /\ tab[b].unread = {}
    /\ tab' = [tab EXCEPT ![b].loading = FALSE, ![b].marks = tab[b].got, ![b].got = {}]
    /\ UNCHANGED <<cartVars, wished, stock, click, deeds>>

-----------------------------------------------------------------------------
\* BuyCart and BuyBooks order what is in the cart, or what is asked for; the stock
\* is reserved (Orders has the whole purchase).  The cart is as it was.
Buy ==
    /\ Deed
    /\ \E B \in SUBSET Titles \ {{}} :
         /\ stock' \in [Titles -> 0..MaxQuantity]
         /\ \A t \in Titles : IF t \in B THEN stock'[t] < stock[t] ELSE stock'[t] = stock[t]
         /\ orders' = orders \cup {[books |-> B, since |-> [t \in Titles |-> 0]]}
    /\ UNCHANGED <<hasCart, items, owed, mixed, swept, wished, click, tab>>

\* ConfirmOrderPayment deletes the rows of the books that were bought, with the copies
\* that came since.  (The order stays if there is another of the same books, or if
\* the webhook comes twice at once.)
Confirm(o) ==
    /\ Deed
    /\ o \in orders /\ orders' \in {orders, orders \ {o}}
    /\ items' = [t \in Titles |-> IF t \in o.books THEN 0 ELSE items[t]]
    /\ owed' = [t \in Titles |-> IF t \in o.books /\ o.since[t] < owed[t] THEN o.since[t] ELSE owed[t]]
    /\ swept' = swept \cup {t \in o.books : owed'[t] > 0}
    /\ click' = [c \in Clicks |-> Overtaken(click[c], o.books \cap InCart)]
    /\ UNCHANGED <<hasCart, mixed, wished, stock, tab>>

\* CartAdmin, CartItemAdmin: an item gets a quantity, or is deleted; the cart is
\* deleted, or given to somebody else.  What an admin leaves is what is owed.
EditCart ==
    LET changed == {t \in Titles : items'[t] # items[t]}
        Corrected(f) == [t \in Titles |-> IF t \in changed THEN items'[t] ELSE f[t]]
    IN /\ Deed
       /\ \/ /\ \E t \in Titles, n \in 0..MaxQuantity : n # items[t] /\ items' = [items EXCEPT ![t] = n]
             /\ hasCart' = TRUE
          \/ /\ hasCart
             /\ items' = [t \in Titles |-> 0] /\ hasCart' = FALSE
       /\ owed' = Corrected(owed)
       /\ orders' = {[o EXCEPT !.since = Corrected(@)] : o \in orders}
       /\ click' = [c \in Clicks |-> Overtaken(click[c], IF hasCart' THEN changed ELSE Titles)]
       /\ UNCHANGED <<mixed, swept, wished, stock>>
       /\ Noticed

\* WishlistAdmin.
EditWishes(t) ==
    /\ Deed
    /\ wished' \in {wished \cup {t}, wished \ {t}} \ {wished}
    /\ UNCHANGED <<cartVars, stock, click>>
    /\ Noticed

\* Purchases of others, deliveries, orders that are cancelled.
MoveStock(t) ==
    /\ Deed
    /\ \E n \in {0, MaxQuantity - 1} : n # stock[t] /\ stock' = [stock EXCEPT ![t] = n]
    /\ UNCHANGED <<cartVars, wished, click, tab>>

ShelfNext ==
    \/ \E c \in Clicks : \/ \E b \in Tabs : Click(c, b)
                         \/ ReadShelf(c) \/ WriteCart(c) \/ AddWish(c) \/ RemoveWish(c)
                         \/ ClickFails(c) \/ Reply(c)
    \/ \E b \in Tabs : LoadPage(b) \/ ShowLists(b) \/ \E l \in Lists : ReadList(b, l)
    \/ Buy \/ EditCart
    \/ \E o \in orders : Confirm(o)
    \/ \E t \in Titles : EditWishes(t) \/ MoveStock(t)

ShelfSpec == ShelfInit /\ [][ShelfNext]_shelfVars

-----------------------------------------------------------------------------
\* The cart holds what the answered requests, the payments and the admins' edits add
\* up to, and a request that was refused or failed changed nothing; unless one that
\* was answered had read the item before another change was committed
\* (add_item.py:37-44, set_quantity.py:40-68), or a payment took copies asked for
\* after the purchase (confirm_payment.py:51-56).  And what the cart holds has been
\* asked for.
CartAddsUp ==
    \A t \in Titles : /\ t \notin mixed \cup swept => items[t] = owed[t]
                      /\ items[t] > 0 => owed[t] > 0

\* A page marks only what has been in the cart or the wishlist while it was open,
\* and marks what was put there through it, unless that happened while its lists
\* were on their way (app.js:274-281, 327, 340).
MarksFollowTheShelf ==
    \A b \in Tabs : /\ tab[b].marks \subseteq tab[b].knew
                    /\ tab[b].put \ tab[b].early \subseteq tab[b].marks
=============================================================================
