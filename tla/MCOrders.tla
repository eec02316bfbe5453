------------------------------ MODULE MCOrders ------------------------------
\* Instances of Orders for TLC.
EXTENDS OrdersInvariant, TLC

\* All requests of one buyer, one copy of every book in each.
OneUser == CHOOSE u \in Users : TRUE
UserOfAll == [o \in Orders |-> OneUser]
EachOne == [o \in Orders |-> [b \in Books |-> 1]]
StockOne == [b \in Books |-> 1]
CartOne == [u \in Users |-> [b \in Books |-> 1]]

WebSymmetry == Permutations(Web)
=============================================================================
