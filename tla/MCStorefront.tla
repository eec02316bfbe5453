---------------------------- MODULE MCStorefront ----------------------------
(* What a visitor of the shop sees: an endless list, the personal feed, the *)
(* reviews, the cart and the wishlist; and the indexes behind them.  They    *)
(* share no state here: a behaviour is one of them, chosen at the start.     *)
EXTENDS IndexSync, Listing, Feed, Reviews, Shelf, TLC

CONSTANTS t1, t2, m1, m2, cat1, cat2, author1, author2

VARIABLE topic
vars == <<topic, indexVars, listVars, feedVars, reviewVars, shelfVars>>

\* A user without purchases, vector or categories.
NewComer == [vector |-> FALSE, categories |-> <<>>, authors |-> <<>>, purchased |-> {}]

\* The other topics rest in one of their initial states.
Init ==
    /\ topic \in {"index", "list", "feed", "reviews", "shelf"}
    /\ IndexInit /\ ListInit /\ FeedInit /\ ReviewsInit /\ ShelfInit
    /\ row # NoRows
    /\ topic # "list" => kind = "new"
    /\ topic # "feed" => profile = NewComer

\* Workers, and requests, are alike: of those that are free a fixed one starts.
InTurn(free, freeAfter) == \A x \in free \ freeAfter : x = CHOOSE y \in free : TRUE

Next ==
    \/ /\ topic = "index" /\ IndexNext
       /\ InTurn({w \in SyncWorkers : sync[w].pc = "idle"}, {w \in SyncWorkers : sync'[w].pc = "idle"})
       /\ InTurn({r \in Reindexers : recon[r].pc = "idle"}, {r \in Reindexers : recon'[r].pc = "idle"})
       /\ UNCHANGED <<topic, listVars, feedVars, reviewVars, shelfVars>>
    \/ /\ topic = "list" /\ ListNext
       /\ UNCHANGED <<topic, indexVars, feedVars, reviewVars, shelfVars>>
    \/ /\ topic = "feed" /\ FeedNext
       /\ InTurn({r \in Requests : req[r].pc = "idle"}, {r \in Requests : req'[r].pc = "idle"})
       /\ UNCHANGED <<topic, indexVars, listVars, reviewVars, shelfVars>>
    \/ /\ topic = "reviews" /\ ReviewsNext
       /\ InTurn({p \in Posts : post[p].pc = "idle"}, {p \in Posts : post'[p].pc = "idle"})
       /\ UNCHANGED <<topic, indexVars, listVars, feedVars, shelfVars>>
    \/ /\ topic = "shelf" /\ ShelfNext
       /\ InTurn({c \in Clicks : click[c].pc = "idle"}, {c \in Clicks : click'[c].pc = "idle"})
       /\ UNCHANGED <<topic, indexVars, listVars, feedVars, reviewVars>>

\* Only the indexes are promised anything.
Spec == Init /\ [][Next]_vars /\ (topic = "index" => IndexFairness)

-----------------------------------------------------------------------------
\* IndexSync.  Another text, other payload, the book off sale, the book deleted.
EditSet == {[text |-> t2, meta |-> m1, avail |-> TRUE], [text |-> t1, meta |-> m2, avail |-> TRUE],
            [text |-> t1, meta |-> m1, avail |-> FALSE], Gone}

\* Listing.  Ties in relevance and score; one day with, one without the oldest.
HashOf == <<3, 1, 4, 2, 5>>
RelevanceOf == <<2, 1, 2, 1, 2>>
FirstDay == <<1, 2, 1, 0, 0>>
LaterDays == {<<2, 0, 0, 0, 0>>, <<0, 1, 2, 1, 0>>}

\* Feed.  Five books: three of one category, one of another, one of none.
CategoryOf == (1 :> cat1 @@ 2 :> cat1 @@ 3 :> cat2 @@ 4 :> cat1 @@ 5 :> None)
AuthorOf == (1 :> author1 @@ 2 :> author2 @@ 3 :> author1 @@ 4 :> author2 @@ 5 :> author1)
KeyOfBook == <<3, 1, 5, 2, 4>>
ScoreOf == <<2, 1, 2, 0, 0>>
SalesOf == <<1, 3, 0, 0, 0>>
AffinityOf == <<3, 2, 2, 1, -1>>
SlotCounts == [personalized |-> 2, popular |-> 1, new |-> 1, exploration |-> 1]
\* The slots in the order of SLOT_COUNTS, backwards, and mixed.
Shuffles == {<<"personalized", "personalized", "popular", "new", "exploration">>,
             <<"exploration", "new", "popular", "personalized", "personalized">>,
             <<"popular", "personalized", "exploration", "personalized", "new">>}
AnyOne == {{}} \cup {{s} : s \in Sources}
Tastes == <<cat2, cat1>>
ProfileSet ==
    {NewComer,
     [vector |-> FALSE, categories |-> <<cat1>>, authors |-> <<>>, purchased |-> {}],
     [vector |-> TRUE, categories |-> <<cat1>>, authors |-> <<author1>>, purchased |-> {2}]}
=============================================================================
