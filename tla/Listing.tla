------------------------------- MODULE Listing -------------------------------
(***************************************************************************)
(* An endless list of books: new, popular, a category (or the books like    *)
(* one), or a search in a category.  The page scrolls through it with a     *)
(* cursor (createCursorPager of app.js); the server answers from PostgreSQL *)
(* or, in a search, from Elasticsearch completed from PostgreSQL, and keeps *)
(* the first two kinds in Redis for a while (redis_cache).  Meanwhile books *)
(* come and go, other visitors scroll, and the nightly task recomputes the  *)
(* popularity.                                                             *)
(*                                                                         *)
(* A cursor is the place of the last book shown: a pair, ordered from the   *)
(* greater down.                                                           *)
(***************************************************************************)
EXTENDS RankedLists, FiniteSetsExt

CONSTANTS
    MaxId,          \* bound: ids handed out
    FirstIds,       \* 1..FirstIds are there from the start
    Hash,           \* md5 of id and seed, as a rank
    Relevance,      \* _score of the search
    PageSize,       \* settings.db.limit
    WindowDays,     \* POPULARITY_WINDOW_DAYS = 7
    Activity,       \* bound: scores the books may get for a day, 0 for no row
    FirstScores,    \* those of day 1
    MaxDay,         \* bound: days counted
    MaxStirs,       \* bound: what happens around the page
    MaxShown,       \* bound: books shown, should the pages go round in circles
    Start,          \* no cursor
    NoPage

Ids == 1..MaxId
Kinds == {"new", "popular", "category", "search"}
Cached == {"new", "popular"}
Cursors == {Start} \cup (Int \X Ids)
Pages == [for : Cursors, items : Seq(Ids), more : BOOLEAN, next : Cursors]

ASSUME ListingAssumption ==
    /\ PageSize \in Nat \ {0} /\ WindowDays \in Nat \ {0} /\ {MaxStirs, MaxShown} \subseteq Nat
    /\ {MaxId, MaxDay} \subseteq Nat \ {0} /\ FirstIds \in 0..MaxId
    /\ Hash \in [Ids -> Nat] /\ Relevance \in [Ids -> Nat]
    /\ Activity \subseteq [Ids -> Nat] /\ FirstScores \in [Ids -> Nat]
    /\ Start \notin Int \X Ids /\ NoPage \notin Pages

VARIABLES
    kind,           \* which list is looked at
    shelf,          \* ids of the books in PostgreSQL
    nextId,
    stats,          \* book_popularity_stats, by day
    found,          \* documents that match the search, in Elasticsearch
    cache,          \* Redis, by cache key
    page,           \* the page's script: [cursor, shown, done]
    ask,            \* its request, and one of another visitor:
                    \* [pc, cursor, answer]
    still,          \* books that have been there, in their place, all along
    mixedUp,        \* a page was answered for another cursor than it was made for
    stirs,          \* things that happened around the page
    cutShort        \* a page came without books but with more to follow

listVars == <<kind, shelf, nextId, stats, found, cache, page, ask, still, stirs, mixedUp, cutShort>>

Visitors == {"me", "other"}
NoAsk == [pc |-> "idle", cursor |-> Start, answer |-> NoPage]

-----------------------------------------------------------------------------
\* popularity_window_subquery: the last days that have rows.
Days == {d \in 1..MaxDay : \E i \in Ids : stats[d][i] > 0}
Window == {d \in Days : \A e \in Days : d > e - WindowDays}

Score(i) == MapThenSumSet(LAMBDA d : stats[d][i], Window)

\* The place of book i, by descending order: ids, (score, id), the md5 hash
\* (ascending in the code), (relevance, id).
Place(i) ==
    CASE kind = "new" -> <<0, i>>
      [] kind = "popular" -> <<Score(i), i>>
      [] kind = "category" -> <<0 - Hash[i], i>>
      [] kind = "search" -> <<Relevance[i], i>>

Before(c, d) == c = Start \/ (d # Start /\ Above(c, d))

\* The books the query selects: an inner join with the statistics for the
\* popular ones; what Elasticsearch has found.
Listed == CASE kind = "popular" -> {i \in shelf : \E d \in Window : stats[d][i] > 0}
            [] kind = "search" -> found
            [] OTHER -> shelf

\* limit + 1 rows after cursor c, to see whether there are more than limit.
RowsAfter(c) ==
    Upto(Ranked({i \in Listed : Before(c, Place(i))}, [i \in Ids |-> Place(i)]), PageSize + 1)

\* Wrong on purpose: the cursor is the extra row that was read to see whether
\* there are more.
PageFromExtraRow(c) ==
    LET rows == RowsAfter(c)
        more == Len(rows) > PageSize
    IN [for |-> c, items |-> Upto(rows, PageSize), more |-> more,
        next |-> IF more THEN Place(rows[PageSize + 1]) ELSE Start]

\* The cursor of the next page is the last book of this one.
PageAfter(c) ==
    LET rows == RowsAfter(c)
        more == Len(rows) > PageSize
    IN [for |-> c, items |-> Upto(rows, PageSize), more |-> more,
        next |-> IF more THEN Place(rows[PageSize]) ELSE Start]

\* BookRoutersCacheKeysCONF: the id of the new ones' cursor; the last ten
\* characters of the popular ones' base64 cursor, which spell the id.
KeyOf(c) == IF c = Start THEN 0 ELSE c[2]

-----------------------------------------------------------------------------
ListTypeOK ==
    /\ kind \in Kinds
    /\ shelf \subseteq Ids /\ found \subseteq Ids /\ still \subseteq shelf
    /\ nextId \in 1..(MaxId + 1)
    /\ stats \in [1..MaxDay -> [Ids -> Nat]]
    /\ DOMAIN cache = 0..MaxId /\ \A k \in 0..MaxId : cache[k] \in Pages \cup {NoPage}
    /\ page.cursor \in Cursors /\ page.shown \in Seq(Ids) /\ page.done \in BOOLEAN
    /\ \A v \in Visitors : /\ ask[v].pc \in {"idle", "asked", "hydrate", "store", "answered"}
                           /\ ask[v].cursor \in Cursors
                           /\ ask[v].answer \in Pages \cup {NoPage}
                           /\ ask[v].pc \in {"idle", "asked"} <=> ask[v].answer = NoPage
    /\ stirs \in 0..MaxStirs /\ mixedUp \in BOOLEAN /\ cutShort \in BOOLEAN

ListInit ==
    /\ kind \in Kinds
    /\ shelf = 1..FirstIds /\ nextId = FirstIds + 1
    /\ stats = [d \in 1..MaxDay |-> IF d = 1 THEN FirstScores ELSE [i \in Ids |-> 0]]
    /\ found = 1..FirstIds
    /\ cache = [k \in 0..MaxId |-> NoPage]
    /\ page = [cursor |-> Start, shown |-> <<>>, done |-> FALSE]
    /\ ask = [v \in Visitors |-> NoAsk]
    /\ still = Listed
    /\ stirs = 0 /\ mixedUp = FALSE /\ cutShort = FALSE

shop == <<kind, shelf, nextId, stats, found, still>>

Stir == stirs < MaxStirs /\ stirs' = stirs + 1

-----------------------------------------------------------------------------
\* loadNext asks unless a request is under way or the list is done.
LoadNext ==
    /\ ask["me"].pc = "idle"
    /\ ~page.done
    /\ Len(page.shown) < MaxShown
    /\ ask' = [ask EXCEPT !["me"].pc = "asked", !["me"].cursor = page.cursor]
    /\ UNCHANGED <<shop, stirs, cache, page, mixedUp, cutShort>>

\* Somebody else looks at the same list, anywhere in it.
OtherAsks ==
    /\ Stir
    /\ kind \in Cached
    /\ ask["other"].pc = "idle"
    /\ \E c \in {Start} \cup {Place(i) : i \in Listed} :
         ask' = [ask EXCEPT !["other"].pc = "asked", !["other"].cursor = c]
    /\ UNCHANGED <<shop, cache, page, mixedUp, cutShort>>

\* redis_cache: a hit is the answer; a miss, or Redis failing, makes the page.
Hit(v) ==
    /\ ask[v].pc = "asked"
    /\ kind \in Cached
    /\ LET p == cache[KeyOf(ask[v].cursor)] IN
         /\ p # NoPage
         /\ ask' = [ask EXCEPT ![v].pc = "answered", ![v].answer = p]
         /\ mixedUp' = (mixedUp \/ p.for # ask[v].cursor)
    /\ UNCHANGED <<shop, stirs, cache, page, cutShort>>

MakePage(v) ==
    /\ ask[v].pc = "asked"
    /\ ask' = [ask EXCEPT ![v].answer = PageAfter(ask[v].cursor),
                          ![v].pc = CASE kind = "search" -> "hydrate"
                                      [] kind \in Cached -> "store"
                                      [] OTHER -> "answered"]
    /\ UNCHANGED <<shop, stirs, cache, page, mixedUp, cutShort>>

\* _search: books that are not in PostgreSQL any more are left out of the page,
\* the cursor and has_next are those of Elasticsearch.
Hydrate(v) ==
    /\ ask[v].pc = "hydrate"
    /\ ask' = [ask EXCEPT ![v].pc = "answered",
                          ![v].answer.items = Among(@, shelf)]
    /\ UNCHANGED <<shop, stirs, cache, page, mixedUp, cutShort>>

\* The page is kept, however long ago it was made.
StorePage(v) ==
    /\ ask[v].pc = "store"
    /\ cache' = [cache EXCEPT ![KeyOf(ask[v].cursor)] = ask[v].answer]
    /\ ask' = [ask EXCEPT ![v].pc = "answered"]
    /\ UNCHANGED <<shop, stirs, page, mixedUp, cutShort>>

\* render, and on: the end is a page that says so, or an empty one.
Render ==
    /\ ask["me"].pc = "answered"
    /\ LET p == ask["me"].answer IN
         /\ page' = [cursor |-> p.next, shown |-> page.shown \o p.items,
                     done |-> ~p.more \/ p.items = <<>>]
         /\ cutShort' = (cutShort \/ (p.more /\ p.items = <<>>))
    /\ ask' = [ask EXCEPT !["me"] = NoAsk]
    /\ UNCHANGED <<shop, stirs, cache, mixedUp>>

OtherRenders ==
    /\ ask["other"].pc = "answered"
    /\ ask' = [ask EXCEPT !["other"] = NoAsk]
    /\ UNCHANGED <<shop, stirs, cache, page, mixedUp, cutShort>>

\* An error at any moment: the cursor is kept, the next scroll asks again.
RequestFails(v) ==
    /\ ask[v].pc # "idle"
    /\ ask' = [ask EXCEPT ![v] = NoAsk]
    /\ UNCHANGED <<shop, stirs, cache, page, mixedUp, cutShort>>

-----------------------------------------------------------------------------
ExpirePage(k) ==
    /\ Stir
    /\ cache[k] # NoPage
    /\ cache' = [cache EXCEPT ![k] = NoPage]
    /\ UNCHANGED <<shop, page, ask, mixedUp, cutShort>>

\* The admin; for the popular ones also a book that is not available any more.
AddBook ==
    /\ Stir
    /\ nextId <= MaxId
    /\ shelf' = shelf \cup {nextId}
    /\ nextId' = nextId + 1
    /\ UNCHANGED <<kind, stats, found, still, cache, page, ask, mixedUp, cutShort>>

RemoveBook(i) ==
    /\ Stir
    /\ i \in shelf
    /\ shelf' = shelf \ {i}
    /\ still' = still \ {i}
    /\ UNCHANGED <<kind, nextId, stats, found, cache, page, ask, mixedUp, cutShort>>

\* The search index catches up (IndexSync).
SyncSearch ==
    /\ Stir
    /\ kind = "search" /\ found # shelf
    /\ found' = shelf
    /\ UNCHANGED <<kind, shelf, nextId, stats, still, cache, page, ask, mixedUp, cutShort>>

\* update_books_popularity, on schedule or by hand: rows for one day's active
\* books that are for sale, one per book and day.
UpdatePopularity(d) ==
    /\ Stir
    /\ kind = "popular"
    /\ d > 1 /\ 2..(d - 1) \subseteq Days
    /\ \E a \in Activity :
         /\ stats' = [stats EXCEPT ![d] = [i \in Ids |->
                          IF i \in shelf /\ a[i] > 0 THEN a[i] ELSE @[i]]]
         /\ stats' # stats
    /\ still' = {i \in still : Score(i) = Score(i)'}
    /\ UNCHANGED <<kind, shelf, nextId, found, cache, page, ask, mixedUp, cutShort>>

ListNext ==
    \/ LoadNext \/ OtherAsks \/ Render \/ OtherRenders
    \/ \E v \in Visitors : Hit(v) \/ MakePage(v) \/ Hydrate(v) \/ StorePage(v) \/ RequestFails(v)
    \/ \E k \in 0..MaxId : ExpirePage(k)
    \/ AddBook \/ SyncSearch
    \/ \E i \in Ids : RemoveBook(i)
    \/ \E d \in 1..MaxDay : UpdatePopularity(d)

ListSpec == ListInit /\ [][ListNext]_listVars

-----------------------------------------------------------------------------
TimesShown(i) == Cardinality({n \in DOMAIN page.shown : page.shown[n] = i})

\* A book that stays where it is in the list is shown once, no more, and has been
\* when the list ends: through pages of different ages from the cache, books
\* that come and go, errors and other visitors.  What breaks it is a popular
\* page that the cache hands out for another cursor with the same id, and a
\* search page of books that are all deleted, which ends the scrolling.
ListedOnce ==
    ~mixedUp => \A i \in still : /\ TimesShown(i) <= 1
                                 /\ page.done /\ ~cutShort => TimesShown(i) = 1
=============================================================================
