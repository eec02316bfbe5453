-------------------------------- MODULE Feed --------------------------------
(***************************************************************************)
(* One session of the book feed (BooksMainRecommendationsQH.for_user) and  *)
(* its four sources.  The client pages with the cursor of the last answer  *)
(* and may send one cursor twice, and sends it again after an error; books *)
(* are withdrawn and deleted meanwhile, a source or a whole request may     *)
(* fail, an answer get lost, the session list expire.  Weights             *)
(* are kept only where they decide what can be drawn: a recent impression  *)
(* makes a book rarer, never impossible, and is left out.                  *)
(***************************************************************************)
EXTENDS FeedSampling

CONSTANTS
    RandomKey,         \* [Books -> 1..]: books.random_key
    Popularity,        \* [Books -> Nat]: popularity_window_subquery, 0 without statistics
    Sales,             \* [Books -> Nat]: rating and total_sales as one rank
    Affinity,          \* [Books -> Int]: cosine score with the user's vector
    Profiles,          \* what UserRecoProfileDTO may be
    TasteRanking,      \* categories of similar users, best first
    WideMult,          \* WIDE_CANDIDATE_MULTIPLIER
    EchelonSize, PagesPerEchelon,
    OffsetLimit,       \* PERSONALIZED_QDRANT_OFFSET_LIMIT
    ColdBySales, ColdByNewest,  \* COLD_POOL_BY_SALES, COLD_POOL_BY_NEWEST
    MaxExcluded,       \* MAX_EXCLUDED_IDS
    FailureSets,       \* which sources may fail in one request, {} included
    Requests,          \* requests that may be in flight at once
    MaxUpsets,         \* bound: repeated requests, failures, withdrawals, lapses
    End                \* the answer had no next_cursor

\* BookMainRecoCursorDTO: where each source goes on.
FeedCursors == [mode : {"vector", "collaborative"}, vectorOffset : Nat, tasteOffset : Nat,
                popular : Books \cup {None}, newest : Books \cup {None}, key : Nat \cup {None}]

ASSUME FeedAssumption ==
    /\ RandomKey \in [Books -> Nat \ {0}]
    /\ \A b, c \in Books : RandomKey[b] = RandomKey[c] => b = c
    /\ \A p \in Profiles : p.vector \in BOOLEAN
    /\ {Popularity, Sales} \subseteq [Books -> Nat] /\ Affinity \in [Books -> Int]
    /\ WideMult \in Nat \ {0} /\ {OffsetLimit, ColdBySales, ColdByNewest, MaxUpsets} \subseteq Nat
    /\ MaxExcluded \in Nat /\ \A failed \in FailureSets : failed \subseteq Sources
    /\ End \notin FeedCursors \cup {None}

VARIABLES
    profile,    \* the cached profile of the user
    rows,       \* rows of books
    available,  \* those with is_available
    indexed,    \* points in Qdrant
    pool,       \* COLD_CANDIDATES_CACHE_KEY: a sequence of books or None
    cursor,     \* the client's: None before the first page, End after the last
    seen,       \* book_reco:seen:<session>
    req,        \* the requests in flight
    served,     \* history: the books recorded as shown in the session
    upsets      \* how often each kind of upset happened

feedVars == <<profile, rows, available, indexed, pool, cursor, seen, req, served, upsets>>

NoRequest == [pc |-> "idle"]

\* BookMainRecoCursorDTO.initial; page and seed only choose among random draws.
InitialCursor ==
    [mode |-> "vector", vectorOffset |-> 0, tasteOffset |-> 0,
     popular |-> None, newest |-> None, key |-> None]

FeedInit ==
    /\ profile \in Profiles
    /\ rows = Books /\ available = Books /\ indexed = Books
    /\ pool = None /\ cursor = None
    /\ seen = <<>> /\ served = {}
    /\ req = [r \in Requests |-> NoRequest]
    /\ upsets = [retry |-> 0, failure |-> 0, change |-> 0, lapse |-> 0]

Upset(kind) ==
    /\ upsets.retry + upsets.failure + upsets.change + upsets.lapse < MaxUpsets
    /\ upsets' = [upsets EXCEPT ![kind] = @ + 1]

-----------------------------------------------------------------------------
\* What the sources order their books by.
BySales == [b \in Books |-> <<Sales[b], -RandomKey[b]>>]
ByNewest == [b \in Books |-> <<b, 0>>]
ByRandomKey == [b \in Books |-> <<-RandomKey[b], 0>>]
ByPopularity == [b \in Books |-> <<Popularity[b], b>>]
ByAffinity == [b \in Books |-> <<Affinity[b], -b>>]

\* The cached pool of cold candidates: best sellers, then the newest books.
FetchCold ==
    LET top == Upto(Ranked(available, BySales), ColdBySales)
    IN  top \o Without(Upto(Ranked(available, ByNewest), ColdByNewest), ToSet(top))

ColdPool == IF pool = None THEN FetchCold ELSE pool

\* Wrong on purpose: no wrap-around at the largest key.
ExploreOnce(cur, excluded, limit) ==
    LET after(k) == Upto(Ranked({b \in available \ excluded : RandomKey[b] > k}, ByRandomKey), limit)
    IN  {[ids |-> after(k), key |-> IF after(k) = <<>> THEN k ELSE RandomKey[Last(after(k))]] :
            k \in IF cur.key = None THEN {RandomKey[b] : b \in Books} ELSE {cur.key}}

\* BookMainExplorationReco.get: the books after the key (anywhere at first), from
\* the start again when there are none.
Explore(cur, excluded, limit) ==
    LET after(k) == Upto(Ranked({b \in available \ excluded : RandomKey[b] > k}, ByRandomKey), limit)
        Found(k) == IF after(k) # <<>> THEN after(k) ELSE after(0)
    IN  {[ids |-> Found(k), key |-> IF Found(k) = <<>> THEN k ELSE RandomKey[Last(Found(k))]] :
            k \in IF cur.key = None THEN {RandomKey[b] : b \in Books} ELSE {cur.key}}

\* BookMainNewReco.get: picks inside the window of the newest books below the cursor,
\* which then passes what lies above the lowest pick, picked or not.
NewBooks(cur, excluded, limit) ==
    LET ahead(b) == /\ profile.categories # <<>> => Category[b] \in ToSet(profile.categories)
                    /\ cur.newest # None => b < cur.newest
        window == Upto(Ranked({b \in available : ahead(b)}, ByNewest), limit * CandidateMult)
    IN  {[ids |-> p, newest |-> IF p = <<>> THEN cur.newest ELSE Min(ToSet(p))] :
            p \in NewPicks(Without(window, excluded), limit)}

\* BookMainPopularReco.get: a keyset on (score, id), the best sellers when there
\* are no statistics at all; None leaves the cursor where it was.
PopularBooks(cur, excluded, limit) ==
    LET below(b) == cur.popular # None => Above(ByPopularity[cur.popular], ByPopularity[b])
        ranked == Upto(Ranked({b \in available : Popularity[b] > 0 /\ below(b)}, ByPopularity),
                       limit * WideMult)
        candidates == Without(ranked, excluded)
        \* min(sampled, key = (score, -id))
        Lowest(S) == CHOOSE m \in S : \A b \in S :
                        \/ Popularity[m] < Popularity[b]
                        \/ Popularity[m] = Popularity[b] /\ m >= b
    IN  IF ranked = <<>> /\ cur.popular = None
        THEN {[ids |-> p, popular |-> None] :
                 p \in DiversifiedPicks(Without(ColdPool, excluded), limit)}
        ELSE IF candidates = <<>> THEN {[ids |-> <<>>, popular |-> cur.popular]}
        ELSE {[ids |-> p, popular |-> Lowest(ToSet(p))] :
                 p \in WeightedSamples(candidates, ToSet(candidates), limit)}

-----------------------------------------------------------------------------
Positive == {b \in Books : Affinity[b] > 0}

\* Wrong on purpose: the excluded ids are not passed on.
NearestUnfiltered(excluded, categories, limit) ==
    Upto(Ranked({b \in indexed : Category[b] \in categories}, ByAffinity), limit)

\* recommendations_for_user_profile: the nearest points; availability is not asked.
Nearest(excluded, categories, limit) ==
    Upto(Ranked({b \in indexed \ excluded : Category[b] \in categories}, ByAffinity), limit)

AllCategories == {Category[b] : b \in Books}

\* _rerank: 15% for the user's categories, 10% for the authors.
Rerank(points) ==
    LET Boosted(b) == Affinity[b] *
          (100 + (IF Category[b] \in ToSet(Upto(profile.categories, 3)) THEN 15 ELSE 0)
               + (IF Author[b] \in ToSet(Upto(profile.authors, 3)) THEN 10 ELSE 0))
    IN  Ranked(ToSet(points), [b \in Books |-> <<Boosted(b), -b>>])

\* _collaborative: an echelon of the categories similar users like serves
\* PAGES_PER_ECHELON pages; after the last echelon the first comes again.
Collaborative(excluded, offset, limit) ==
    LET start == ((offset \div limit) \div PagesPerEchelon) * EchelonSize
        slice == SubSeq(TasteRanking, start + 1, Min({start + EchelonSize, Len(TasteRanking)}))
        categories == ToSet(IF slice = <<>> THEN Upto(TasteRanking, EchelonSize) ELSE slice)
    IN  IF TasteRanking = <<>> THEN {<<>>}
        ELSE WeightedSamples(Nearest(excluded, categories, limit * WideMult), Positive, limit)

\* _cold_start: inside the categories of the first events, or from the pool.
ColdStart(excluded, limit) ==
    LET ranked == Ranked({b \in available : Category[b] \in ToSet(profile.categories)}, BySales)
        candidates == Without(Upto(ranked, limit * CandidateMult), excluded)
    IN  IF profile.categories # <<>>
        THEN WeightedSamples(candidates, ToSet(candidates), limit)
        ELSE DiversifiedPicks(Without(ColdPool, excluded), limit)

\* BookPersonalizedReco.get; purchased books are excluded like seen ones.
Personalized(cur, seenIds, limit) ==
    LET excluded == seenIds \cup profile.purchased
        points   == Nearest(excluded, AllCategories, limit * WideMult)
        Status(mode, v, t) == [mode |-> mode, vectorOffset |-> v, tasteOffset |-> t]
        ByTaste(offset) ==
            {[ids |-> p, status |-> Status("collaborative", offset, cur.tasteOffset + limit)] :
                p \in Collaborative(excluded, cur.tasteOffset, limit)}
    IN  CASE ~profile.vector ->
               {[ids |-> p, status |-> Status("vector", 0, 0)] : p \in ColdStart(excluded, limit)}
          [] profile.vector /\ (cur.vectorOffset >= OffsetLimit \/ cur.mode = "collaborative") ->
               ByTaste(OffsetLimit)
          [] profile.vector /\ cur.vectorOffset < OffsetLimit /\ cur.mode = "vector" ->
               IF Len(points) < limit THEN ByTaste(cur.vectorOffset)
               ELSE {[ids |-> p, status |-> Status("vector", cur.vectorOffset + limit, 0)] :
                        p \in WeightedDiversify(Rerank(points), Positive, limit)}

-----------------------------------------------------------------------------
\* for_user, first part: the cursor and the list of the session are read.  The
\* first page opens a session, whose list is empty; a first page that is asked for
\* again after an error opens another one.
Send(r) ==
    LET again == \E q \in Requests : req[q].pc # "idle" IN
    /\ req[r].pc = "idle" /\ cursor # End
    /\ again => cursor # None
    /\ IF cursor = None THEN seen' = <<>> /\ served' = {} ELSE UNCHANGED <<seen, served>>
    /\ req' = [req EXCEPT ![r] =
                 [pc |-> "loaded", at |-> IF cursor = None THEN InitialCursor ELSE cursor,
                  excluded |-> ToSet(seen')]]
    /\ IF again THEN Upset("retry") ELSE UNCHANGED upsets
    /\ UNCHANGED <<profile, rows, available, indexed, pool, cursor>>

\* Which pages read the cold pool, and so cache it: those of a user without
\* vector and categories, and those of a shop without popularity statistics.
NeedsPool(cur) ==
    \/ ~profile.vector /\ profile.categories = <<>>
    \/ cur.popular = None /\ \A b \in available : Popularity[b] = 0

\* Wrong on purpose: a source that fails starts over.
StartedOver(cur) ==
    [personalized |-> [ids |-> <<>>, status |-> [mode |-> "vector", vectorOffset |-> 0,
                                                 tasteOffset |-> 0]],
     popular |-> [ids |-> <<>>, popular |-> None], new |-> [ids |-> <<>>, newest |-> None],
     exploration |-> [ids |-> <<>>, key |-> None]]

\* defaults: a source that fails gives no books and leaves its part of the cursor
\* as it was.
Unmoved(cur) ==
    [personalized |-> [ids |-> <<>>, status |-> [mode |-> cur.mode,
                          vectorOffset |-> cur.vectorOffset, tasteOffset |-> cur.tasteOffset]],
     popular |-> [ids |-> <<>>, popular |-> cur.popular],
     new |-> [ids |-> <<>>, newest |-> cur.newest],
     exploration |-> [ids |-> <<>>, key |-> cur.key]]

\* asyncio.gather of the four sources, then the blender.
Gather(r, failed) ==
    LET cur == req[r].at  excluded == req[r].excluded
        Safe(s, results) == IF s \in failed THEN {Unmoved(cur)[s]} ELSE results
    IN
    /\ req[r].pc = "loaded"
    /\ IF failed = {} THEN UNCHANGED upsets ELSE Upset("failure")
    /\ \E per \in Safe("personalized", Personalized(cur, excluded, Slots["personalized"])),
          pop \in Safe("popular", PopularBooks(cur, excluded, Slots["popular"])),
          new \in Safe("new", NewBooks(cur, excluded, Slots["new"])),
          exp \in Safe("exploration", Explore(cur, excluded, Slots["exploration"])) :
         LET found == [personalized |-> per.ids, popular |-> pop.ids,
                       new |-> new.ids, exploration |-> exp.ids]
         IN  \E page \in {ToSet(Mix(found, pattern)) : pattern \in Patterns} :
               req' = [req EXCEPT ![r] =
                 [pc |-> "mixed", at |-> cur, excluded |-> excluded, failed |-> failed,
                  page |-> page,
                  next |-> [mode |-> per.status.mode, vectorOffset |-> per.status.vectorOffset,
                            tasteOffset |-> per.status.tasteOffset, popular |-> pop.popular,
                            newest |-> new.newest, key |-> exp.key]]]
    /\ pool' \in IF ~NeedsPool(cur) THEN {pool}
                 ELSE IF failed = {} THEN {ColdPool} ELSE {pool, ColdPool}
    /\ UNCHANGED <<profile, rows, available, indexed, cursor, seen, served>>

\* get_preview_by_ids: the rows of the page.  A page without books is answered at
\* once.  The order inside a page is abstracted.
LoadPreviews(r) ==
    LET m == req[r] IN
    /\ m.pc = "mixed"
    /\ req' = [req EXCEPT ![r] =
                 [pc |-> IF m.page = {} THEN "answered" ELSE "hydrated", failed |-> m.failed,
                  page |-> m.page, books |-> m.page \cap rows, next |-> m.next]]
    /\ UNCHANGED <<profile, rows, available, indexed, pool, cursor, seen, served, upsets>>

\* Wrong on purpose: the list is not cut.
RememberAll(page) == seen \o SetToSeq(page)

\* BookMainRecoSeenSession.add: RPUSH, then LTRIM to the last MAX_EXCLUDED_IDS.
Remember(page) ==
    LET list == seen \o SetToSeq(page)
    IN  SubSeq(list, Max({1, Len(list) - MaxExcluded + 1}), Len(list))

\* The page is appended to the list of the session, before the answer goes out.
Record(r) ==
    /\ req[r].pc = "hydrated"
    /\ seen' = Remember(req[r].page)
    /\ served' = served \cup req[r].page
    /\ req' = [req EXCEPT ![r].pc = "answered"]
    /\ UNCHANGED <<profile, rows, available, indexed, pool, cursor, upsets>>

\* The client gets the books and the next cursor; the feed ends with an answer
\* without books.
Deliver(r) ==
    LET books == req[r].books IN
    /\ req[r].pc = "answered"
    /\ cursor' = IF books = {} THEN End ELSE req[r].next
    /\ req' = [req EXCEPT ![r] = NoRequest]
    /\ UNCHANGED <<profile, rows, available, indexed, pool, seen, served, upsets>>

\* The request fails, or its answer is lost: the pager keeps its cursor.
Fail(r) ==
    /\ req[r].pc # "idle" /\ Upset("failure")
    /\ req' = [req EXCEPT ![r] = NoRequest]
    /\ UNCHANGED <<profile, rows, available, indexed, pool, cursor, seen, served>>

-----------------------------------------------------------------------------
\* A book is taken off sale, or its row deleted; Qdrant and the pool lag behind.
Withdraw(b) ==
    /\ b \in available /\ Upset("change")
    /\ available' = available \ {b}
    /\ rows' \in {rows, rows \ {b}}
    /\ UNCHANGED <<profile, indexed, pool, cursor, seen, req, served>>

SyncIndex ==
    /\ indexed # available
    /\ indexed' = available
    /\ UNCHANGED <<profile, rows, available, pool, cursor, seen, req, served, upsets>>

\* FEED_SESSION_TTL, COLD_CANDIDATES_TTL.
Lapse ==
    /\ Upset("lapse")
    /\ \/ seen # <<>> /\ seen' = <<>> /\ UNCHANGED pool
       \/ pool # None /\ pool' = None /\ UNCHANGED seen
    /\ UNCHANGED <<profile, rows, available, indexed, cursor, req, served>>

Serve(r) ==
    \/ Send(r)
    \/ \E failed \in FailureSets : Gather(r, failed)
    \/ LoadPreviews(r) \/ Record(r) \/ Deliver(r) \/ Fail(r)

FeedNext ==
    \/ \E r \in Requests : Serve(r)
    \/ \E b \in Books : Withdraw(b)
    \/ SyncIndex
    \/ Lapse

FeedSpec == FeedInit /\ [][FeedNext]_feedVars

-----------------------------------------------------------------------------
FeedTypeOK ==
    /\ profile \in Profiles
    /\ rows \subseteq Books /\ available \subseteq rows /\ indexed \subseteq Books
    /\ pool \in {None} \cup Seq(Books)
    /\ seen \in Seq(Books) /\ Len(seen) <= MaxExcluded
    /\ served \subseteq Books
    /\ \A r \in Requests : req[r].pc \in {"idle", "loaded", "mixed", "hydrated", "answered"}

\* The part of a cursor that belongs to a source.
Part(s, cur) ==
    CASE s = "personalized" -> <<cur.mode, cur.vectorOffset, cur.tasteOffset>>
      [] s = "popular" -> cur.popular
      [] s = "new" -> cur.newest
      [] s = "exploration" -> cur.key

\* Is key k on the way from one key up to another, over the largest one if need be?
OnTheWay(k, from, to) ==
    IF from < to THEN from < k /\ k <= to ELSE from < k \/ k <= to

\* No book is passed over by a cursor that cannot come back to it: a source that
\* failed goes on where it was, and exploration, the source that reaches every book,
\* moves its key only past books that are on the page or were shown before, also
\* where it starts again from the smallest key and whatever the blender makes of it.
CursorsKeepTheUnshown ==
    \A r \in Requests : req[r].pc = "mixed" =>
        LET m == req[r] IN
        /\ \A s \in m.failed : Part(s, m.next) = Part(s, m.at)
        /\ "exploration" \notin m.failed /\ m.at.key # None =>
             \A b \in available :
                 OnTheWay(RandomKey[b], m.at.key, m.next.key) => b \in m.excluded \cup m.page

\* A client that waits for each answer never gets a book twice while its session
\* lives, whichever sources, fallbacks and wrap-arounds the pages come from and
\* however often it has to ask again, as long as the session remembers all it was
\* served (MAX_EXCLUDED_IDS).
NoRepeatInSession ==
    \A r \in Requests :
        /\ req[r].pc = "mixed"
        /\ upsets.retry = 0 /\ upsets.lapse = 0 /\ Cardinality(served) <= MaxExcluded
        => req[r].page \cap served = {}

\* The feed ends only when nothing is left to show: every book on sale was recorded
\* on a page of the session, whether its answer arrived or not, unless exploration
\* failed on this last page or every book of it was deleted before it was read.
EndsOnlyWhenAllShown ==
    [][cursor' = End /\ cursor # End =>
          \E r \in Requests :
              /\ req[r].pc = "answered" /\ req'[r].pc = "idle"
              /\ \/ available \subseteq served
                 \/ "exploration" \in req[r].failed
                 \/ req[r].page # {} /\ req[r].page \cap rows = {}]_feedVars

\* The caps of the cold feed give way only when they must: a page part that
\* exceeds a cap leaves out no candidate that would have fitted.
CapsYieldOnlyWhenForced ==
    \A r \in Requests : req[r].pc = "loaded" =>
        LET candidates == Without(ColdPool, req[r].excluded)
            Exceeds(S) == \E b \in S : ~FitsCaps(S \ {b}, b)
        IN  \A p \in DiversifiedPicks(candidates, Slots["personalized"]) :
                /\ Len(p) = Min({Slots["personalized"], Len(candidates)})
                /\ Exceeds(ToSet(p)) =>
                     \A b \in ToSet(candidates) \ ToSet(p) : ~FitsCaps(ToSet(p), b)
=============================================================================
