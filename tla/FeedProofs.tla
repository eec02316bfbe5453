------------------------------ MODULE FeedProofs ------------------------------
(***************************************************************************)
(* What a visitor is shown, for any books, cursors, draws and requests:    *)
(* the pages of the endless lists, then those of the book feed.            *)
(*                                                                         *)
(* That a list shows every book once rests on what a page tells about the  *)
(* books between its two cursors (Tells), whichever of the cached pages it *)
(* is.  The feed rests on its algorithms: a sample has no book twice, the  *)
(* picks leave out what does not fit, and the blender, whose slots of a    *)
(* source are as many as the source may fetch, drops nothing (Mixed).      *)
(* With them a page holds nothing that was excluded and is empty only      *)
(* when nothing is left, the key of exploration passes over no book that   *)
(* is not shown (PagesAreTrue), and while nothing is sent twice what is    *)
(* excluded is what was served, until the page is recorded (Calm).         *)
(***************************************************************************)
EXTENDS Feed, Listing, DataLemmas

-----------------------------------------------------------------------------
(* Listing *)

AskSet == [pc : {"idle", "asked", "hydrate", "store", "answered"}, cursor : Cursors,
           answer : Pages \cup {NoPage}]

ListShape ==
    /\ ask \in [Visitors -> AskSet]
    /\ page \in [cursor : Cursors, shown : Seq(Ids), done : BOOLEAN]
    /\ cache \in [0..MaxId -> Pages \cup {NoPage}]

\* Where the books are.
Places == [i \in Ids |-> Place(i)]

\* What a page says of the books in st, at their places pl: it shows those between
\* its two cursors, each once.
Tells(p, st, pl) ==
    /\ Distinct(p.items)
    /\ \A i \in st :
          /\ i \in ToSet(p.items) <=> Before(p.for, pl[i]) /\ (p.more => ~ Before(p.next, pl[i]))
          /\ p.more /\ Before(p.next, pl[i]) => Before(p.for, pl[i])

StillListed == still \subseteq Listed

PagesTell ==
    /\ \A k \in 0..MaxId : cache[k] # NoPage => Tells(cache[k], still, Places)
    /\ \A v \in Visitors : ask[v].answer # NoPage => Tells(ask[v].answer, still, Places)

\* An answer is one to what was asked, unless a page was taken for another.
AnswersFit ==
    ~mixedUp => \A v \in Visitors : ask[v].answer # NoPage => ask[v].answer.for = ask[v].cursor

AsksForMore == ask["me"].pc # "idle" => ~page.done /\ ask["me"].cursor = page.cursor

\* How often i is among the shown ones.
Times(s, i) == Cardinality({n \in DOMAIN s : s[n] = i})

\* The books before the cursor have been shown, the others have not.
ShownSoFar ==
    ~mixedUp => \A i \in still :
        /\ ~page.done => Times(page.shown, i) = IF Before(page.cursor, Places[i]) THEN 0 ELSE 1
        /\ page.done => /\ Times(page.shown, i) <= 1
                        /\ ~cutShort => Times(page.shown, i) = 1

ListInv ==
    /\ ListTypeOK /\ ListShape
    /\ StillListed /\ PagesTell /\ AnswersFit /\ AsksForMore /\ ShownSoFar

-----------------------------------------------------------------------------
\* The window and the score, of statistics s.
DaysOf(s) == {d \in 1..MaxDay : \E i \in Ids : s[d][i] > 0}
WindowOf(s) == {d \in DaysOf(s) : \A e \in DaysOf(s) : d > e - WindowDays}
ScoreOf(s, i) == MapThenSumSet(LAMBDA d : s[d][i], WindowOf(s))

LEMMA ScoreIs == \A i : Score(i) = ScoreOf(stats, i)
BY DEF Score, ScoreOf, Window, WindowOf, Days, DaysOf, MapThenSumSet, MapThenFoldSet

LEMMA ScoreIsNext == \A i : Score(i)' = ScoreOf(stats', i)
BY DEF Score, ScoreOf, Window, WindowOf, Days, DaysOf, MapThenSumSet, MapThenFoldSet

LEMMA WindowIs == Window = WindowOf(stats) /\ Window' = WindowOf(stats')
BY DEF Window, WindowOf, Days, DaysOf

\* A sum is zero when everything in it is.
LEMMA AddsZero ==
    ASSUME NEW S, IsFiniteSet(S), NEW f \in [S -> Nat], NEW g, Adds(g, f, S)
    PROVE  g[S] \in Nat /\ (g[S] > 0 <=> \E x \in S : f[x] > 0)
<1>1. g \in [SUBSET S -> Nat] BY AddsNat
<1>2. ASSUME NEW x \in S, f[x] > 0 PROVE g[S] > 0
  <2>1. S \in SUBSET S /\ S \ {x} \in SUBSET S OBVIOUS
  <2>2. g[S] = f[x] + g[S \ {x}] BY <2>1, AddsAny
  <2>3. g[S \ {x}] \in Nat /\ f[x] \in Nat BY <1>1, <2>1
  <2> QED BY <1>2, <2>2, <2>3
<1>3. ASSUME \A x \in S : ~ (f[x] > 0) PROVE g[S] = 0
  <2> DEFINE T == {s \in SUBSET S : g[s] = 0}
  <2>1. ASSUME NEW s \in SUBSET S, \A u \in SUBSET s : u # s => u \in T PROVE s \in T
    <3>1. g[s] = IF s = {} THEN 0 ELSE f[Pick(s)] + g[s \ {Pick(s)}] BY DEF Adds
    <3>2. CASE s # {}
      <4>1. Pick(s) \in s BY <3>2, PickIn
      <4>2. g[s \ {Pick(s)}] = 0 BY <2>1, <4>1
      <4>3. f[Pick(s)] = 0 BY <1>3, <4>1
      <4> QED BY <3>1, <3>2, <4>2, <4>3
    <3> QED BY <3>1, <3>2
  <2> HIDE DEF T
  <2>2. SUBSET S \subseteq T BY <2>1, SetInd
  <2> QED BY <2>2 DEF T
<1> QED BY <1>1, <1>2, <1>3

LEMMA ScoreAdds ==
    ASSUME NEW s \in [1..MaxDay -> [Ids -> Nat]], NEW i \in Ids
    PROVE  /\ ScoreOf(s, i) \in Nat
           /\ ScoreOf(s, i) > 0 <=> \E d \in WindowOf(s) : s[d][i] > 0
<1> DEFINE W == WindowOf(s)
           f == [d \in W |-> s[d][i]]
           Is(k) == k = [t \in SUBSET W |-> IF t = {} THEN 0 ELSE s[Pick(t)][i] + k[t \ {Pick(t)}]]
           It == CHOOSE k : Is(k)
<1>1. W \subseteq 1..MaxDay /\ MaxDay \in Nat BY ListingAssumption DEF WindowOf, DaysOf
<1>2. IsFiniteSet(W) BY <1>1, FS_Interval, FS_Subset
<1>3. ScoreOf(s, i) = It[W] BY DEF ScoreOf, MapThenSumSet, MapThenFoldSet, Pick
<1>4. f \in [W -> Nat] BY <1>1
<1> HIDE DEF W
<1>5. PICK g : Adds(g, f, W) BY <1>2, AddsExist
<1>6. ASSUME NEW k PROVE Adds(k, f, W) <=> Is(k)
  <2>1. \A t \in SUBSET W : t # {} => f[Pick(t)] = s[Pick(t)][i] BY PickIn
  <2> QED BY <2>1 DEF Adds
<1> HIDE DEF Is
<1>7. Is(It) BY <1>5, <1>6
<1>8. Adds(It, f, W) BY <1>6, <1>7
<1> HIDE DEF It, f
<1>9. It[W] \in Nat /\ (It[W] > 0 <=> \E d \in W : f[d] > 0) BY <1>2, <1>4, <1>8, AddsZero
<1> QED BY <1>3, <1>9 DEF f, W

\* A place is a pair, and tells the book.
LEMMA PlacesArePairs ==
    ASSUME ListTypeOK
    PROVE  Places \in [Ids -> Int \X Ids] /\ \A i \in Ids : Places[i][2] = i /\ Places[i] = Place(i)
<1>1. \A i \in Ids : Score(i) \in Nat BY ScoreAdds, ScoreIs DEF ListTypeOK
<1>2. ASSUME NEW i \in Ids PROVE Place(i) \in Int \X Ids /\ Place(i)[2] = i
  <2>1. 0 - Hash[i] \in Int /\ Relevance[i] \in Int BY ListingAssumption
  <2> QED BY <1>1, <2>1 DEF Place, ListTypeOK, Kinds
<1> QED BY <1>2 DEF Places

\* Nothing moves while the statistics stay.
LEMMA PlacesStay == UNCHANGED <<kind, stats>> => Places' = Places
<1> SUFFICES ASSUME UNCHANGED <<kind, stats>> PROVE Places' = Places OBVIOUS
<1>1. \A i : Score(i)' = Score(i) BY ScoreIs, ScoreIsNext
<1>2. \A i : Place(i)' = Place(i) BY <1>1 DEF Place
<1> QED BY <1>2 DEF Places

\* One before the other goes before what that one goes before.
LEMMA BeforeLine ==
    ASSUME NEW c \in Cursors, NEW d \in Int \X Ids, NEW e \in Int \X Ids
    PROVE  /\ Before(c, d) /\ (d = e \/ Above(d, e)) => Before(c, e)
           /\ Before(d, e) <=> Above(d, e)
           /\ Before(Start, d)
<1>1. d # Start /\ e # Start BY ListingAssumption
<1>2. Before(d, e) <=> Above(d, e) BY <1>1 DEF Before
<1>3. CASE c = Start BY <1>1, <1>2, <1>3 DEF Before
<1>4. CASE c # Start
  <2>1. c \in Int \X Ids BY <1>4 DEF Cursors
  <2>2. Ids \subseteq Int BY DEF Ids
  <2>3. c \in Int \X Int /\ d \in Int \X Int /\ e \in Int \X Int BY <2>1, <2>2
  <2>4. Above(c, d) /\ Above(d, e) => Above(c, e) BY <2>3, AboveLine
  <2> QED BY <1>1, <1>2, <1>4, <2>4 DEF Before
<1> QED BY <1>3, <1>4

\* A page that is made now tells of the books that are listed.
LEMMA PageIsTrue ==
    ASSUME ListTypeOK, NEW c \in Cursors
    PROVE  /\ PageAfter(c) \in Pages /\ PageAfter(c).for = c
           /\ Tells(PageAfter(c), Listed, Places)
<1> DEFINE A == {i \in Listed : Before(c, Place(i))}
           R == Ranked(A, Places)
           ranks == RowsAfter(c)
           n == Cardinality(A)
           p == PageAfter(c)
<1>1. Ids \subseteq Int /\ IsFiniteSet(Ids) BY ListingAssumption, FS_Interval DEF Ids
<1>2. /\ Places \in [Ids -> Int \X Ids]
      /\ \A i \in Ids : Places[i][2] = i /\ Places[i] = Place(i)
  BY PlacesArePairs
<1>3. Listed \subseteq Ids BY DEF ListTypeOK, Listed
<1>4. A \subseteq Ids /\ IsFiniteSet(A) BY <1>1, <1>3, FS_Subset
<1>5. ranks = Upto(R, PageSize + 1) BY DEF RowsAfter, Places
<1>6. PageSize \in Nat \ {0} BY ListingAssumption
<1>7. \A i \in Listed : i \in A <=> Before(c, Places[i]) BY <1>2, <1>3
<1> HIDE DEF A
<1>8. (\A x \in A : Places[x] \in Int \X Int) /\ \A x, y \in A : Places[x] = Places[y] => x = y
  BY <1>1, <1>2, <1>4
<1>9. R \in Seq(A) /\ Len(R) = n /\ ToSet(R) = A /\ Distinct(R) BY <1>4, <1>8, RankedOnce
<1>10. \A i, j \in 1..n : i < j => Above(Places[R[i]], Places[R[j]]) BY <1>4, <1>8, RankedOnce
<1>11. n \in Nat BY <1>4, FS_CardinalityType
<1>12. \A i \in 1..n : R[i] \in A BY <1>9
<1> HIDE DEF R, n
<1>13. /\ ranks \in Seq(A)
       /\ Len(ranks) = IF PageSize + 1 <= n THEN PageSize + 1 ELSE n
       /\ \A i \in 1..Len(ranks) : ranks[i] = R[i]
       /\ Distinct(ranks)
  <2>1. PageSize + 1 \in Nat BY <1>6
  <2> QED BY <1>5, <1>9, <2>1, FirstOf
<1>14. n <= PageSize + 1 => ranks = R
  <2>1. PageSize + 1 \in Nat BY <1>6
  <2> QED BY <1>5, <1>9, <2>1, FirstOf
<1> HIDE DEF ranks
<1>15. /\ p.for = c /\ p.items = Upto(ranks, PageSize) /\ p.more = (Len(ranks) > PageSize)
       /\ p.next = IF Len(ranks) > PageSize THEN Place(ranks[PageSize]) ELSE Start
       /\ p = [for |-> p.for, items |-> p.items, more |-> p.more, next |-> p.next]
  BY DEF PageAfter, ranks
<1> HIDE DEF p
<1>16. p.more <=> PageSize < n
  <2>1. Len(ranks) > PageSize <=> PageSize < n BY <1>6, <1>11, <1>13
  <2> QED BY <1>15, <2>1
<1>17. /\ p.items \in Seq(A)
       /\ Len(p.items) = IF PageSize < n THEN PageSize ELSE n
       /\ \A i \in 1..Len(p.items) : p.items[i] = R[i]
       /\ Distinct(p.items)
  <2>1. /\ Upto(ranks, PageSize) \in Seq(A)
        /\ Len(Upto(ranks, PageSize)) = IF PageSize <= Len(ranks) THEN PageSize ELSE Len(ranks)
        /\ \A i \in 1..Len(Upto(ranks, PageSize)) : Upto(ranks, PageSize)[i] = ranks[i]
    BY <1>6, <1>13, FirstOf
  <2>2. Distinct(Upto(ranks, PageSize)) BY <1>6, <1>13, FirstOf
  <2>3. \A i \in 1..Len(p.items) : i \in 1..Len(ranks) BY <1>6, <1>11, <1>13, <1>15, <2>1
  <2>4. \A i \in 1..Len(p.items) : p.items[i] = R[i] BY <1>13, <1>15, <2>1, <2>3
  <2>5. Len(p.items) = IF PageSize < n THEN PageSize ELSE n BY <1>6, <1>11, <1>13, <1>15, <2>1
  <2> QED BY <1>15, <2>1, <2>2, <2>4, <2>5
<1>18. ASSUME p.more PROVE PageSize \in 1..n /\ p.next = Places[R[PageSize]]
  <2>1. PageSize \in 1..n /\ PageSize \in 1..Len(ranks) /\ Len(ranks) > PageSize
    BY <1>6, <1>11, <1>13, <1>16, <1>18
  <2>2. ranks[PageSize] = R[PageSize] /\ R[PageSize] \in A BY <1>12, <1>13, <2>1
  <2> QED BY <1>2, <1>4, <1>15, <2>1, <2>2
<1>19. p \in Pages
  <2>1. p.next \in Cursors
    <3>1. CASE p.more BY <1>2, <1>4, <1>12, <1>18, <3>1 DEF Cursors
    <3>2. CASE ~ p.more BY <1>15, <3>2 DEF Cursors
    <3> QED BY <3>1, <3>2
  <2>2. p.items \in Seq(Ids) BY <1>4, <1>17
  <2>3. p.more \in BOOLEAN BY <1>15
  <2> QED BY <1>15, <2>1, <2>2, <2>3 DEF Pages
<1>20. ToSet(p.items) = {R[j] : j \in 1..Len(p.items)} BY <1>17, Elements
<1>21. ToSet(R) = {R[j] : j \in 1..n} BY <1>9, Elements
<1>22. ASSUME NEW i \in Listed
       PROVE /\ i \in ToSet(p.items) <=> Before(p.for, Places[i]) /\ (p.more => ~ Before(p.next, Places[i]))
             /\ p.more /\ Before(p.next, Places[i]) => Before(p.for, Places[i])
  <2>0. i \in Ids /\ Places[i] \in Int \X Ids BY <1>2, <1>3
  <2>1. CASE i \notin A
    <3>1. ~ Before(c, Places[i]) BY <1>7, <2>1
    <3>2. i \notin ToSet(p.items) BY <1>17, <2>1, Elements
    <3>3. ASSUME p.more PROVE ~ Before(p.next, Places[i])
      <4>1. R[PageSize] \in A /\ p.next = Places[R[PageSize]] BY <1>12, <1>18, <3>3
      <4>2. R[PageSize] \in Listed /\ Before(c, p.next) BY <1>7, <4>1 DEF A
      <4>3. p.next \in Int \X Ids BY <1>2, <1>4, <4>1
      <4> QED BY <2>0, <3>1, <4>2, <4>3, BeforeLine
    <3> QED BY <1>15, <3>1, <3>2, <3>3
  <2>2. CASE i \in A
    <3>1. Before(c, Places[i]) BY <1>7, <2>2
    <3>2. PICK j \in 1..n : i = R[j] BY <1>9, <1>21, <2>2
    <3>3. i \in ToSet(p.items) <=> j <= Len(p.items)
      <4>1. Len(p.items) \in Nat /\ Len(p.items) <= n BY <1>6, <1>11, <1>17
      <4>2. \A m \in 1..Len(p.items) : R[m] = R[j] => m = j BY <1>9, <1>11, <3>2, <4>1 DEF Distinct
      <4> QED BY <1>11, <1>20, <3>2, <4>1, <4>2
    <3>4. CASE ~ p.more
      <4>1. j <= Len(p.items) BY <1>6, <1>11, <1>16, <1>17, <3>4
      <4> QED BY <1>15, <3>1, <3>3, <3>4, <4>1
    <3>5. CASE p.more
      <4>1. Len(p.items) = PageSize /\ PageSize \in 1..n /\ p.next = Places[R[PageSize]]
        BY <1>16, <1>17, <1>18, <3>5
      <4>2. p.next \in Int \X Ids BY <1>2, <1>4, <1>12, <4>1
      <4>3. Before(p.next, Places[i]) <=> Above(p.next, Places[i]) BY <2>0, <4>2, BeforeLine
      <4>4. p.next \in Int \X Int /\ Places[i] \in Int \X Int BY <1>1, <2>0, <4>2
      <4>5. CASE j <= PageSize
        <5>1. ~ Above(p.next, Places[i])
          <6>1. CASE j = PageSize BY <3>2, <4>1, <4>4, <6>1, AboveLine
          <6>2. CASE j < PageSize
            <7>1. Above(Places[i], p.next) BY <1>10, <3>2, <4>1, <6>2
            <7> QED BY <4>4, <7>1, AboveLine
          <6> QED BY <1>6, <4>5, <6>1, <6>2
        <5> QED BY <1>15, <3>1, <3>3, <3>5, <4>1, <4>3, <4>5, <5>1
      <4>6. CASE j > PageSize
        <5>1. Above(p.next, Places[i]) BY <1>10, <3>2, <4>1, <4>6
        <5>2. ~ (j <= PageSize) BY <1>6, <4>6
        <5> QED BY <1>15, <3>1, <3>3, <3>5, <4>1, <4>3, <5>1, <5>2
      <4> QED BY <1>6, <4>5, <4>6
    <3> QED BY <3>4, <3>5
  <2> QED BY <2>1, <2>2
<1>23. Tells(p, Listed, Places) BY <1>17, <1>22 DEF Tells
<1> QED BY <1>15, <1>19, <1>23 DEF p

\* The other books of a list do not count.
LEMMA TellsFewer ==
    ASSUME NEW p, NEW st, NEW pl, Tells(p, st, pl), NEW s, s \subseteq st,
           NEW q, \A i \in s : q[i] = pl[i]
    PROVE  Tells(p, s, q)
BY DEF Tells

\* What a page adds to how often a book is among the shown ones.
LEMMA TimesJoined ==
    ASSUME NEW E, NEW s \in Seq(E), NEW r \in Seq(E), NEW i
    PROVE  /\ Times(s, i) \in Nat /\ Times(<<>>, i) = 0
           /\ Distinct(r) => Times(s \o r, i) = Times(s, i) + (IF i \in ToSet(r) THEN 1 ELSE 0)
<1> DEFINE A == {n \in DOMAIN s : s[n] = i}
           B == {n \in DOMAIN (s \o r) : (s \o r)[n] = i}
<1>1. Len(s) \in Nat /\ Len(r) \in Nat /\ DOMAIN s = 1..Len(s) BY LenProperties
<1>2. /\ Len(s \o r) = Len(s) + Len(r) /\ DOMAIN (s \o r) = 1..(Len(s) + Len(r))
      /\ \A j \in 1..Len(s) : (s \o r)[j] = s[j]
      /\ \A j \in 1..Len(r) : (s \o r)[Len(s) + j] = r[j]
  BY Joined, LenProperties
<1>3. IsFiniteSet(A) /\ Cardinality(A) \in Nat
  <2>1. IsFiniteSet(1..Len(s)) BY <1>1, FS_Interval
  <2> QED BY <1>1, <2>1, FS_Subset, FS_CardinalityType
<1>4. Times(<<>>, i) = 0
  <2>1. {n \in DOMAIN <<>> : <<>>[n] = i} = {} OBVIOUS
  <2> QED BY <2>1, FS_EmptySet DEF Times
<1>5. \A m \in 1..(Len(s) + Len(r)) : m \in 1..Len(s) \/ (m - Len(s) \in 1..Len(r) /\ m = Len(s) + (m - Len(s)))
  BY <1>1
<1>6. ToSet(r) = {r[j] : j \in 1..Len(r)} BY Elements
<1>7. \A m \in 1..Len(s) : m \in 1..(Len(s) + Len(r)) BY <1>1
<1>8. \A m \in 1..Len(r) : Len(s) + m \in 1..(Len(s) + Len(r)) /\ Len(s) + m \notin 1..Len(s) BY <1>1
<1>9. ASSUME Distinct(r) PROVE Cardinality(B) = Cardinality(A) + (IF i \in ToSet(r) THEN 1 ELSE 0)
  <2>1. CASE i \notin ToSet(r)
    <3>1. B = A BY <1>1, <1>2, <1>5, <1>6, <1>7, <2>1
    <3>2. Cardinality(A) + 0 = Cardinality(A) BY <1>3
    <3> HIDE DEF A, B
    <3> QED BY <2>1, <3>1, <3>2
  <2>2. CASE i \in ToSet(r)
    <3>1. PICK j \in 1..Len(r) : r[j] = i BY <1>6, <2>2
    <3>2. \A m \in 1..Len(r) : r[m] = i => m = j BY <1>9, <3>1 DEF Distinct
    <3>3. B = A \cup {Len(s) + j}
      <4>1. A \subseteq B BY <1>1, <1>2, <1>7
      <4>2. Len(s) + j \in B BY <1>2, <1>8, <3>1
      <4>3. ASSUME NEW m \in B PROVE m \in A \cup {Len(s) + j}
        <5>1. m \in 1..(Len(s) + Len(r)) /\ (s \o r)[m] = i BY <1>2
        <5>2. CASE m \in 1..Len(s) BY <1>1, <1>2, <5>1, <5>2
        <5>3. CASE m \notin 1..Len(s)
          <6>1. m - Len(s) \in 1..Len(r) /\ m = Len(s) + (m - Len(s)) BY <1>5, <5>1, <5>3
          <6>2. r[m - Len(s)] = i BY <1>2, <5>1, <6>1
          <6> QED BY <3>2, <6>1, <6>2
        <5> QED BY <5>2, <5>3
      <4> HIDE DEF A, B
      <4> QED BY <4>1, <4>2, <4>3
    <3>4. Len(s) + j \notin A BY <1>1, <1>8, <3>1
    <3>5. Cardinality(A \cup {Len(s) + j}) = Cardinality(A) + 1 BY <1>3, <3>4, FS_AddElement
    <3> QED BY <2>2, <3>3, <3>5
  <2> QED BY <2>1, <2>2
<1>10. Times(s, i) = Cardinality(A) /\ Times(s \o r, i) = Cardinality(B) BY DEF Times
<1> QED BY <1>3, <1>4, <1>9, <1>10

-----------------------------------------------------------------------------
\* What the shop has stays.
LEMMA ShopStays ==
    ASSUME ListInv, UNCHANGED shop
    PROVE  /\ kind' = kind /\ still' = still /\ Places' = Places /\ Listed' = Listed
           /\ StillListed'
           /\ kind' \in Kinds /\ shelf' \subseteq Ids /\ found' \subseteq Ids /\ still' \subseteq shelf'
           /\ nextId' \in 1..(MaxId + 1) /\ stats' \in [1..MaxDay -> [Ids -> Nat]]
<1>1. UNCHANGED <<kind, shelf, nextId, stats, found, still>> BY DEF shop
<1>2. Places' = Places BY <1>1, PlacesStay
<1>3. Window' = Window BY <1>1, WindowIs
<1>4. Listed' = Listed BY <1>1, <1>3 DEF Listed
<1>5. StillListed' BY <1>1, <1>4 DEF ListInv, StillListed
<1> QED BY <1>1, <1>2, <1>4, <1>5 DEF ListInv, ListTypeOK

\* The invariant, when only the requests, the page and the cache have moved.
LEMMA RequestsMove ==
    ASSUME ListInv, UNCHANGED shop, stirs' \in 0..MaxStirs,
           mixedUp' \in BOOLEAN, cutShort' \in BOOLEAN, ListShape',
           \A v \in Visitors : ask'[v].pc \in {"idle", "asked"} <=> ask'[v].answer = NoPage,
           \A k \in 0..MaxId : cache'[k] # NoPage => Tells(cache'[k], still, Places),
           \A v \in Visitors : ask'[v].answer # NoPage => Tells(ask'[v].answer, still, Places),
           AnswersFit', AsksForMore', ShownSoFar'
    PROVE  ListInv'
<1>1. /\ kind' = kind /\ still' = still /\ Places' = Places /\ Listed' = Listed
      /\ StillListed'
      /\ kind' \in Kinds /\ shelf' \subseteq Ids /\ found' \subseteq Ids /\ still' \subseteq shelf'
      /\ nextId' \in 1..(MaxId + 1) /\ stats' \in [1..MaxDay -> [Ids -> Nat]]
  BY ShopStays
<1>2. PagesTell' BY <1>1 DEF PagesTell
<1>3. ListTypeOK' BY <1>1 DEF ListTypeOK, ListShape, AskSet
<1> QED BY <1>1, <1>2, <1>3 DEF ListInv

LEMMA AsksAre ==
    ASSUME ListInv
    PROVE  /\ "me" \in Visitors /\ "other" \in Visitors
           /\ \A v \in Visitors : v = "me" \/ v = "other"
           /\ \A v \in Visitors : /\ ask[v] \in AskSet
                                  /\ ask[v].pc \in {"idle", "asked"} <=> ask[v].answer = NoPage
                                  /\ ask[v].answer # NoPage =>
                                        ask[v].answer \in Pages /\ Tells(ask[v].answer, still, Places)
           /\ page \in [cursor : Cursors, shown : Seq(Ids), done : BOOLEAN]
           /\ cache \in [0..MaxId -> Pages \cup {NoPage}]
           /\ \A k \in 0..MaxId : cache[k] # NoPage => cache[k] \in Pages /\ Tells(cache[k], still, Places)
           /\ stirs \in 0..MaxStirs /\ mixedUp \in BOOLEAN /\ cutShort \in BOOLEAN
           /\ NoAsk \in AskSet /\ NoAsk.pc = "idle" /\ NoAsk.answer = NoPage
BY DEF ListInv, ListTypeOK, ListShape, PagesTell, Visitors, AskSet, NoAsk, Cursors

\* Nothing more has been shown.
LEMMA ShownStays ==
    ASSUME ListInv, UNCHANGED <<shop, page, cutShort>>, mixedUp => mixedUp'
    PROVE  ShownSoFar'
<1>1. still' = still /\ Places' = Places BY ShopStays
<1>2. page' = page /\ cutShort' = cutShort OBVIOUS
<1>3. ShownSoFar BY DEF ListInv
<1>4. \A i : Times(page.shown, i)' = Times(page.shown, i) BY <1>2 DEF Times
<1> QED BY <1>1, <1>2, <1>3, <1>4 DEF ShownSoFar

LEMMA StirCounts == ASSUME ListInv, Stir PROVE stirs' \in 0..MaxStirs
<1>1. stirs \in 0..MaxStirs /\ MaxStirs \in Nat BY ListingAssumption, AsksAre
<1> QED BY <1>1 DEF Stir

LEMMA ListStarts == ListInit => ListInv
<1> SUFFICES ASSUME ListInit PROVE ListInv OBVIOUS
<1>1. 1..FirstIds \subseteq Ids BY ListingAssumption DEF Ids
<1>2. stats \in [1..MaxDay -> [Ids -> Nat]] BY ListingAssumption DEF ListInit
<1>3. Listed \subseteq shelf BY DEF ListInit, Listed
<1>4. ask = [v \in Visitors |-> NoAsk] /\ NoAsk \in AskSet
  BY DEF ListInit, NoAsk, AskSet, Cursors
<1>5. \A v \in Visitors : ask[v].pc = "idle" /\ ask[v].answer = NoPage /\ ask[v].cursor = Start
  BY <1>4 DEF NoAsk
<1>6. page = [cursor |-> Start, shown |-> <<>>, done |-> FALSE]
      /\ page \in [cursor : Cursors, shown : Seq(Ids), done : BOOLEAN]
  BY DEF ListInit, Cursors
<1>7. cache = [k \in 0..MaxId |-> NoPage] BY DEF ListInit
<1>8. ListShape BY <1>4, <1>6, <1>7 DEF ListShape
<1>9. ListTypeOK
  <2>1. nextId \in 1..(MaxId + 1) BY ListingAssumption DEF ListInit
  <2>2. stirs \in 0..MaxStirs BY ListingAssumption DEF ListInit
  <2>3. page.cursor \in Cursors /\ page.shown \in Seq(Ids) /\ page.done \in BOOLEAN BY <1>6
  <2>4. DOMAIN cache = 0..MaxId /\ \A k \in 0..MaxId : cache[k] \in Pages \cup {NoPage} BY <1>7
  <2>5. \A v \in Visitors :
           /\ ask[v].pc \in {"idle", "asked", "hydrate", "store", "answered"}
           /\ ask[v].cursor \in Cursors
           /\ ask[v].answer \in Pages \cup {NoPage}
           /\ ask[v].pc \in {"idle", "asked"} <=> ask[v].answer = NoPage
    BY <1>5 DEF Cursors
  <2>6. /\ kind \in Kinds /\ shelf \subseteq Ids /\ found \subseteq Ids /\ still \subseteq shelf
        /\ mixedUp \in BOOLEAN /\ cutShort \in BOOLEAN
    BY <1>1, <1>3 DEF ListInit
  <2> QED BY <1>2, <2>1, <2>2, <2>3, <2>4, <2>5, <2>6 DEF ListTypeOK
<1>10. StillListed BY DEF StillListed, ListInit
<1>11. PagesTell /\ AnswersFit /\ AsksForMore BY <1>5, <1>7 DEF PagesTell, AnswersFit, AsksForMore, Visitors
<1>12. ShownSoFar
  <2>1. ~ page.done /\ page.cursor = Start /\ page.shown = <<>> BY <1>6
  <2>2. \A i : Times(<<>>, i) = 0
    <3>1. <<>> \in Seq(Ids) OBVIOUS
    <3> QED BY <3>1, TimesJoined
  <2>3. \A i : Before(Start, Places[i]) BY DEF Before
  <2> QED BY <2>1, <2>2, <2>3 DEF ShownSoFar
<1> QED BY <1>8, <1>9, <1>10, <1>11, <1>12 DEF ListInv

LEMMA ListLoad == ASSUME ListInv, LoadNext PROVE ListInv'
<1>1. /\ ask["me"].pc = "idle" /\ ~ page.done
      /\ ask' = [ask EXCEPT !["me"].pc = "asked", !["me"].cursor = page.cursor]
      /\ UNCHANGED <<shop, stirs, cache, page, mixedUp, cutShort>>
  BY DEF LoadNext
<1>2. ask["me"] \in AskSet /\ ask \in [Visitors -> AskSet] /\ page.cursor \in Cursors
      /\ ask["me"].answer = NoPage
  BY <1>1, AsksAre DEF ListInv, ListShape
<1>3. /\ ask' \in [Visitors -> AskSet] /\ ask'["other"] = ask["other"]
      /\ ask'["me"].pc = "asked" /\ ask'["me"].cursor = page.cursor /\ ask'["me"].answer = NoPage
  BY <1>1, <1>2 DEF AskSet, Visitors
<1>4. ListShape' BY <1>1, <1>3, AsksAre DEF ListShape
<1>5. \A v \in Visitors : ask'[v].pc \in {"idle", "asked"} <=> ask'[v].answer = NoPage
  BY <1>3, AsksAre
<1>6. \A v \in Visitors : ask'[v].answer # NoPage => Tells(ask'[v].answer, still, Places)
  BY <1>3, AsksAre
<1>7. AnswersFit' BY <1>1, <1>3, AsksAre DEF ListInv, AnswersFit
<1>8. AsksForMore' BY <1>1, <1>3 DEF AsksForMore
<1>9. ShownSoFar' BY <1>1, ShownStays
<1> QED BY <1>1, <1>4, <1>5, <1>6, <1>7, <1>8, <1>9, AsksAre, RequestsMove

LEMMA ListOtherAsks == ASSUME ListInv, OtherAsks PROVE ListInv'
<1>s. stirs' \in 0..MaxStirs BY StirCounts DEF OtherAsks
<1>0. /\ ask["other"].pc = "idle"
      /\ UNCHANGED <<shop, cache, page, mixedUp, cutShort>>
      /\ \E c \in {Start} \cup {Place(i) : i \in Listed} :
           ask' = [ask EXCEPT !["other"].pc = "asked", !["other"].cursor = c]
  BY DEF OtherAsks
<1>1. PICK c \in {Start} \cup {Place(i) : i \in Listed} :
           ask' = [ask EXCEPT !["other"].pc = "asked", !["other"].cursor = c]
  BY <1>0
<1>2. ask["other"] \in AskSet /\ ask \in [Visitors -> AskSet] /\ ask["other"].answer = NoPage
  BY <1>0, AsksAre DEF ListInv, ListShape
<1>c. c \in Cursors
  <2>1. Listed \subseteq Ids BY DEF ListInv, ListTypeOK, Listed
  <2> QED BY <2>1, PlacesArePairs DEF ListInv, Cursors
<1>3. /\ ask' \in [Visitors -> AskSet] /\ ask'["me"] = ask["me"]
      /\ ask'["other"].pc = "asked" /\ ask'["other"].answer = NoPage
  BY <1>1, <1>2, <1>c DEF AskSet, Visitors
<1>4. ListShape' BY <1>0, <1>3, AsksAre DEF ListShape
<1>5. \A v \in Visitors : ask'[v].pc \in {"idle", "asked"} <=> ask'[v].answer = NoPage
  BY <1>3, AsksAre
<1>6. \A v \in Visitors : ask'[v].answer # NoPage => Tells(ask'[v].answer, still, Places)
  BY <1>3, AsksAre
<1>7. AnswersFit' BY <1>0, <1>3, AsksAre DEF ListInv, AnswersFit
<1>8. AsksForMore' BY <1>0, <1>3 DEF ListInv, AsksForMore
<1>9. ShownSoFar' BY <1>0, ShownStays
<1> QED BY <1>s, <1>0, <1>4, <1>5, <1>6, <1>7, <1>8, <1>9, AsksAre, RequestsMove

\* One visitor's request, and its answer, have changed.
LEMMA AskMoves ==
    ASSUME ListInv, UNCHANGED <<shop, stirs, page, cutShort>>, mixedUp' \in BOOLEAN, mixedUp => mixedUp',
           NEW v \in Visitors, NEW a \in AskSet, ask' = [ask EXCEPT ![v] = a],
           cache' \in [0..MaxId -> Pages \cup {NoPage}],
           \A k \in 0..MaxId : cache'[k] # NoPage => Tells(cache'[k], still, Places),
           a.pc \in {"idle", "asked"} <=> a.answer = NoPage,
           a.answer # NoPage => Tells(a.answer, still, Places) /\ (~mixedUp' => a.answer.for = a.cursor),
           a.pc # "idle" => ask[v].pc # "idle" /\ a.cursor = ask[v].cursor
    PROVE  ListInv'
<1>1. ask \in [Visitors -> AskSet] BY DEF ListInv, ListShape
<1>2. ask' \in [Visitors -> AskSet] /\ ask'[v] = a /\ \A w \in Visitors : w # v => ask'[w] = ask[w]
  BY <1>1
<1>3. page' = page /\ stirs' = stirs /\ cutShort' = cutShort /\ UNCHANGED shop OBVIOUS
<1>4. ListShape' BY <1>2, <1>3, AsksAre DEF ListShape
<1>5. \A w \in Visitors : ask'[w].pc \in {"idle", "asked"} <=> ask'[w].answer = NoPage
  BY <1>2, AsksAre
<1>6. \A w \in Visitors : ask'[w].answer # NoPage => Tells(ask'[w].answer, still, Places)
  BY <1>2, AsksAre
<1>7. AnswersFit' BY <1>2 DEF ListInv, AnswersFit
<1>8. AsksForMore'
  <2>1. AsksForMore BY DEF ListInv
  <2>2. CASE v = "me" BY <1>2, <1>3, <2>1, <2>2 DEF AsksForMore
  <2>3. CASE v # "me" BY <1>2, <1>3, <2>1, <2>3, AsksAre DEF AsksForMore
  <2> QED BY <2>2, <2>3
<1>9. ShownSoFar' BY <1>3, ShownStays
<1>10. stirs' \in 0..MaxStirs /\ cutShort' \in BOOLEAN BY <1>3, AsksAre
<1> QED BY <1>3, <1>4, <1>5, <1>6, <1>7, <1>8, <1>9, <1>10, RequestsMove

LEMMA KeysAre == \A c \in Cursors : KeyOf(c) \in 0..MaxId
BY ListingAssumption DEF KeyOf, Cursors, Ids

LEMMA ListHit == ASSUME ListInv, NEW v \in Visitors, Hit(v) PROVE ListInv'
<1> DEFINE p == cache[KeyOf(ask[v].cursor)]
           a == [ask[v] EXCEPT !.pc = "answered", !.answer = p]
<1>1. /\ ask[v].pc = "asked" /\ p # NoPage
      /\ ask' = [ask EXCEPT ![v].pc = "answered", ![v].answer = p]
      /\ mixedUp' = (mixedUp \/ p.for # ask[v].cursor)
      /\ UNCHANGED <<shop, stirs, cache, page, cutShort>>
  BY DEF Hit
<1>2. ask[v] \in AskSet /\ ask \in [Visitors -> AskSet] BY AsksAre DEF ListInv, ListShape
<1>3. KeyOf(ask[v].cursor) \in 0..MaxId BY <1>2, KeysAre DEF AskSet
<1>4. p \in Pages /\ Tells(p, still, Places) BY <1>1, <1>3, AsksAre
<1> HIDE DEF p
<1>5. /\ a \in AskSet /\ a.pc = "answered" /\ a.answer = p /\ a.cursor = ask[v].cursor
      /\ ask' = [ask EXCEPT ![v] = a]
  BY <1>1, <1>2, <1>4 DEF AskSet
<1> HIDE DEF a
<1>6. cache' \in [0..MaxId -> Pages \cup {NoPage}] /\ \A k \in 0..MaxId : cache'[k] # NoPage => Tells(cache'[k], still, Places)
  BY <1>1, AsksAre
<1>7. mixedUp' \in BOOLEAN /\ (mixedUp => mixedUp') /\ (~ mixedUp' => p.for = ask[v].cursor) BY <1>1, AsksAre
<1>8. a.pc \in {"idle", "asked"} <=> a.answer = NoPage BY <1>1, <1>5
<1> QED BY <1>1, <1>4, <1>5, <1>6, <1>7, <1>8, AskMoves

LEMMA ListMake == ASSUME ListInv, NEW v \in Visitors, MakePage(v) PROVE ListInv'
<1> DEFINE p == PageAfter(ask[v].cursor)
           pc == CASE kind = "search" -> "hydrate"
                   [] kind \in Cached -> "store"
                   [] OTHER -> "answered"
           a == [ask[v] EXCEPT !.answer = p, !.pc = pc]
<1>1. /\ ask[v].pc = "asked"
      /\ ask' = [ask EXCEPT ![v].answer = p, ![v].pc = pc]
      /\ UNCHANGED <<shop, stirs, cache, page, mixedUp, cutShort>>
  BY DEF MakePage
<1>2. ask[v] \in AskSet /\ ask \in [Visitors -> AskSet] BY AsksAre DEF ListInv, ListShape
<1>3. ask[v].cursor \in Cursors /\ ListTypeOK /\ still \subseteq Listed
  BY <1>2 DEF AskSet, ListInv, StillListed
<1>4. p \in Pages /\ p.for = ask[v].cursor /\ Tells(p, Listed, Places) BY <1>3, PageIsTrue
<1>5. Tells(p, still, Places) BY <1>3, <1>4, TellsFewer
<1>6. pc \in {"hydrate", "store", "answered"} OBVIOUS
<1> HIDE DEF p, pc
<1>7. /\ a \in AskSet /\ a.pc = pc /\ a.answer = p /\ a.cursor = ask[v].cursor
      /\ ask' = [ask EXCEPT ![v] = a]
  BY <1>1, <1>2, <1>4, <1>6 DEF AskSet
<1> HIDE DEF a
<1>8. p # NoPage BY <1>4, ListingAssumption
<1>9. cache' \in [0..MaxId -> Pages \cup {NoPage}] /\ \A k \in 0..MaxId : cache'[k] # NoPage => Tells(cache'[k], still, Places)
  BY <1>1, AsksAre
<1>10. a.pc \in {"idle", "asked"} <=> a.answer = NoPage BY <1>6, <1>7, <1>8
<1>11. mixedUp' \in BOOLEAN /\ (mixedUp => mixedUp') BY <1>1, AsksAre
<1>12. UNCHANGED <<shop, stirs, page, cutShort>> BY <1>1
<1>13. a.answer # NoPage => Tells(a.answer, still, Places) /\ (~mixedUp' => a.answer.for = a.cursor)
  BY <1>4, <1>5, <1>7
<1>14. a.pc # "idle" => ask[v].pc # "idle" /\ a.cursor = ask[v].cursor BY <1>1, <1>7
<1> QED BY <1>7, <1>9, <1>10, <1>11, <1>12, <1>13, <1>14, AskMoves

LEMMA ListHydrate == ASSUME ListInv, NEW v \in Visitors, Hydrate(v) PROVE ListInv'
<1> DEFINE q == ask[v].answer
           p == [q EXCEPT !.items = Among(q.items, shelf)]
           a == [ask[v] EXCEPT !.pc = "answered", !.answer = p]
<1>1. /\ ask[v].pc = "hydrate"
      /\ ask' = [ask EXCEPT ![v].pc = "answered", ![v].answer.items = Among(@, shelf)]
      /\ UNCHANGED <<shop, stirs, cache, page, mixedUp, cutShort>>
  BY DEF Hydrate
<1>2. ask[v] \in AskSet /\ ask \in [Visitors -> AskSet] BY AsksAre DEF ListInv, ListShape
<1>3. q # NoPage BY <1>1, AsksAre
<1>4. q \in Pages /\ Tells(q, still, Places) BY <1>3, AsksAre
<1>k. q.items \in Seq(Ids) BY <1>4 DEF Pages
<1>5. Among(q.items, shelf) \in Seq(Ids) /\ ToSet(Among(q.items, shelf)) = ToSet(q.items) \cap shelf
  BY <1>k, Kept
<1>d. Distinct(q.items) => Distinct(Among(q.items, shelf)) BY <1>k, Kept
<1>x. ask' = [ask EXCEPT ![v] = a] BY <1>1, <1>2, <1>4 DEF AskSet, Pages
<1> HIDE DEF q
<1>6. /\ p \in Pages /\ p.for = q.for /\ p.more = q.more /\ p.next = q.next
      /\ p.items = Among(q.items, shelf)
  BY <1>4, <1>5 DEF Pages
<1> HIDE DEF p
<1>7. still \subseteq shelf BY DEF ListInv, ListTypeOK
<1>8. Tells(p, still, Places) BY <1>4, <1>5, <1>d, <1>6, <1>7 DEF Tells
<1>9. a \in AskSet /\ a.pc = "answered" /\ a.answer = p /\ a.cursor = ask[v].cursor
  BY <1>2, <1>6 DEF AskSet
<1> HIDE DEF a
<1>10. p # NoPage BY <1>6, ListingAssumption
<1>11. cache' \in [0..MaxId -> Pages \cup {NoPage}] /\ \A k \in 0..MaxId : cache'[k] # NoPage => Tells(cache'[k], still, Places)
  BY <1>1, AsksAre
<1>12. a.pc \in {"idle", "asked"} <=> a.answer = NoPage BY <1>9, <1>10
<1>13. mixedUp' = mixedUp /\ mixedUp' \in BOOLEAN /\ (mixedUp => mixedUp') BY <1>1, AsksAre
<1>14. ~ mixedUp' => p.for = ask[v].cursor BY <1>3, <1>6, <1>13 DEF q, ListInv, AnswersFit
<1>15. UNCHANGED <<shop, stirs, page, cutShort>> BY <1>1
<1>16. a.answer # NoPage => Tells(a.answer, still, Places) /\ (~mixedUp' => a.answer.for = a.cursor)
  BY <1>8, <1>9, <1>14
<1>17. a.pc # "idle" => ask[v].pc # "idle" /\ a.cursor = ask[v].cursor BY <1>1, <1>9
<1> QED BY <1>9, <1>x, <1>11, <1>12, <1>13, <1>15, <1>16, <1>17, AskMoves

LEMMA ListStore == ASSUME ListInv, NEW v \in Visitors, StorePage(v) PROVE ListInv'
<1> DEFINE a == [ask[v] EXCEPT !.pc = "answered"]
           k == KeyOf(ask[v].cursor)
<1>1. /\ ask[v].pc = "store"
      /\ cache' = [cache EXCEPT ![k] = ask[v].answer]
      /\ ask' = [ask EXCEPT ![v].pc = "answered"]
      /\ UNCHANGED <<shop, stirs, page, mixedUp, cutShort>>
  BY DEF StorePage
<1>2. ask[v] \in AskSet /\ ask \in [Visitors -> AskSet] BY AsksAre DEF ListInv, ListShape
<1>3. k \in 0..MaxId BY <1>2, KeysAre DEF AskSet
<1>4. ask[v].answer # NoPage BY <1>1, AsksAre
<1>5. ask[v].answer \in Pages /\ Tells(ask[v].answer, still, Places) BY <1>4, AsksAre
<1>6. /\ a \in AskSet /\ a.pc = "answered" /\ a.answer = ask[v].answer /\ a.cursor = ask[v].cursor
      /\ ask' = [ask EXCEPT ![v] = a]
  BY <1>1, <1>2 DEF AskSet
<1> HIDE DEF a, k
<1>7. cache \in [0..MaxId -> Pages \cup {NoPage}] BY AsksAre
<1>8. cache' \in [0..MaxId -> Pages \cup {NoPage}] /\ \A l \in 0..MaxId : cache'[l] # NoPage => Tells(cache'[l], still, Places)
  BY <1>1, <1>3, <1>5, <1>7, AsksAre
<1>9. a.pc \in {"idle", "asked"} <=> a.answer = NoPage BY <1>4, <1>6
<1>10. mixedUp' = mixedUp /\ mixedUp' \in BOOLEAN /\ (mixedUp => mixedUp') BY <1>1, AsksAre
<1>11. ~ mixedUp' => a.answer.for = a.cursor BY <1>4, <1>6, <1>10 DEF ListInv, AnswersFit
<1>12. UNCHANGED <<shop, stirs, page, cutShort>> BY <1>1
<1>13. a.answer # NoPage => Tells(a.answer, still, Places) /\ (~mixedUp' => a.answer.for = a.cursor)
  BY <1>5, <1>6, <1>11
<1>14. a.pc # "idle" => ask[v].pc # "idle" /\ a.cursor = ask[v].cursor BY <1>1, <1>6
<1> QED BY <1>6, <1>8, <1>9, <1>10, <1>12, <1>13, <1>14, AskMoves

LEMMA ListQuit ==
    ASSUME ListInv, NEW v \in Visitors, ask[v].pc # "idle", ask' = [ask EXCEPT ![v] = NoAsk],
           UNCHANGED <<shop, stirs, cache, page, mixedUp, cutShort>>
    PROVE  ListInv'
<1>1. NoAsk \in AskSet /\ NoAsk.pc = "idle" /\ NoAsk.answer = NoPage BY AsksAre
<1>2. cache' \in [0..MaxId -> Pages \cup {NoPage}] /\ \A l \in 0..MaxId : cache'[l] # NoPage => Tells(cache'[l], still, Places)
  BY AsksAre
<1>3. mixedUp' \in BOOLEAN /\ (mixedUp => mixedUp') /\ UNCHANGED <<shop, stirs, page, cutShort>> BY AsksAre
<1>4. NoAsk.pc \in {"idle", "asked"} <=> NoAsk.answer = NoPage BY <1>1
<1> HIDE DEF NoAsk
<1> QED BY <1>1, <1>2, <1>3, <1>4, AskMoves

LEMMA ListRender == ASSUME ListInv, Render PROVE ListInv'
<1> DEFINE p == ask["me"].answer
<1>1. /\ ask["me"].pc = "answered"
      /\ page' = [cursor |-> p.next, shown |-> page.shown \o p.items,
                  done |-> ~p.more \/ p.items = <<>>]
      /\ cutShort' = (cutShort \/ (p.more /\ p.items = <<>>))
      /\ ask' = [ask EXCEPT !["me"] = NoAsk]
      /\ UNCHANGED <<shop, stirs, cache, mixedUp>>
  BY DEF Render
<1>2. ask \in [Visitors -> AskSet] /\ p # NoPage BY <1>1, AsksAre DEF ListInv, ListShape
<1>3. p \in Pages /\ Tells(p, still, Places) BY <1>2, AsksAre
<1>4. ~ page.done /\ ask["me"].cursor = page.cursor BY <1>1 DEF ListInv, AsksForMore
<1>5. ~ mixedUp => p.for = page.cursor BY <1>2, <1>4, AsksAre DEF ListInv, AnswersFit
<1> HIDE DEF p
<1>6. p.items \in Seq(Ids) /\ p.next \in Cursors /\ p.more \in BOOLEAN BY <1>3 DEF Pages
<1>7. page.shown \in Seq(Ids) /\ page.shown \o p.items \in Seq(Ids) BY <1>6, AsksAre
<1>8. /\ page' \in [cursor : Cursors, shown : Seq(Ids), done : BOOLEAN]
      /\ page'.cursor = p.next /\ page'.shown = page.shown \o p.items
      /\ page'.done = (~p.more \/ p.items = <<>>)
  BY <1>1, <1>6, <1>7
<1>9. /\ ask' \in [Visitors -> AskSet] /\ ask'["me"] = NoAsk /\ ask'["other"] = ask["other"]
  BY <1>1, <1>2, AsksAre
<1>10. ListShape' BY <1>1, <1>8, <1>9, AsksAre DEF ListShape
<1>11. \A v \in Visitors : ask'[v].pc \in {"idle", "asked"} <=> ask'[v].answer = NoPage
  BY <1>9, AsksAre
<1>12. \A v \in Visitors : ask'[v].answer # NoPage => Tells(ask'[v].answer, still, Places)
  BY <1>9, AsksAre
<1>13. AnswersFit' BY <1>1, <1>9, AsksAre DEF ListInv, AnswersFit
<1>14. AsksForMore' BY <1>9, AsksAre DEF AsksForMore
<1>15. still' = still /\ Places' = Places BY <1>1, ShopStays
<1>16. ASSUME ~ mixedUp, NEW i \in still
       PROVE  /\ ~page'.done => Times(page'.shown, i) = IF Before(page'.cursor, Places[i]) THEN 0 ELSE 1
              /\ page'.done => /\ Times(page'.shown, i) <= 1
                               /\ ~cutShort' => Times(page'.shown, i) = 1
  <2>1. Times(page.shown, i) = IF Before(page.cursor, Places[i]) THEN 0 ELSE 1
    BY <1>4, <1>16 DEF ListInv, ShownSoFar
  <2>2. Distinct(p.items) BY <1>3 DEF Tells
  <2>3. Times(page'.shown, i) = Times(page.shown, i) + (IF i \in ToSet(p.items) THEN 1 ELSE 0)
    BY <1>6, <1>7, <1>8, <2>2, TimesJoined
  <2>4. /\ i \in ToSet(p.items) <=> Before(page.cursor, Places[i]) /\ (p.more => ~ Before(p.next, Places[i]))
        /\ p.more /\ Before(p.next, Places[i]) => Before(page.cursor, Places[i])
    BY <1>3, <1>5, <1>16 DEF Tells
  <2>5. CASE p.more /\ Before(p.next, Places[i])
    <3>1. Times(page'.shown, i) = 0 BY <2>1, <2>3, <2>4, <2>5
    <3>2. page'.done => cutShort' BY <1>1, <1>8, <2>5
    <3> QED BY <1>8, <2>5, <3>1, <3>2
  <2>6. CASE ~ (p.more /\ Before(p.next, Places[i]))
    <3>1. Times(page'.shown, i) = 1
      <4>1. CASE Before(page.cursor, Places[i]) BY <2>1, <2>3, <2>4, <2>6, <4>1
      <4>2. CASE ~ Before(page.cursor, Places[i]) BY <2>1, <2>3, <2>4, <2>6, <4>2
      <4> QED BY <4>1, <4>2
    <3>2. ~ page'.done => ~ Before(page'.cursor, Places[i]) BY <1>8, <2>6
    <3> QED BY <3>1, <3>2
  <2> QED BY <2>5, <2>6
<1>17. ShownSoFar' BY <1>1, <1>15, <1>16 DEF ShownSoFar
<1>18. mixedUp' \in BOOLEAN /\ cutShort' \in BOOLEAN /\ stirs' \in 0..MaxStirs BY <1>1, AsksAre
<1>19. \A k \in 0..MaxId : cache'[k] # NoPage => Tells(cache'[k], still, Places) BY <1>1, AsksAre
<1>20. UNCHANGED shop BY <1>1
<1> QED BY <1>10, <1>11, <1>12, <1>13, <1>14, <1>17, <1>18, <1>19, <1>20, RequestsMove

LEMMA ListExpire == ASSUME ListInv, NEW k \in 0..MaxId, ExpirePage(k) PROVE ListInv'
<1>1. stirs' \in 0..MaxStirs BY StirCounts DEF ExpirePage
<1>2. cache' = [cache EXCEPT ![k] = NoPage] /\ UNCHANGED <<shop, page, ask, mixedUp, cutShort>>
  BY DEF ExpirePage
<1>3. /\ cache' \in [0..MaxId -> Pages \cup {NoPage}]
      /\ \A l \in 0..MaxId : cache'[l] # NoPage => Tells(cache'[l], still, Places)
  BY <1>2, AsksAre
<1>4. ListShape' BY <1>2, <1>3 DEF ListInv, ListShape
<1>5. AnswersFit' /\ AsksForMore' BY <1>2 DEF ListInv, AnswersFit, AsksForMore
<1>6. ShownSoFar' BY <1>2, ShownStays
<1>7. mixedUp' \in BOOLEAN /\ cutShort' \in BOOLEAN /\ UNCHANGED shop BY <1>2, AsksAre
<1>8. \A v \in Visitors : ask'[v].pc \in {"idle", "asked"} <=> ask'[v].answer = NoPage BY <1>2, AsksAre
<1>9. \A v \in Visitors : ask'[v].answer # NoPage => Tells(ask'[v].answer, still, Places) BY <1>2, AsksAre
<1> QED BY <1>1, <1>3, <1>4, <1>5, <1>6, <1>7, <1>8, <1>9, RequestsMove

\* The invariant, when only the books have moved.
LEMMA BooksMove ==
    ASSUME ListInv, ListTypeOK', UNCHANGED <<cache, page, ask, mixedUp, cutShort>>,
           still' \subseteq still, still' \subseteq Listed', \A i \in still' : Places'[i] = Places[i]
    PROVE  ListInv'
<1>1. /\ cache' = cache /\ page' = page /\ ask' = ask /\ mixedUp' = mixedUp /\ cutShort' = cutShort
  OBVIOUS
<1>2. ListShape' /\ AnswersFit' /\ AsksForMore' BY <1>1 DEF ListInv, ListShape, AnswersFit, AsksForMore
<1>3. StillListed' BY DEF StillListed
<1>4. PagesTell'
  <2>1. PagesTell BY DEF ListInv
  <2>2. \A k \in 0..MaxId : cache[k] # NoPage => Tells(cache[k], still', Places')
    BY <2>1, TellsFewer DEF PagesTell
  <2>3. \A v \in Visitors : ask[v].answer # NoPage => Tells(ask[v].answer, still', Places')
    BY <2>1, TellsFewer DEF PagesTell
  <2> QED BY <1>1, <2>2, <2>3 DEF PagesTell
<1>5. ShownSoFar'
  <2>1. ShownSoFar BY DEF ListInv
  <2> QED BY <1>1, <2>1 DEF ShownSoFar
<1> QED BY <1>2, <1>3, <1>4, <1>5 DEF ListInv

LEMMA ListAdd == ASSUME ListInv, AddBook PROVE ListInv'
<1>1. stirs' \in 0..MaxStirs BY StirCounts DEF AddBook
<1>2. /\ nextId <= MaxId /\ shelf' = shelf \cup {nextId} /\ nextId' = nextId + 1
      /\ UNCHANGED <<kind, stats, found, still, cache, page, ask, mixedUp, cutShort>>
  BY DEF AddBook
<1>3. nextId \in 1..(MaxId + 1) /\ MaxId \in Nat BY ListingAssumption DEF ListInv, ListTypeOK
<1>4. nextId \in Ids /\ nextId' \in 1..(MaxId + 1) BY <1>2, <1>3 DEF Ids
<1>5. ListTypeOK' BY <1>1, <1>2, <1>4 DEF ListInv, ListTypeOK
<1>6. Places' = Places BY <1>2, PlacesStay
<1>7. Window' = Window BY <1>2, WindowIs
<1>8. still' \subseteq Listed' BY <1>2, <1>7 DEF ListInv, StillListed, Listed
<1> QED BY <1>2, <1>5, <1>6, <1>8, BooksMove

LEMMA ListRemove == ASSUME ListInv, NEW i \in Ids, RemoveBook(i) PROVE ListInv'
<1>1. stirs' \in 0..MaxStirs BY StirCounts DEF RemoveBook
<1>2. /\ shelf' = shelf \ {i} /\ still' = still \ {i}
      /\ UNCHANGED <<kind, nextId, stats, found, cache, page, ask, mixedUp, cutShort>>
  BY DEF RemoveBook
<1>5. ListTypeOK' BY <1>1, <1>2 DEF ListInv, ListTypeOK
<1>6. Places' = Places BY <1>2, PlacesStay
<1>7. Window' = Window BY <1>2, WindowIs
<1>8. still' \subseteq Listed' BY <1>2, <1>7 DEF ListInv, StillListed, Listed
<1> QED BY <1>2, <1>5, <1>6, <1>8, BooksMove

LEMMA ListSync == ASSUME ListInv, SyncSearch PROVE ListInv'
<1>1. stirs' \in 0..MaxStirs BY StirCounts DEF SyncSearch
<1>2. /\ kind = "search" /\ found' = shelf
      /\ UNCHANGED <<kind, shelf, nextId, stats, still, cache, page, ask, mixedUp, cutShort>>
  BY DEF SyncSearch
<1>5. ListTypeOK' BY <1>1, <1>2 DEF ListInv, ListTypeOK
<1>6. Places' = Places BY <1>2, PlacesStay
<1>8. still' \subseteq Listed' BY <1>2 DEF ListInv, ListTypeOK, Listed
<1> QED BY <1>2, <1>5, <1>6, <1>8, BooksMove

LEMMA ListPopularity == ASSUME ListInv, NEW d \in 1..MaxDay, UpdatePopularity(d) PROVE ListInv'
<1>1. stirs' \in 0..MaxStirs BY StirCounts DEF UpdatePopularity
<1>2. /\ kind = "popular"
      /\ still' = {i \in still : Score(i) = Score(i)'}
      /\ UNCHANGED <<kind, shelf, nextId, found, cache, page, ask, mixedUp, cutShort>>
  BY DEF UpdatePopularity
<1>3. PICK a \in Activity :
         stats' = [stats EXCEPT ![d] = [i \in Ids |-> IF i \in shelf /\ a[i] > 0 THEN a[i] ELSE @[i]]]
  BY DEF UpdatePopularity
<1>4. stats \in [1..MaxDay -> [Ids -> Nat]] BY DEF ListInv, ListTypeOK
<1>5. stats' \in [1..MaxDay -> [Ids -> Nat]]
  <2>1. a \in [Ids -> Nat] BY ListingAssumption
  <2>2. [i \in Ids |-> IF i \in shelf /\ a[i] > 0 THEN a[i] ELSE stats[d][i]] \in [Ids -> Nat]
    BY <1>4, <2>1
  <2> QED BY <1>3, <1>4, <2>2
<1>6. ListTypeOK' BY <1>1, <1>2, <1>5 DEF ListInv, ListTypeOK
<1>7. \A i \in still' : Score(i)' = Score(i) /\ i \in still /\ i \in shelf /\ i \in Ids
  BY <1>2 DEF ListInv, ListTypeOK
<1>8. \A i \in still' : Place(i)' = Place(i) BY <1>2, <1>7 DEF Place
<1>9. \A i \in still' : Places'[i] = Places[i] BY <1>7, <1>8 DEF Places
<1>10. still' \subseteq Listed'
  <2> SUFFICES ASSUME NEW i \in still' PROVE i \in Listed' OBVIOUS
  <2>1. \E e \in Window : stats[e][i] > 0 BY <1>2, <1>7 DEF ListInv, StillListed, Listed
  <2>2. ScoreOf(stats, i) > 0 BY <1>4, <1>7, <2>1, ScoreAdds, WindowIs
  <2>3. ScoreOf(stats', i) = ScoreOf(stats, i) BY <1>7, ScoreIs, ScoreIsNext
  <2>4. PICK q : q = stats' OBVIOUS
  <2>5. \E e \in WindowOf(q) : q[e][i] > 0 BY <1>5, <1>7, <2>2, <2>3, <2>4, ScoreAdds
  <2> QED BY <1>2, <1>7, <2>4, <2>5, WindowIs DEF Listed
<1> QED BY <1>2, <1>6, <1>7, <1>9, <1>10, BooksMove

LEMMA ListSteps == ListInv /\ [ListNext]_listVars => ListInv'
<1> SUFFICES ASSUME ListInv, [ListNext]_listVars PROVE ListInv' OBVIOUS
<1>1. CASE LoadNext BY <1>1, ListLoad
<1>2. CASE OtherAsks BY <1>2, ListOtherAsks
<1>3. CASE Render BY <1>3, ListRender
<1>4. CASE OtherRenders
  <2>1. "other" \in Visitors /\ ask["other"].pc # "idle" BY <1>4 DEF OtherRenders, Visitors
  <2> QED BY <1>4, <2>1, ListQuit DEF OtherRenders
<1>5. ASSUME NEW v \in Visitors, Hit(v) PROVE ListInv' BY <1>5, ListHit
<1>6. ASSUME NEW v \in Visitors, MakePage(v) PROVE ListInv' BY <1>6, ListMake
<1>7. ASSUME NEW v \in Visitors, Hydrate(v) PROVE ListInv' BY <1>7, ListHydrate
<1>8. ASSUME NEW v \in Visitors, StorePage(v) PROVE ListInv' BY <1>8, ListStore
<1>9. ASSUME NEW v \in Visitors, RequestFails(v) PROVE ListInv' BY <1>9, ListQuit DEF RequestFails
<1>10. ASSUME NEW k \in 0..MaxId, ExpirePage(k) PROVE ListInv' BY <1>10, ListExpire
<1>11. CASE AddBook BY <1>11, ListAdd
<1>12. CASE SyncSearch BY <1>12, ListSync
<1>13. ASSUME NEW i \in Ids, RemoveBook(i) PROVE ListInv' BY <1>13, ListRemove
<1>14. ASSUME NEW d \in 1..MaxDay, UpdatePopularity(d) PROVE ListInv' BY <1>14, ListPopularity
<1>15. CASE UNCHANGED listVars
  <2>1. UNCHANGED <<shop, stirs, cache, page, ask, mixedUp, cutShort>> BY <1>15 DEF listVars, shop
  <2>2. Places' = Places /\ Listed' = Listed /\ still' = still BY <2>1, ShopStays
  <2>3. ListTypeOK' BY <1>15 DEF listVars, ListInv, ListTypeOK
  <2>4. still' \subseteq Listed' BY <2>2 DEF ListInv, StillListed
  <2> QED BY <2>1, <2>2, <2>3, <2>4, BooksMove
<1> QED BY <1>1, <1>2, <1>3, <1>4, <1>5, <1>6, <1>7, <1>8, <1>9, <1>10, <1>11, <1>12, <1>13, <1>14, <1>15
        DEF ListNext

LEMMA ListAlways == ListSpec => []ListInv
<1>1. ListInit => ListInv BY ListStarts
<1>2. ListInv /\ [ListNext]_listVars => ListInv' BY ListSteps
<1> QED BY <1>1, <1>2, PTL DEF ListSpec

\* The list and its pages have the types the code gives them.
THEOREM ListTypeCorrect == ListSpec => []ListTypeOK
<1>1. ListInv => ListTypeOK BY DEF ListInv
<1> QED BY <1>1, ListAlways, PTL

\* A book that keeps its place is shown once by a list that is scrolled to its end,
\* whatever the cache, other visitors, errors and changes of the catalogue do.
THEOREM EveryBookIsShownOnce == ListSpec => []ListedOnce
<1>1. ListInv => ListedOnce
  <2> SUFFICES ASSUME ListInv, ~ mixedUp, NEW i \in still
               PROVE  /\ TimesShown(i) <= 1
                      /\ page.done /\ ~cutShort => TimesShown(i) = 1
    BY DEF ListedOnce
  <2>1. TimesShown(i) = Times(page.shown, i) BY DEF TimesShown, Times
  <2>2. page.done \in BOOLEAN BY DEF ListInv, ListTypeOK
  <2>3. ShownSoFar BY DEF ListInv
  <2>4. CASE page.done BY <2>1, <2>3, <2>4 DEF ShownSoFar
  <2>5. CASE ~ page.done BY <2>1, <2>3, <2>5 DEF ShownSoFar
  <2> QED BY <2>4, <2>5
<1> QED BY <1>1, ListAlways, PTL

-----------------------------------------------------------------------------
(* The algorithms of the feed *)

LEMMA BooksFinite == \A S \in SUBSET Books : IsFiniteSet(S) /\ Cardinality(S) \in Nat
BY SamplingAssumption, FS_Subset, FS_CardinalityType

\* A weighted sample consists of items, none twice, not more than asked for.
LEMMA Sampled ==
    ASSUME NEW E, NEW items \in Seq(E), IsFiniteSet(ToSet(items)), Distinct(items), NEW heavy,
           NEW limit \in Nat, NEW p \in WeightedSamples(items, heavy, limit)
    PROVE  p \in Seq(E) /\ Distinct(p) /\ ToSet(p) \subseteq ToSet(items) /\ Len(p) <= limit
<1> DEFINE drawable == IF ToSet(items) \cap heavy = {} THEN ToSet(items)
                                                      ELSE ToSet(items) \cap heavy
           draws == {d \in SetToAllKPermutations(drawable) : Len(d) \in 1..limit}
<1>1. CASE items = <<>>
  <2>1. p = <<>> BY <1>1 DEF WeightedSamples
  <2>2. Len(<<>>) = 0 /\ ToSet(<<>>) = {} BY DEF ToSet
  <2>3. Distinct(<<>>) BY <2>2 DEF Distinct
  <2> QED BY <2>1, <2>2, <2>3
<1>2. CASE items # <<>>
  <2>1. PICK d \in draws : p = Upto(d \o Without(items, ToSet(d)), limit)
    BY <1>2 DEF WeightedSamples
  <2>2. PICK s \in SUBSET drawable : d \in SetToSeqs(s) BY DEF SetToAllKPermutations
  <2>3. drawable \subseteq ToSet(items) /\ ToSet(items) \subseteq E BY Elements
  <2>4. IsFiniteSet(s) /\ s \subseteq ToSet(items) /\ s \subseteq E BY <2>2, <2>3, FS_Subset
  <2> HIDE DEF drawable, draws
  <2>5. /\ d \in [1..Cardinality(s) -> s] /\ Cardinality(s) \in Nat
        /\ \A i, j \in 1..Cardinality(s) : i # j => d[i] # d[j]
    BY <2>2, <2>4, FS_CardinalityType DEF SetToSeqs
  <2>6. d \in Seq(s) /\ Len(d) = Cardinality(s) BY <2>5
  <2>7. d \in Seq(E) /\ Distinct(d) /\ ToSet(d) \subseteq ToSet(items)
    <3>1. d \in Seq(E) BY <2>4, <2>6
    <3>2. Distinct(d) BY <2>5, <2>6 DEF Distinct
    <3>3. ToSet(d) \subseteq s BY <2>6, Elements
    <3> QED BY <2>4, <3>1, <3>2, <3>3
  <2> DEFINE rest == Without(items, ToSet(d))
  <2>8. rest \in Seq(E) /\ ToSet(rest) = ToSet(items) \ ToSet(d) BY Rest
  <2>9. Distinct(rest) BY Rest
  <2> HIDE DEF rest
  <2>10. d \o rest \in Seq(E) /\ ToSet(d \o rest) = ToSet(d) \cup ToSet(rest) BY <2>7, <2>8, Joined
  <2>11. Distinct(d \o rest) BY <2>7, <2>8, <2>9, JoinedOnce
  <2>12. /\ p \in Seq(E) /\ Len(p) = (IF limit <= Len(d \o rest) THEN limit ELSE Len(d \o rest))
         /\ ToSet(p) \subseteq ToSet(d \o rest)
    BY <2>1, <2>10, FirstOf DEF rest
  <2>13. Distinct(p) BY <2>1, <2>10, <2>11, FirstOf DEF rest
  <2>14. Len(d \o rest) \in Nat BY <2>10
  <2>15. Len(p) <= limit BY <2>12, <2>14
  <2> QED BY <2>7, <2>8, <2>10, <2>12, <2>13, <2>15
<1> QED BY <1>1, <1>2

\* No category and no author is there more often than its cap allows.
WithinCaps(S) ==
    /\ \A c : c # None => Cardinality({b \in S : Category[b] = c}) <= CategoryCap
    /\ \A c : c # None => Cardinality({b \in S : Author[b] = c}) <= AuthorCap

LEMMA CapsGrow ==
    ASSUME NEW S \in SUBSET Books, NEW x \in Books, x \notin S, WithinCaps(S), FitsCaps(S, x)
    PROVE  WithinCaps(S \cup {x})
<1> DEFINE U == S \cup {x}
<1>1. CategoryCap \in Nat /\ AuthorCap \in Nat BY SamplingAssumption
<1>2. ASSUME NEW c, c # None PROVE Cardinality({b \in U : Category[b] = c}) <= CategoryCap
  <2> DEFINE A == {b \in S : Category[b] = c}
  <2>1. A \in SUBSET Books /\ IsFiniteSet(A) /\ Cardinality(A) \in Nat /\ x \notin A BY BooksFinite
  <2>2. Cardinality(A) <= CategoryCap BY <1>2 DEF WithinCaps
  <2>3. CASE Category[x] = c
    <3>1. Cardinality(A) < CategoryCap BY <1>2, <2>3 DEF FitsCaps
    <3>2. {b \in U : Category[b] = c} = A \cup {x} BY <2>3
    <3> HIDE DEF A
    <3>3. Cardinality(A \cup {x}) = Cardinality(A) + 1 BY <2>1, FS_AddElement
    <3> QED BY <1>1, <2>1, <3>1, <3>2, <3>3
  <2>4. CASE Category[x] # c
    <3>1. {b \in U : Category[b] = c} = A BY <2>4
    <3> QED BY <2>2, <3>1
  <2> QED BY <2>3, <2>4
<1>3. ASSUME NEW c, c # None PROVE Cardinality({b \in U : Author[b] = c}) <= AuthorCap
  <2> DEFINE A == {b \in S : Author[b] = c}
  <2>1. A \in SUBSET Books /\ IsFiniteSet(A) /\ Cardinality(A) \in Nat /\ x \notin A BY BooksFinite
  <2>2. Cardinality(A) <= AuthorCap BY <1>3 DEF WithinCaps
  <2>3. CASE Author[x] = c
    <3>1. Cardinality(A) < AuthorCap BY <1>3, <2>3 DEF FitsCaps
    <3>2. {b \in U : Author[b] = c} = A \cup {x} BY <2>3
    <3> HIDE DEF A
    <3>3. Cardinality(A \cup {x}) = Cardinality(A) + 1 BY <2>1, FS_AddElement
    <3> QED BY <1>1, <2>1, <3>1, <3>2, <3>3
  <2>4. CASE Author[x] # c
    <3>1. {b \in U : Author[b] = c} = A BY <2>4
    <3> QED BY <2>2, <3>1
  <2> QED BY <2>3, <2>4
<1> QED BY <1>2, <1>3 DEF WithinCaps

\* Within the caps, none exceeds them.
LEMMA CapsHold ==
    ASSUME NEW S \in SUBSET Books, WithinCaps(S), NEW x \in S
    PROVE  FitsCaps(S \ {x}, x)
<1>1. CategoryCap \in Nat /\ AuthorCap \in Nat BY SamplingAssumption
<1>2. ASSUME Category[x] # None
      PROVE  Cardinality({p \in S \ {x} : Category[p] = Category[x]}) < CategoryCap
  <2> DEFINE A == {p \in S : Category[p] = Category[x]}
  <2>1. A \in SUBSET Books /\ IsFiniteSet(A) /\ Cardinality(A) \in Nat /\ x \in A BY BooksFinite
  <2>2. Cardinality(A) <= CategoryCap BY <1>2 DEF WithinCaps
  <2>3. {p \in S \ {x} : Category[p] = Category[x]} = A \ {x} OBVIOUS
  <2> HIDE DEF A
  <2>4. Cardinality(A \ {x}) = Cardinality(A) - 1 BY <2>1, FS_RemoveElement
  <2>5. \A n, c \in Nat : n <= c => n - 1 < c OBVIOUS
  <2>6. Cardinality(A \ {x}) < CategoryCap BY <1>1, <2>1, <2>2, <2>4, <2>5
  <2> QED BY <2>3, <2>6
<1>3. ASSUME Author[x] # None
      PROVE  Cardinality({p \in S \ {x} : Author[p] = Author[x]}) < AuthorCap
  <2> DEFINE A == {p \in S : Author[p] = Author[x]}
  <2>1. A \in SUBSET Books /\ IsFiniteSet(A) /\ Cardinality(A) \in Nat /\ x \in A BY BooksFinite
  <2>2. Cardinality(A) <= AuthorCap BY <1>3 DEF WithinCaps
  <2>3. {p \in S \ {x} : Author[p] = Author[x]} = A \ {x} OBVIOUS
  <2> HIDE DEF A
  <2>4. Cardinality(A \ {x}) = Cardinality(A) - 1 BY <2>1, FS_RemoveElement
  <2>5. \A n, c \in Nat : n <= c => n - 1 < c OBVIOUS
  <2>6. Cardinality(A \ {x}) < AuthorCap BY <1>1, <2>1, <2>2, <2>4, <2>5
  <2> QED BY <2>3, <2>6
<1> QED BY <1>2, <1>3 DEF FitsCaps

\* What fits among many fits among fewer.
LEMMA FitsFewer ==
    ASSUME NEW rule, NEW U \in SUBSET Books, NEW S \in SUBSET U, NEW b, Fits(rule, U, b)
    PROVE  Fits(rule, S, b)
<1>1. CategoryCap \in Nat /\ AuthorCap \in Nat BY SamplingAssumption
<1>2. ASSUME NEW A \in SUBSET Books, NEW B \in SUBSET A, NEW n \in Nat, Cardinality(A) < n
      PROVE  Cardinality(B) < n
  <2>1. IsFiniteSet(A) /\ Cardinality(A) \in Nat /\ Cardinality(B) \in Nat BY BooksFinite
  <2>2. Cardinality(B) <= Cardinality(A) BY <2>1, FS_Subset
  <2> QED BY <1>2, <2>1, <2>2
<1>3. \A c : {p \in S : Category[p] = c} \subseteq {p \in U : Category[p] = c}
             /\ {p \in U : Category[p] = c} \in SUBSET Books
  OBVIOUS
<1>4. \A c : {p \in S : Author[p] = c} \subseteq {p \in U : Author[p] = c}
             /\ {p \in U : Author[p] = c} \in SUBSET Books
  OBVIOUS
<1>5. \A c : Cardinality({p \in U : Category[p] = c}) < CategoryCap
             => Cardinality({p \in S : Category[p] = c}) < CategoryCap
  BY <1>1, <1>2, <1>3
<1>6. \A c : Cardinality({p \in U : Author[p] = c}) < AuthorCap
             => Cardinality({p \in S : Author[p] = c}) < AuthorCap
  BY <1>1, <1>2, <1>4
<1>7. rule = "caps" => FitsCaps(S, b) BY <1>5, <1>6 DEF Fits, FitsCaps
<1>8. rule = "category" => FitsCategory(S, b) BY <1>5 DEF Fits, FitsCategory
<1> QED BY <1>7, <1>8 DEF Fits

\* The picks: none twice, the earlier ones among them, not more than asked for; a
\* candidate is left out only when there are enough or it does not fit.
LEMMA Picked ==
    ASSUME NEW s \in Seq(Books), NEW a \in Seq(Books), Distinct(a), NEW limit \in Nat, NEW rule
    PROVE  /\ PickFrom(s, a, limit, rule) \in Seq(Books) /\ Distinct(PickFrom(s, a, limit, rule))
           /\ ToSet(a) \subseteq ToSet(PickFrom(s, a, limit, rule))
           /\ ToSet(PickFrom(s, a, limit, rule)) \subseteq ToSet(a) \cup ToSet(s)
           /\ Len(a) <= limit => Len(PickFrom(s, a, limit, rule)) <= limit
           /\ Len(a) >= limit => PickFrom(s, a, limit, rule) = a
           /\ Len(PickFrom(s, a, limit, rule)) < limit =>
                \A b \in ToSet(s) \ ToSet(PickFrom(s, a, limit, rule)) :
                    ~ Fits(rule, ToSet(PickFrom(s, a, limit, rule)), b)
           /\ rule = "caps" /\ WithinCaps(ToSet(a)) => WithinCaps(ToSet(PickFrom(s, a, limit, rule)))
<1> DEFINE n == Len(s)
           May(r, x) == Len(r) < limit /\ x \notin ToSet(r) /\ Fits(rule, ToSet(r), x)
           Step(r, i) == IF May(r, s[i]) THEN Append(r, s[i]) ELSE r
           F == [p \in Seq(Books) \X (1..n) |-> Step(p[1], p[2])]
           Is(k) == k = [t \in SUBSET DOMAIN s |-> IF t = {} THEN a ELSE Step(k[t \ {Max(t)}], Max(t))]
           It == CHOOSE k : Is(k)
<1>1. PickFrom(s, a, limit, rule) = It[DOMAIN s] BY DEF PickFrom, FoldLeft, MapThenFoldSet
<1>2. n \in Nat /\ DOMAIN s = 1..n /\ \A i \in 1..n : s[i] \in Books BY LenProperties, ElementOfSeq
<1>3. \A r \in Seq(Books), i \in 1..n : Step(r, i) \in Seq(Books) BY <1>2
<1>4. F \in [Seq(Books) \X (1..n) -> Seq(Books)] /\ \A r \in Seq(Books), i \in 1..n : F[<<r, i>>] = Step(r, i)
  BY <1>3
<1>m. \A t \in SUBSET (1..n) : t # {} => Max(t) \in 1..n BY <1>2, MaxIn
<1> HIDE DEF F, Step
<1>6. PICK g : Folds(g, F, a, n) BY <1>2, FoldsExist
<1>7. \A t \in SUBSET (1..n) : g[t] \in Seq(Books) BY <1>2, <1>4, <1>6, FoldsStay
<1>8. Is(g)
  <2>1. \A t \in SUBSET (1..n) : t # {} => F[<<g[t \ {Max(t)}], Max(t)>>] = Step(g[t \ {Max(t)}], Max(t))
    BY <1>4, <1>7, <1>m
  <2> QED BY <1>2, <1>6, <2>1 DEF Folds
<1>9. Is(It)
  <2> HIDE DEF Is
  <2> QED BY <1>8
<1> HIDE DEF It
<1>10. Runs(It, F, a, n, Seq(Books)) BY <1>2, <1>4, <1>9, <1>m DEF Runs
<1> HIDE DEF Is, May
<1> DEFINE Good(r, k) == /\ Distinct(r)
                         /\ ToSet(a) \subseteq ToSet(r) /\ ToSet(r) \subseteq ToSet(a) \cup ToSet(s)
                         /\ Len(a) <= limit => Len(r) <= limit
                         /\ Len(a) >= limit => r = a
                         /\ Len(r) < limit => \A i \in 1..k : s[i] \in ToSet(r) \/ ~ Fits(rule, ToSet(r), s[i])
                         /\ rule = "caps" /\ WithinCaps(ToSet(a)) => WithinCaps(ToSet(r))
           P == {p \in Seq(Books) \X (0..n) : Good(p[1], p[2])}
<1>11. <<a, 0>> \in P
  <2>1. Good(a, 0) OBVIOUS
  <2>2. 0 \in 0..n BY <1>2
  <2> HIDE DEF Good
  <2> QED BY <2>1, <2>2
<1>12. ASSUME NEW r \in Seq(Books), NEW i \in 1..n, <<r, i - 1>> \in P PROVE <<F[<<r, i>>], i>> \in P
  <2> DEFINE x == s[i]
  <2>1. Good(r, i - 1) BY <1>12
  <2>2. x \in Books /\ x \in ToSet(s) BY <1>2, Elements
  <2>3. F[<<r, i>>] = Step(r, i) BY <1>4
  <2>4. /\ Append(r, x) \in Seq(Books) /\ Len(Append(r, x)) = Len(r) + 1 /\ Len(r) \in Nat
        /\ ToSet(Append(r, x)) = ToSet(r) \cup {x}
    BY <2>2, Appended
  <2>5. x \notin ToSet(r) => Distinct(Append(r, x)) BY <2>1, <2>2, Appended
  <2>6. \A j \in 1..i : j \in 1..(i - 1) \/ j = i BY <1>2
  <2>7. ToSet(r) \subseteq Books /\ Len(a) \in Nat BY Elements
  <2>8. Good(F[<<r, i>>], i)
    <3>1. CASE May(r, x)
      <4>1. F[<<r, i>>] = Append(r, x) BY <2>3, <3>1 DEF Step
      <4>2. Len(r) < limit /\ x \notin ToSet(r) /\ Fits(rule, ToSet(r), x) BY <3>1 DEF May
      <4>3. ToSet(a) \subseteq ToSet(Append(r, x)) /\ ToSet(Append(r, x)) \subseteq ToSet(a) \cup ToSet(s)
        BY <2>1, <2>2, <2>4
      <4>4. Len(a) <= limit => Len(Append(r, x)) <= limit BY <2>1, <2>4, <4>2
      <4>5. ~ (Len(a) >= limit) BY <2>1, <2>7, <4>2
      <4>6. ASSUME Len(Append(r, x)) < limit, NEW j \in 1..i
            PROVE s[j] \in ToSet(Append(r, x)) \/ ~ Fits(rule, ToSet(Append(r, x)), s[j])
        <5>1. CASE j = i BY <2>4, <5>1
        <5>2. CASE j \in 1..(i - 1)
          <6>1. s[j] \in ToSet(r) \/ ~ Fits(rule, ToSet(r), s[j]) BY <2>1, <4>2, <5>2
          <6>2. ToSet(r) \subseteq ToSet(Append(r, x)) /\ ToSet(Append(r, x)) \in SUBSET Books
            BY <2>2, <2>4, <2>7
          <6>3. ~ Fits(rule, ToSet(r), s[j]) => ~ Fits(rule, ToSet(Append(r, x)), s[j]) BY <6>2, FitsFewer
          <6> QED BY <6>1, <6>2, <6>3
        <5> QED BY <2>6, <5>1, <5>2
      <4>7. ASSUME rule = "caps", WithinCaps(ToSet(a)) PROVE WithinCaps(ToSet(Append(r, x)))
        <5>1. WithinCaps(ToSet(r)) BY <2>1, <4>7
        <5>2. FitsCaps(ToSet(r), x) BY <4>2, <4>7 DEF Fits
        <5> QED BY <2>2, <2>4, <2>7, <4>2, <5>1, <5>2, CapsGrow
      <4> QED BY <2>5, <4>1, <4>2, <4>3, <4>4, <4>5, <4>6, <4>7
    <3>2. CASE ~ May(r, x)
      <4>1. F[<<r, i>>] = r BY <2>3, <3>2 DEF Step
      <4>2. Len(r) < limit => x \in ToSet(r) \/ ~ Fits(rule, ToSet(r), x) BY <3>2 DEF May
      <4>3. Len(r) < limit => \A j \in 1..i : s[j] \in ToSet(r) \/ ~ Fits(rule, ToSet(r), s[j])
        BY <2>1, <2>6, <4>2
      <4> QED BY <2>1, <4>1, <4>3
    <3> QED BY <3>1, <3>2
  <2>9. F[<<r, i>>] \in Seq(Books) /\ i \in 0..n BY <1>2, <1>4
  <2> HIDE DEF Good
  <2> QED BY <2>8, <2>9
<1> HIDE DEF P
<1>13. It[1..n] \in Seq(Books) /\ <<It[1..n], n>> \in P
  <2>1. Carries(F, P, Seq(Books), n) BY <1>12 DEF Carries
  <2> QED BY <1>2, <1>4, <1>10, <1>11, <2>1, FoldsKeep
<1>14. Good(It[1..n], n) BY <1>13 DEF P
<1>15. ToSet(s) = {s[i] : i \in 1..n} BY Elements
<1>16. PickFrom(s, a, limit, rule) = It[1..n] BY <1>1, <1>2
<1> HIDE DEF n
<1> DEFINE r == It[1..n]
<1>17. Good(r, n) /\ r \in Seq(Books) BY <1>13, <1>14
<1> HIDE DEF r
<1>18. Len(r) < limit => \A b \in ToSet(s) \ ToSet(r) : ~ Fits(rule, ToSet(r), b) BY <1>15, <1>17
<1>19. PickFrom(s, a, limit, rule) = r BY <1>16 DEF r
<1> QED BY <1>17, <1>18, <1>19

LEMMA NothingPicked == <<>> \in Seq(Books) /\ Distinct(<<>>) /\ ToSet(<<>>) = {} /\ Len(<<>>) = 0
<1>1. Len(<<>>) = 0 /\ ToSet(<<>>) = {} BY DEF ToSet
<1> QED BY <1>1 DEF Distinct

\* What a source hands over: books, at most so many, none of those excluded.
Fine(p, X, limit) ==
    p \in Seq(Books) /\ Distinct(p) /\ ToSet(p) \cap X = {} /\ Len(p) <= limit

\* Two passes over what one has.
LEMMA PickedTwice ==
    ASSUME NEW s \in Seq(Books), NEW q \in Seq(Books), NEW limit \in Nat, NEW rule, NEW X,
           ToSet(s) \cap X = {}, ToSet(q) \cap X = {}
    PROVE  Fine(PickFrom(q, PickFrom(s, <<>>, limit, rule), limit, "none"), X, limit)
<1> DEFINE e == <<>>
<1>1. e \in Seq(Books) /\ Distinct(e) /\ ToSet(e) = {} /\ Len(e) = 0 BY NothingPicked
<1> HIDE DEF e
<1> DEFINE a == PickFrom(s, e, limit, rule)
<1>2. a \in Seq(Books) /\ Distinct(a) /\ ToSet(a) \subseteq ToSet(e) \cup ToSet(s) BY <1>1, Picked
<1>e. Len(e) <= limit BY <1>1
<1>3. Len(a) <= limit BY <1>1, <1>e, Picked
<1> HIDE DEF a
<1> DEFINE r == PickFrom(q, a, limit, "none")
<1>4. r \in Seq(Books) /\ Distinct(r) /\ ToSet(r) \subseteq ToSet(a) \cup ToSet(q) BY <1>2, Picked
<1>5. Len(r) <= limit BY <1>2, <1>3, Picked
<1> HIDE DEF r
<1>6. ToSet(r) \cap X = {} BY <1>1, <1>2, <1>4
<1> QED BY <1>4, <1>5, <1>6 DEF Fine, r, a, e

LEMMA SamplesFine ==
    ASSUME NEW items \in Seq(Books), Distinct(items), NEW X, ToSet(items) \cap X = {},
           NEW heavy, NEW limit \in Nat, NEW p \in WeightedSamples(items, heavy, limit)
    PROVE  Fine(p, X, limit) /\ ToSet(p) \subseteq ToSet(items)
<1>1. IsFiniteSet(ToSet(items)) BY Elements, BooksFinite
<1>2. p \in Seq(Books) /\ Distinct(p) /\ ToSet(p) \subseteq ToSet(items) /\ Len(p) <= limit
  BY <1>1, Sampled
<1> QED BY <1>2 DEF Fine

LEMMA DiversifiedFine ==
    ASSUME NEW q \in Seq(Books), Distinct(q), NEW X, ToSet(q) \cap X = {},
           NEW limit \in Nat, NEW p \in DiversifiedPicks(q, limit)
    PROVE  Fine(p, X, limit)
<1>1. PICK t \in WeightedSamples(q, ToSet(q), limit * CandidateMult) :
         p = PickFrom(q, PickFrom(t \o q, <<>>, limit, "caps"), limit, "none")
  BY DEF DiversifiedPicks
<1>2. limit * CandidateMult \in Nat BY SamplingAssumption
<1>3. t \in Seq(Books) /\ ToSet(t) \subseteq ToSet(q) BY <1>2, SamplesFine DEF Fine
<1>4. t \o q \in Seq(Books) /\ ToSet(t \o q) = ToSet(t) \cup ToSet(q) BY <1>3, Joined
<1>5. ToSet(t \o q) \cap X = {} BY <1>3, <1>4
<1> QED BY <1>1, <1>4, <1>5, PickedTwice

LEMMA WeightedFine ==
    ASSUME NEW q \in Seq(Books), Distinct(q), NEW X, ToSet(q) \cap X = {}, NEW heavy,
           NEW limit \in Nat, NEW p \in WeightedDiversify(q, heavy, limit)
    PROVE  Fine(p, X, limit)
<1>1. PICK t \in WeightedSamples(q, heavy, limit * CandidateMult) :
         p = PickFrom(t, PickFrom(t, <<>>, limit, "caps"), limit, "none")
  BY DEF WeightedDiversify
<1>2. limit * CandidateMult \in Nat BY SamplingAssumption
<1>3. t \in Seq(Books) /\ ToSet(t) \subseteq ToSet(q) BY <1>2, SamplesFine DEF Fine
<1>4. ToSet(t) \cap X = {} BY <1>3
<1> QED BY <1>1, <1>3, <1>4, PickedTwice

LEMMA NewFine ==
    ASSUME NEW q \in Seq(Books), Distinct(q), NEW X, ToSet(q) \cap X = {},
           NEW limit \in Nat, NEW p \in NewPicks(q, limit)
    PROVE  Fine(p, X, limit)
<1>1. PICK t \in WeightedSamples(q, ToSet(q), Len(q)) :
         p = PickFrom(t, PickFrom(t, <<>>, limit, "category"), limit, "none")
  BY DEF NewPicks
<1>2. Len(q) \in Nat BY Elements
<1>3. t \in Seq(Books) /\ ToSet(t) \subseteq ToSet(q) BY <1>2, SamplesFine DEF Fine
<1>4. ToSet(t) \cap X = {} BY <1>3
<1> QED BY <1>1, <1>3, <1>4, PickedTwice

\* The caps give way only when every candidate that fits is there.
LEMMA CapsForced ==
    ASSUME NEW q \in Seq(Books), Distinct(q), NEW limit \in Nat, NEW p \in DiversifiedPicks(q, limit)
    PROVE  /\ Len(p) = Min({limit, Len(q)})
           /\ (\E b \in ToSet(p) : ~ FitsCaps(ToSet(p) \ {b}, b)) =>
                 \A b \in ToSet(q) \ ToSet(p) : ~ FitsCaps(ToSet(p), b)
<1>1. PICK t \in WeightedSamples(q, ToSet(q), limit * CandidateMult) :
         p = PickFrom(q, PickFrom(t \o q, <<>>, limit, "caps"), limit, "none")
  BY DEF DiversifiedPicks
<1>2. limit * CandidateMult \in Nat BY SamplingAssumption
<1>3. t \in Seq(Books) /\ ToSet(t) \subseteq ToSet(q)
  <2>1. ToSet(q) \cap {} = {} OBVIOUS
  <2> QED BY <1>2, <2>1, SamplesFine DEF Fine
<1>4. t \o q \in Seq(Books) /\ ToSet(t \o q) = ToSet(t) \cup ToSet(q) BY <1>3, Joined
<1> DEFINE e == <<>>
           s == t \o q
<1>5. e \in Seq(Books) /\ Distinct(e) /\ ToSet(e) = {} /\ Len(e) = 0 BY NothingPicked
<1>6. s \in Seq(Books) /\ ToSet(s) = ToSet(q) BY <1>3, <1>4
<1>7. p = PickFrom(q, PickFrom(s, e, limit, "caps"), limit, "none") BY <1>1
<1> HIDE DEF e, s
<1> DEFINE a == PickFrom(s, e, limit, "caps")
<1>8. a \in Seq(Books) /\ Distinct(a) /\ ToSet(a) \subseteq ToSet(e) \cup ToSet(s) BY <1>5, <1>6, Picked
<1>e. Len(e) <= limit BY <1>5
<1>9. Len(a) <= limit BY <1>5, <1>6, <1>e, Picked
<1>10. Len(a) < limit => \A b \in ToSet(s) \ ToSet(a) : ~ Fits("caps", ToSet(a), b) BY <1>5, <1>6, Picked
<1>11. WithinCaps(ToSet(a))
  <2>1. WithinCaps(ToSet(e))
    <3>2. CategoryCap \in Nat /\ AuthorCap \in Nat /\ Cardinality({}) = 0 BY SamplingAssumption, FS_EmptySet
    <3>3. \A c : {b \in {} : Category[b] = c} = {} /\ {b \in {} : Author[b] = c} = {} OBVIOUS
    <3> QED BY <1>5, <3>2, <3>3 DEF WithinCaps
  <2> QED BY <1>5, <1>6, <2>1, Picked
<1> HIDE DEF a
<1>12. p = PickFrom(q, a, limit, "none") BY <1>7 DEF a
<1>13. p \in Seq(Books) /\ Distinct(p) /\ ToSet(a) \subseteq ToSet(p) /\ ToSet(p) \subseteq ToSet(a) \cup ToSet(q)
  BY <1>8, <1>12, Picked
<1>14. Len(p) <= limit /\ (Len(a) >= limit => p = a) BY <1>8, <1>9, <1>12, Picked
<1>15. Len(p) < limit => ToSet(q) \subseteq ToSet(p)
  <2>1. Len(p) < limit => \A b \in ToSet(q) \ ToSet(p) : ~ Fits("none", ToSet(p), b)
    BY <1>8, <1>12, Picked
  <2>2. \A S, b : Fits("none", S, b) BY DEF Fits
  <2> QED BY <2>1, <2>2
<1>16. Len(p) = Min({limit, Len(q)})
  <2>1. Cardinality(ToSet(p)) = Len(p) /\ Cardinality(ToSet(q)) = Len(q) BY <1>13, CountedOnce
  <2>2. Len(p) \in Nat /\ Len(q) \in Nat /\ ToSet(q) \subseteq Books BY <1>13, Elements
  <2>3. ToSet(p) \subseteq ToSet(q) BY <1>5, <1>6, <1>8, <1>13
  <2>4. Len(p) <= Len(q) BY <2>1, <2>2, <2>3, BooksFinite, FS_Subset
  <2>5. Len(p) < limit => Len(p) = Len(q)
    <3>1. ASSUME Len(p) < limit PROVE Len(p) = Len(q)
      <4>1. ToSet(p) = ToSet(q) BY <1>15, <2>3, <3>1
      <4> QED BY <2>1, <4>1
    <3> QED BY <3>1
  <2> QED BY <1>14, <2>2, <2>4, <2>5 DEF Min
<1>17. ASSUME NEW x \in ToSet(p), ~ FitsCaps(ToSet(p) \ {x}, x), NEW b \in ToSet(q) \ ToSet(p)
       PROVE  ~ FitsCaps(ToSet(p), b)
  <2>1. ToSet(p) \subseteq Books /\ Len(a) \in Nat BY <1>8, <1>13, Elements
  <2>2. CASE Len(a) >= limit
    <3>1. WithinCaps(ToSet(p)) BY <1>11, <1>14, <2>2
    <3> QED BY <1>17, <2>1, <3>1, CapsHold
  <2>3. CASE Len(a) < limit
    <3>1. ~ Fits("caps", ToSet(a), b) BY <1>6, <1>10, <1>13, <2>3
    <3>2. ~ Fits("caps", ToSet(p), b) BY <1>13, <2>1, <3>1, FitsFewer
    <3> QED BY <3>2 DEF Fits
  <2> QED BY <2>1, <2>2, <2>3
<1> QED BY <1>16, <1>17

-----------------------------------------------------------------------------
(* The blender *)

\* The sources in the order in which a slot asks them.
OrderOf(slot) == <<slot>> \o Without(FallbackOrder, {slot})

LEMMA SlotFirst ==
    ASSUME NEW t \in Sources
    PROVE  OrderOf(t) \in Seq(Sources) /\ OrderOf(t) # <<>> /\ OrderOf(t)[1] = t
<1>1. FallbackOrder \in Seq(Sources) BY DEF FallbackOrder, Sources
<1> DEFINE r == Without(FallbackOrder, {t})
           u == <<t>>
<1>2. r \in Seq(Sources) BY <1>1, Rest
<1>3. u \in Seq(Sources) /\ Len(u) = 1 /\ u[1] = t OBVIOUS
<1> HIDE DEF r, u
<1>4. /\ u \o r \in Seq(Sources) /\ Len(u \o r) = Len(u) + Len(r)
      /\ \A i \in 1..Len(u) : (u \o r)[i] = u[i]
  BY <1>2, <1>3, Joined
<1>5. Len(r) \in Nat BY <1>2
<1>6. (u \o r)[1] = t /\ u \o r # <<>> BY <1>3, <1>4, <1>5
<1> QED BY <1>4, <1>6 DEF OrderOf, u, r

\* The unseen books of each source, and the sources that have some.
UnseenOf(queues, pg) == [s \in Sources |-> Without(queues[s], ToSet(pg))]
LiveOf(queues, pg, slot) == Among(OrderOf(slot), {s \in Sources : UnseenOf(queues, pg)[s] # <<>>})

\* One slot: nothing is left at all, or a book is taken; of the slot's source when
\* that has one.
LEMMA OneSlot ==
    ASSUME NEW queues \in [Sources -> Seq(Books)], NEW pg \in Seq(Books), NEW t \in Sources
    PROVE  /\ LiveOf(queues, pg, t) = <<>> => ToSet(queues[t]) \subseteq ToSet(pg)
           /\ LiveOf(queues, pg, t) # <<>> =>
                LET h == Head(LiveOf(queues, pg, t))
                    x == Head(UnseenOf(queues, pg)[h])
                IN  /\ h \in Sources /\ x \in ToSet(queues[h]) \ ToSet(pg) /\ x \in Books
                    /\ ToSet(queues[t]) \subseteq ToSet(pg) \/ h = t
<1> DEFINE u == UnseenOf(queues, pg)
           L == {s \in Sources : u[s] # <<>>}
           o == OrderOf(t)
           live == LiveOf(queues, pg, t)
<1>1. \A s \in Sources : u[s] \in Seq(Books) /\ ToSet(u[s]) = ToSet(queues[s]) \ ToSet(pg)
  <2> SUFFICES ASSUME NEW s \in Sources
               PROVE  u[s] \in Seq(Books) /\ ToSet(u[s]) = ToSet(queues[s]) \ ToSet(pg)
    OBVIOUS
  <2>1. queues[s] \in Seq(Books) /\ u[s] = Without(queues[s], ToSet(pg)) BY DEF UnseenOf
  <2> QED BY <2>1, Rest
<1>2. o \in Seq(Sources) /\ o # <<>> /\ o[1] = t BY SlotFirst
<1>3. live = Among(o, L) BY DEF LiveOf
<1> HIDE DEF u, L, o, live
<1>4. live \in Seq(Sources) /\ ToSet(live) = ToSet(o) \cap L BY <1>2, <1>3, Kept
<1>5. t \in L => live # <<>> /\ live[1] = t BY <1>2, <1>3, Kept
<1>6. t \notin L => ToSet(queues[t]) \subseteq ToSet(pg)
  <2>1. ASSUME t \notin L PROVE ToSet(u[t]) = {}
    <3>1. u[t] = <<>> BY <2>1 DEF L
    <3> QED BY <3>1, NothingPicked
  <2> QED BY <1>1, <2>1
<1>7. ASSUME live # <<>>
      PROVE  /\ Head(live) \in Sources
             /\ Head(u[Head(live)]) \in ToSet(queues[Head(live)]) \ ToSet(pg)
             /\ Head(u[Head(live)]) \in Books
             /\ ToSet(queues[t]) \subseteq ToSet(pg) \/ Head(live) = t
  <2>1. Head(live) = live[1] /\ 1 \in 1..Len(live) BY <1>4, <1>7
  <2>2. Head(live) \in ToSet(live) /\ Head(live) \in Sources BY <1>4, <2>1, Elements
  <2> DEFINE h == Head(live)
  <2>3. h \in L /\ h \in Sources BY <1>4, <2>2
  <2> HIDE DEF h
  <2>4. u[h] \in Seq(Books) /\ u[h] # <<>> BY <1>1, <2>3 DEF L
  <2>5. Head(u[h]) = u[h][1] /\ 1 \in 1..Len(u[h]) BY <2>4
  <2>6. Head(u[h]) \in ToSet(u[h]) /\ Head(u[h]) \in Books BY <2>4, <2>5, Elements
  <2>7. Head(u[h]) \in ToSet(queues[h]) \ ToSet(pg) BY <1>1, <2>3, <2>6
  <2>8. ToSet(queues[t]) \subseteq ToSet(pg) \/ h = t BY <1>5, <1>6, <2>1 DEF h
  <2> QED BY <2>3, <2>6, <2>7, <2>8 DEF h
<1> QED BY <1>5, <1>6, <1>7 DEF u, live

\* The slots of source s behind place i.
SlotsLeft(pattern, s, i) == Cardinality({j \in (i + 1)..Len(pattern) : pattern[j] = s})

LEMMA SlotsGo ==
    ASSUME NEW pattern \in Seq(Sources), NEW s \in Sources, NEW i \in 1..Len(pattern)
    PROVE  /\ SlotsLeft(pattern, s, i) \in Nat
           /\ SlotsLeft(pattern, s, i - 1) =
                SlotsLeft(pattern, s, i) + (IF pattern[i] = s THEN 1 ELSE 0)
<1> DEFINE n == Len(pattern)
           A == {j \in (i + 1)..n : pattern[j] = s}
           B == {j \in i..n : pattern[j] = s}
<1>1. n \in Nat BY LenProperties
<1>2. IsFiniteSet((i + 1)..n) BY <1>1, FS_Interval
<1>3. IsFiniteSet(A) /\ Cardinality(A) \in Nat BY <1>2, FS_Subset, FS_CardinalityType
<1>4. i..n = {i} \cup ((i + 1)..n) /\ i \notin (i + 1)..n /\ (i - 1) + 1 = i BY <1>1
<1>5. B = IF pattern[i] = s THEN A \cup {i} ELSE A BY <1>4
<1>6. i \notin A BY <1>4
<1> HIDE DEF A, B, n
<1>7. Cardinality(A \cup {i}) = Cardinality(A) + 1 BY <1>3, <1>6, FS_AddElement
<1>8. Cardinality(B) = Cardinality(A) + (IF pattern[i] = s THEN 1 ELSE 0)
  <2>1. CASE pattern[i] = s BY <1>5, <1>7, <2>1
  <2>2. CASE pattern[i] # s
    <3>1. B = A /\ Cardinality(A) + 0 = Cardinality(A) BY <1>3, <1>5, <2>2
    <3> QED BY <2>2, <3>1
  <2> QED BY <2>1, <2>2
<1>9. SlotsLeft(pattern, s, i) = Cardinality(A) BY DEF SlotsLeft, A, n
<1>10. SlotsLeft(pattern, s, i - 1) = Cardinality(B) BY <1>4 DEF SlotsLeft, B, n
<1> QED BY <1>3, <1>8, <1>9, <1>10

\* Every book of every source gets a slot, if no source has more than its slots.
LEMMA Mixed ==
    ASSUME NEW queues \in [Sources -> Seq(Books)], NEW pattern \in Patterns,
           \A s \in Sources : Len(queues[s]) <= Slots[s]
    PROVE  ToSet(Mix(queues, pattern)) = UNION {ToSet(queues[s]) : s \in Sources}
<1> DEFINE n == Len(pattern)
           Step(pg, i) == IF LiveOf(queues, pg, pattern[i]) = <<>> THEN pg
                          ELSE Append(pg, Head(UnseenOf(queues, pg)[Head(LiveOf(queues, pg, pattern[i]))]))
           F == [p \in Seq(Books) \X (1..n) |-> Step(p[1], p[2])]
           Is(k) == k = [t \in SUBSET DOMAIN pattern |-> IF t = {} THEN <<>> ELSE Step(k[t \ {Max(t)}], Max(t))]
           It == CHOOSE k : Is(k)
           All == UNION {ToSet(queues[s]) : s \in Sources}
<1>1. Mix(queues, pattern) = It[DOMAIN pattern]
  BY DEF Mix, FoldLeft, MapThenFoldSet, LiveOf, UnseenOf, OrderOf
<1>2. pattern \in Seq(Sources) /\ n \in Nat /\ DOMAIN pattern = 1..n /\ \A i \in 1..n : pattern[i] \in Sources
  BY SamplingAssumption, LenProperties, ElementOfSeq
<1>3. \A pg \in Seq(Books), i \in 1..n : Step(pg, i) \in Seq(Books)
  <2> SUFFICES ASSUME NEW pg \in Seq(Books), NEW i \in 1..n, LiveOf(queues, pg, pattern[i]) # <<>>
               PROVE  Head(UnseenOf(queues, pg)[Head(LiveOf(queues, pg, pattern[i]))]) \in Books
    OBVIOUS
  <2>1. pattern[i] \in Sources BY <1>2
  <2> QED BY <2>1, OneSlot
<1>4. F \in [Seq(Books) \X (1..n) -> Seq(Books)] /\ \A r \in Seq(Books), i \in 1..n : F[<<r, i>>] = Step(r, i)
  BY <1>3
<1>5. <<>> \in Seq(Books) OBVIOUS
<1>m. \A t \in SUBSET (1..n) : t # {} => Max(t) \in 1..n BY <1>2, MaxIn
<1> HIDE DEF F, Step
<1>6. PICK g : Folds(g, F, <<>>, n) BY <1>2, FoldsExist
<1>7. \A t \in SUBSET (1..n) : g[t] \in Seq(Books) BY <1>2, <1>4, <1>5, <1>6, FoldsStay
<1>8. Is(g)
  <2>1. \A t \in SUBSET (1..n) : t # {} => F[<<g[t \ {Max(t)}], Max(t)>>] = Step(g[t \ {Max(t)}], Max(t))
    BY <1>4, <1>7, <1>m
  <2> QED BY <1>2, <1>6, <2>1 DEF Folds
<1>9. Is(It)
  <2> HIDE DEF Is
  <2> QED BY <1>8
<1> HIDE DEF It
<1>10. Runs(It, F, <<>>, n, Seq(Books)) BY <1>2, <1>4, <1>9, <1>m DEF Runs
<1> HIDE DEF Is
<1>a. \A s \in Sources : /\ queues[s] \in Seq(Books) /\ ToSet(queues[s]) \subseteq Books
                         /\ IsFiniteSet(ToSet(queues[s]))
  BY Elements, BooksFinite
<1> DEFINE Lacks(s, pg) == Cardinality(ToSet(queues[s]) \ ToSet(pg))
<1>b. \A s \in Sources : \A pg : IsFiniteSet(ToSet(queues[s]) \ ToSet(pg)) /\ Lacks(s, pg) \in Nat
  <2> SUFFICES ASSUME NEW s \in Sources, NEW pg
               PROVE  IsFiniteSet(ToSet(queues[s]) \ ToSet(pg)) /\ Lacks(s, pg) \in Nat
    OBVIOUS
  <2>1. ToSet(queues[s]) \ ToSet(pg) \subseteq Books BY <1>a
  <2> QED BY <2>1, BooksFinite
<1> DEFINE Good(pg, i) == /\ ToSet(pg) \subseteq All
                          /\ \A s \in Sources : Lacks(s, pg) <= SlotsLeft(pattern, s, i)
           P == {p \in Seq(Books) \X (0..n) : Good(p[1], p[2])}
<1> HIDE DEF All
<1>11. <<<<>>, 0>> \in P
  <2>1. ASSUME NEW s \in Sources PROVE Lacks(s, <<>>) <= SlotsLeft(pattern, s, 0)
    <3>1. SlotsLeft(pattern, s, 0) = Slots[s]
      <4>1. {j \in (0 + 1)..n : pattern[j] = s} = {j \in DOMAIN pattern : pattern[j] = s} BY <1>2
      <4> QED BY <4>1, SamplingAssumption DEF SlotsLeft
    <3>2. ToSet(queues[s]) \ ToSet(<<>>) \subseteq ToSet(queues[s]) OBVIOUS
    <3>3. Lacks(s, <<>>) <= Cardinality(ToSet(queues[s])) BY <1>a, <3>2, FS_Subset
    <3>4. Cardinality(ToSet(queues[s])) <= Len(queues[s])
      <4> DEFINE q == queues[s]
      <4>1. q \in Seq(Books) /\ Len(q) \in Nat /\ ToSet(q) = {q[i] : i \in 1..Len(q)} BY <1>a, Elements
      <4> HIDE DEF q
      <4> DEFINE m == Len(q)
      <4>e. m \in Nat /\ 0 \in Int /\ 1 \in Int /\ m \in Int BY <4>1
      <4> HIDE DEF m
      <4>f. IsFiniteSet(1..m) /\ Cardinality(1..m) = IF 1 > m THEN 0 ELSE m - 1 + 1 BY <4>e, FS_Interval
      <4>g. Cardinality(1..m) = m BY <4>e, <4>f
      <4>2. IsFiniteSet(1..Len(q)) /\ Cardinality(1..Len(q)) = Len(q) BY <4>f, <4>g DEF m
      <4>3. [i \in 1..Len(q) |-> q[i]] \in Surjection(1..Len(q), ToSet(q)) BY <4>1 DEF Surjection
      <4>4. Cardinality(ToSet(q)) <= Cardinality(1..Len(q)) BY <4>2, <4>3, FS_Surjection
      <4> QED BY <4>2, <4>4 DEF q
    <3>5. Lacks(s, <<>>) \in Nat /\ Cardinality(ToSet(queues[s])) \in Nat /\ Len(queues[s]) \in Nat
          /\ Slots[s] \in Nat
      BY <1>a, <1>b, FS_CardinalityType, SamplingAssumption
    <3> HIDE DEF Lacks
    <3> QED BY <3>1, <3>3, <3>4, <3>5
  <2>2. Good(<<>>, 0) BY <2>1, NothingPicked
  <2>3. 0 \in 0..n BY <1>2
  <2> HIDE DEF Good
  <2> QED BY <1>5, <2>2, <2>3
<1>12. ASSUME NEW pg \in Seq(Books), NEW i \in 1..n, <<pg, i - 1>> \in P PROVE <<F[<<pg, i>>], i>> \in P
  <2> DEFINE t == pattern[i]
             live == LiveOf(queues, pg, t)
             h == Head(live)
             x == Head(UnseenOf(queues, pg)[h])
             r == F[<<pg, i>>]
  <2>1. Good(pg, i - 1) BY <1>12
  <2>2. t \in Sources BY <1>2
  <2>3. r = IF live = <<>> THEN pg ELSE Append(pg, x) BY <1>4 DEF Step
  <2>4. \A s \in Sources : /\ SlotsLeft(pattern, s, i) \in Nat
                           /\ SlotsLeft(pattern, s, i - 1) = SlotsLeft(pattern, s, i) + (IF t = s THEN 1 ELSE 0)
    BY <1>2, SlotsGo
  <2>5. live = <<>> => ToSet(queues[t]) \subseteq ToSet(pg) BY <2>2, OneSlot
  <2>6. live # <<>> => /\ h \in Sources /\ x \in ToSet(queues[h]) \ ToSet(pg) /\ x \in Books
                       /\ ToSet(queues[t]) \subseteq ToSet(pg) \/ h = t
    BY <2>2, OneSlot
  <2>7. r \in Seq(Books) /\ i \in 0..n BY <1>2, <1>4
  <2> HIDE DEF t, live, h, x, r
  <2>8. ToSet(pg) \subseteq ToSet(r) /\ ToSet(r) \subseteq All
    <3>1. CASE live = <<>> BY <2>1, <2>3, <3>1
    <3>2. CASE live # <<>>
      <4>1. ToSet(r) = ToSet(pg) \cup {x} BY <2>3, <2>6, <3>2, Appended
      <4>2. x \in All BY <2>6, <3>2 DEF All
      <4> QED BY <2>1, <4>1, <4>2
    <3> QED BY <3>1, <3>2
  <2>9. ASSUME NEW s \in Sources PROVE Lacks(s, r) <= SlotsLeft(pattern, s, i)
    <3>1. Lacks(s, r) <= Lacks(s, pg)
      <4>1. ToSet(queues[s]) \ ToSet(r) \subseteq ToSet(queues[s]) \ ToSet(pg) BY <2>8
      <4> QED BY <1>b, <4>1, FS_Subset
    <3>2. Lacks(s, pg) <= SlotsLeft(pattern, s, i - 1) BY <2>1
    <3>3. Lacks(s, r) \in Nat /\ Lacks(s, pg) \in Nat BY <1>b
    <3>4. CASE t # s
      <4>1. SlotsLeft(pattern, s, i - 1) = SlotsLeft(pattern, s, i) /\ SlotsLeft(pattern, s, i) \in Nat
        BY <2>4, <3>4
      <4> HIDE DEF Lacks
      <4> QED BY <3>1, <3>2, <3>3, <4>1
    <3>5. CASE t = s /\ ToSet(queues[t]) \subseteq ToSet(pg)
      <4>1. ToSet(queues[s]) \ ToSet(pg) = {} BY <3>5
      <4>2. Lacks(s, pg) = 0 BY <4>1, FS_EmptySet
      <4>3. SlotsLeft(pattern, s, i) \in Nat BY <2>4
      <4> HIDE DEF Lacks
      <4> QED BY <3>1, <3>3, <4>2, <4>3
    <3>6. CASE t = s /\ live # <<>> /\ h = t
      <4>1. SlotsLeft(pattern, s, i - 1) = SlotsLeft(pattern, s, i) + 1 /\ SlotsLeft(pattern, s, i) \in Nat
        BY <2>4, <3>6
      <4>2. x \in ToSet(queues[s]) \ ToSet(pg) /\ x \in Books BY <2>6, <3>6
      <4>3. ToSet(r) = ToSet(pg) \cup {x} BY <2>3, <2>6, <3>6, Appended
      <4>4. ToSet(queues[s]) \ ToSet(r) = (ToSet(queues[s]) \ ToSet(pg)) \ {x} BY <4>3
      <4> DEFINE D == ToSet(queues[s]) \ ToSet(pg)
      <4>d. IsFiniteSet(D) /\ x \in D BY <1>b, <4>2
      <4>e. ToSet(queues[s]) \ ToSet(r) = D \ {x} /\ Lacks(s, pg) = Cardinality(D) BY <4>4
      <4> HIDE DEF D
      <4>f. Cardinality(D \ {x}) = Cardinality(D) - 1 BY <4>d, FS_RemoveElement
      <4>5. Lacks(s, r) = Lacks(s, pg) - 1 BY <4>e, <4>f
      <4> HIDE DEF Lacks
      <4> QED BY <3>2, <3>3, <4>1, <4>5
    <3> QED BY <2>5, <2>6, <3>4, <3>5, <3>6
  <2>10. Good(r, i) BY <2>8, <2>9
  <2> HIDE DEF Good
  <2> QED BY <2>7, <2>10 DEF r
<1> HIDE DEF P
<1>13. It[1..n] \in Seq(Books) /\ <<It[1..n], n>> \in P
  <2>1. Carries(F, P, Seq(Books), n) BY <1>12 DEF Carries
  <2> QED BY <1>2, <1>4, <1>5, <1>10, <1>11, <2>1, FoldsKeep
<1>14. Good(It[1..n], n) BY <1>13 DEF P
<1> DEFINE r == It[1..n]
<1>15. Good(r, n) /\ Mix(queues, pattern) = r BY <1>1, <1>2, <1>14
<1> HIDE DEF r
<1>16. ASSUME NEW s \in Sources PROVE ToSet(queues[s]) \subseteq ToSet(r)
  <2>1. {j \in (n + 1)..n : pattern[j] = s} = {} BY <1>2
  <2>2. SlotsLeft(pattern, s, n) = 0 BY <2>1, FS_EmptySet DEF SlotsLeft
  <2>3. Lacks(s, r) <= 0 /\ Lacks(s, r) \in Nat BY <1>15, <1>b, <2>2
  <2>4. Lacks(s, r) = 0
    <3> HIDE DEF Lacks
    <3> QED BY <2>3
  <2>5. ToSet(queues[s]) \ ToSet(r) = {} BY <1>b, <2>4, FS_EmptySet
  <2> QED BY <2>5
<1>17. ToSet(r) = All BY <1>15, <1>16 DEF All
<1> QED BY <1>15, <1>17 DEF All

-----------------------------------------------------------------------------
(* The sources *)

LEMMA MinIn ==
    ASSUME NEW S \in SUBSET Nat, S # {}
    PROVE  Min(S) \in S
<1>1. PICK m \in S : \A l \in S : ~ (l < m) BY LeastNat
<1>2. \A l \in S : l \in Nat /\ m \in Nat /\ m <= l BY <1>1
<1> QED BY <1>1, <1>2 DEF Min

\* A key tells every two books apart.
KeyOfBooks(key) ==
    /\ \A b \in Books : key[b] \in Int \X Int
    /\ \A b, c \in Books : key[b] = key[c] => b = c

LEMMA BooksAreNumbers ==
    \A b \in Books : /\ b \in Nat /\ RandomKey[b] \in Nat \ {0} /\ -b \in Int
                     /\ Popularity[b] \in Nat /\ Sales[b] \in Nat /\ Affinity[b] \in Int
<1>1. \A b \in Books : b \in Nat BY SamplingAssumption
<1>2. \A b \in Books : RandomKey[b] \in Nat \ {0} /\ Popularity[b] \in Nat /\ Sales[b] \in Nat
                       /\ Affinity[b] \in Int
  BY FeedAssumption
<1> QED BY <1>1, <1>2

LEMMA Keys ==
    /\ KeyOfBooks(BySales) /\ KeyOfBooks(ByNewest) /\ KeyOfBooks(ByRandomKey)
    /\ KeyOfBooks(ByPopularity) /\ KeyOfBooks(ByAffinity)
<1>0. \A b, c \in Books : RandomKey[b] = RandomKey[c] => b = c BY FeedAssumption
<1>n. \A b \in Books : -RandomKey[b] \in Int BY BooksAreNumbers
<1>m. \A m, n \in Nat : -m = -n => m = n OBVIOUS
<1>1. KeyOfBooks(BySales) BY <1>0, <1>n, <1>m, BooksAreNumbers DEF KeyOfBooks, BySales
<1>2. KeyOfBooks(ByNewest) BY BooksAreNumbers DEF KeyOfBooks, ByNewest
<1>3. KeyOfBooks(ByRandomKey) BY <1>0, <1>n, <1>m, BooksAreNumbers DEF KeyOfBooks, ByRandomKey
<1>4. KeyOfBooks(ByPopularity) BY BooksAreNumbers DEF KeyOfBooks, ByPopularity
<1>5. KeyOfBooks(ByAffinity) BY <1>m, BooksAreNumbers DEF KeyOfBooks, ByAffinity
<1> QED BY <1>1, <1>2, <1>3, <1>4, <1>5

\* The first books of a ranking.
LEMMA BooksRanked ==
    ASSUME NEW S \in SUBSET Books, NEW key, KeyOfBooks(key), NEW n \in Nat
    PROVE  /\ Ranked(S, key) \in Seq(Books) /\ Distinct(Ranked(S, key)) /\ ToSet(Ranked(S, key)) = S
           /\ \A i, j \in 1..Len(Ranked(S, key)) : i < j =>
                  Above(key[Ranked(S, key)[i]], key[Ranked(S, key)[j]])
           /\ Upto(Ranked(S, key), n) \in Seq(Books) /\ Distinct(Upto(Ranked(S, key), n))
           /\ ToSet(Upto(Ranked(S, key), n)) \subseteq S
           /\ Len(Upto(Ranked(S, key), n)) <= n
           /\ S # {} /\ n # 0 => Upto(Ranked(S, key), n) # <<>>
<1> DEFINE r == Ranked(S, key)
<1>1. IsFiniteSet(S) /\ Cardinality(S) \in Nat BY BooksFinite
<1>2. (\A x \in S : key[x] \in Int \X Int) /\ (\A x, y \in S : key[x] = key[y] => x = y)
  BY DEF KeyOfBooks
<1>3. r \in Seq(S) /\ Len(r) = Cardinality(S) /\ ToSet(r) = S /\ Distinct(r) BY <1>1, <1>2, RankedOnce
<1>4. \A i, j \in 1..Cardinality(S) : i < j => Above(key[r[i]], key[r[j]]) BY <1>1, <1>2, RankedOnce
<1>5. r \in Seq(Books) BY <1>3
<1> HIDE DEF r
<1> DEFINE u == Upto(r, n)
<1>6. u \in Seq(Books) /\ Distinct(u) /\ ToSet(u) \subseteq ToSet(r) BY <1>3, <1>5, FirstOf
<1>7. Len(u) = IF n <= Len(r) THEN n ELSE Len(r) BY <1>5, FirstOf
<1> HIDE DEF u
<1>8. Len(r) \in Nat BY <1>5
<1>9. Len(u) <= n BY <1>7, <1>8
<1>10. ASSUME S # {}, n # 0 PROVE u # <<>>
  <2>1. Cardinality(S) # 0 BY <1>1, <1>10, FS_EmptySet
  <2>2. Len(u) # 0 BY <1>3, <1>7, <1>10, <2>1
  <2> QED BY <2>2
<1>11. \A i, j \in 1..Len(r) : i < j => Above(key[r[i]], key[r[j]]) BY <1>3, <1>4
<1>12. u = Upto(Ranked(S, key), n) BY DEF u, r
<1>13. r = Ranked(S, key) BY DEF r
<1> QED BY <1>3, <1>5, <1>6, <1>9, <1>10, <1>11, <1>12, <1>13

\* A pool of cold candidates has no book twice.
PoolFine == pool = None \/ (pool \in Seq(Books) /\ Distinct(pool))

LEMMA ColdPoolFine ==
    ASSUME available \subseteq Books, PoolFine
    PROVE  ColdPool \in Seq(Books) /\ Distinct(ColdPool)
<1> DEFINE top == Upto(Ranked(available, BySales), ColdBySales)
           news == Upto(Ranked(available, ByNewest), ColdByNewest)
           more == Without(news, ToSet(top))
<1>0. available \in SUBSET Books /\ ColdBySales \in Nat /\ ColdByNewest \in Nat BY FeedAssumption
<1>1. top \in Seq(Books) /\ Distinct(top) BY <1>0, Keys, BooksRanked
<1>2. news \in Seq(Books) /\ Distinct(news) BY <1>0, Keys, BooksRanked
<1>e. FetchCold = top \o more BY DEF FetchCold
<1> HIDE DEF top, news
<1>3. more \in Seq(Books) /\ ToSet(more) = ToSet(news) \ ToSet(top) BY <1>2, Rest
<1>4. Distinct(more) BY <1>2, Rest
<1> HIDE DEF more
<1>5. top \o more \in Seq(Books) BY <1>1, <1>3, Joined
<1>6. Distinct(top \o more) BY <1>1, <1>3, <1>4, JoinedOnce
<1> QED BY <1>e, <1>5, <1>6 DEF ColdPool, PoolFine

\* What is left of it, or of any list of books, without the excluded ones.
LEMMA LeftOver ==
    ASSUME NEW q \in Seq(Books), Distinct(q), NEW X
    PROVE  Without(q, X) \in Seq(Books) /\ Distinct(Without(q, X)) /\ ToSet(Without(q, X)) \cap X = {}
<1>1. Without(q, X) \in Seq(Books) /\ ToSet(Without(q, X)) = ToSet(q) \ X BY Rest
<1>2. Distinct(Without(q, X)) BY Rest
<1> QED BY <1>1, <1>2

\* The first books by key leave none out before the last of them.
LEMMA NoKeyLeftOut ==
    ASSUME NEW S \in SUBSET Books, NEW limit \in Nat \ {0},
           Upto(Ranked(S, ByRandomKey), limit) # <<>>
    PROVE  LET u == Upto(Ranked(S, ByRandomKey), limit)
           IN  /\ Last(u) \in S
               /\ \A b \in S : RandomKey[b] <= RandomKey[Last(u)] => b \in ToSet(u)
<1> DEFINE r == Ranked(S, ByRandomKey)
           u == Upto(r, limit)
           m == Len(u)
<1>1. r \in Seq(Books) /\ ToSet(r) = S /\ limit \in Nat BY Keys, BooksRanked
<1>2. \A i, j \in 1..Len(r) : i < j => Above(ByRandomKey[r[i]], ByRandomKey[r[j]])
  BY Keys, BooksRanked
<1>3. u # <<>> OBVIOUS
<1>e. u = Upto(Ranked(S, ByRandomKey), limit) OBVIOUS
<1> HIDE DEF r
<1>4. /\ u \in Seq(Books) /\ Len(u) = IF limit <= Len(r) THEN limit ELSE Len(r)
      /\ \A i \in 1..Len(u) : u[i] = r[i]
  BY <1>1, FirstOf
<1> HIDE DEF u
<1>5. /\ Len(r) \in Nat /\ ToSet(r) = {r[i] : i \in 1..Len(r)}
      /\ m \in Nat /\ ToSet(u) = {u[i] : i \in 1..m}
  BY <1>1, <1>4, Elements
<1>6. m \in 1..m /\ m \in 1..Len(r) /\ m <= Len(r)
  <2>1. m # 0 BY <1>3, <1>4
  <2> QED BY <1>4, <1>5, <2>1
<1>7. Last(u) = r[m] /\ r[m] \in S BY <1>1, <1>4, <1>5, <1>6 DEF Last
<1>8. ASSUME NEW b \in S, RandomKey[b] <= RandomKey[Last(u)] PROVE b \in ToSet(u)
  <2>1. PICK i \in 1..Len(r) : b = r[i] BY <1>1, <1>5
  <2>2. CASE i <= m
    <3>1. i \in 1..m BY <1>5, <2>2
    <3> QED BY <1>4, <1>5, <2>1, <3>1
  <2>3. CASE ~ (i <= m)
    <3>1. m < i BY <1>5, <2>3
    <3>2. Above(ByRandomKey[r[m]], ByRandomKey[b]) BY <1>2, <1>6, <2>1, <3>1
    <3>3. /\ ByRandomKey[r[m]] = <<-RandomKey[r[m]], 0>> /\ ByRandomKey[b] = <<-RandomKey[b], 0>>
          /\ RandomKey[r[m]] \in Nat /\ RandomKey[b] \in Nat
      BY <1>7, BooksAreNumbers DEF ByRandomKey
    <3> DEFINE x == RandomKey[r[m]]
               y == RandomKey[b]
    <3>4. Above(<<-x, 0>>, <<-y, 0>>) /\ x \in Nat /\ y \in Nat /\ y <= x
      BY <1>7, <1>8, <3>2, <3>3
    <3> HIDE DEF x, y
    <3>5. FALSE BY <3>4 DEF Above
    <3> QED BY <3>5
  <2> QED BY <2>2, <2>3
<1> QED BY <1>7, <1>8, <1>e

\* Exploration: excluded books never come back, when it finds nothing every book
\* on sale is excluded, and its key moves only past what it found or what was excluded.
LEMMA Explored ==
    ASSUME available \subseteq Books, NEW cur \in FeedCursors, NEW X, NEW limit \in Nat \ {0},
           NEW e \in Explore(cur, X, limit)
    PROVE  /\ Fine(e.ids, X, limit) /\ e.key \in Nat \cup {None}
           /\ e.ids = <<>> => available \subseteq X
           /\ cur.key # None => \A b \in available :
                  OnTheWay(RandomKey[b], cur.key, e.key) => b \in X \cup ToSet(e.ids)
<1> DEFINE beyond(k) == {b \in available \ X : RandomKey[b] > k}
           after(k) == Upto(Ranked(beyond(k), ByRandomKey), limit)
           finds(k) == IF after(k) # <<>> THEN after(k) ELSE after(0)
           from == IF cur.key = None THEN {RandomKey[b] : b \in Books} ELSE {cur.key}
<1>1. PICK k \in from : e = [ids |-> finds(k),
                             key |-> IF finds(k) = <<>> THEN k ELSE RandomKey[Last(finds(k))]]
  BY DEF Explore
<1>2. k \in Nat BY BooksAreNumbers DEF FeedCursors
<1>3. \A l : /\ after(l) \in Seq(Books) /\ Distinct(after(l)) /\ ToSet(after(l)) \subseteq beyond(l)
             /\ Len(after(l)) <= limit /\ (beyond(l) # {} => after(l) # <<>>)
             /\ after(l) # <<>> =>
                   /\ Last(after(l)) \in beyond(l)
                   /\ \A b \in beyond(l) : RandomKey[b] <= RandomKey[Last(after(l))] => b \in ToSet(after(l))
  <2> SUFFICES ASSUME NEW l
               PROVE  /\ after(l) \in Seq(Books) /\ Distinct(after(l)) /\ ToSet(after(l)) \subseteq beyond(l)
                      /\ Len(after(l)) <= limit /\ (beyond(l) # {} => after(l) # <<>>)
                      /\ after(l) # <<>> =>
                            /\ Last(after(l)) \in beyond(l)
                            /\ \A b \in beyond(l) :
                                 RandomKey[b] <= RandomKey[Last(after(l))] => b \in ToSet(after(l))
    OBVIOUS
  <2> DEFINE S == beyond(l)
  <2>1. S \in SUBSET Books /\ limit \in Nat /\ limit # 0 OBVIOUS
  <2> HIDE DEF S
  <2> DEFINE u == Upto(Ranked(S, ByRandomKey), limit)
  <2>2. u \in Seq(Books) /\ Distinct(u) BY <2>1, Keys, BooksRanked
  <2>3. ToSet(u) \subseteq S /\ Len(u) <= limit BY <2>1, Keys, BooksRanked
  <2>4. S # {} => u # <<>> BY <2>1, Keys, BooksRanked
  <2>5. u # <<>> => /\ Last(u) \in S
                    /\ \A b \in S : RandomKey[b] <= RandomKey[Last(u)] => b \in ToSet(u)
    BY <2>1, NoKeyLeftOut
  <2> HIDE DEF u
  <2>6. u = after(l) BY DEF u, S
  <2> QED BY <2>2, <2>3, <2>4, <2>5, <2>6 DEF S
<1>4. \A l : beyond(l) \cap X = {} OBVIOUS
<1>b. \A l, b : b \in beyond(l) <=> b \in available /\ b \notin X /\ RandomKey[b] > l OBVIOUS
<1>5. ASSUME finds(k) = <<>> PROVE available \subseteq X
  <2>1. after(0) = <<>> BY <1>5
  <2>2. beyond(0) = {} BY <1>3, <2>1
  <2>3. \A b \in available : RandomKey[b] > 0 BY BooksAreNumbers
  <2> QED BY <2>2, <2>3
<1> HIDE DEF after, beyond
<1>6. Fine(finds(k), X, limit) BY <1>3, <1>4 DEF Fine
<1>k. \A b \in available : RandomKey[b] \in Nat /\ RandomKey[b] > 0 BY BooksAreNumbers
<1>7. finds(k) # <<>> => RandomKey[Last(finds(k))] \in Nat
  BY <1>3, <1>b, <1>k
<1>8. ASSUME cur.key # None, NEW b \in available, OnTheWay(RandomKey[b], k, e.key), b \notin X
      PROVE  b \in ToSet(finds(k))
  <2>1. RandomKey[b] \in Nat /\ (b \in beyond(k) <=> RandomKey[b] > k) /\ b \in beyond(0)
    BY <1>8, <1>b, <1>k
  <2>2. CASE after(k) # <<>>
    <3> DEFINE last == RandomKey[Last(after(k))]
    <3>1. finds(k) = after(k) /\ e.key = last BY <1>1, <2>2
    <3>2. last > k /\ last \in Nat BY <1>3, <1>b, <1>k, <2>2
    <3>3. RandomKey[b] > k /\ RandomKey[b] <= last
      BY <1>2, <1>8, <2>1, <3>1, <3>2 DEF OnTheWay
    <3> QED BY <1>3, <2>1, <2>2, <3>1, <3>3
  <2>3. CASE after(k) = <<>>
    <3>1. finds(k) = after(0) /\ beyond(k) = {} BY <1>3, <2>3
    <3>2. finds(k) # <<>> BY <1>5, <1>8
    <3> DEFINE last == RandomKey[Last(after(0))]
    <3>3. e.key = last BY <1>1, <3>1, <3>2
    <3>4. Last(after(0)) \in beyond(0) BY <1>3, <3>1, <3>2
    <3>5. last \in Nat /\ ~ (last > k) BY <1>b, <1>k, <3>1, <3>4
    <3>6. ~ (k < RandomKey[b]) BY <1>2, <2>1, <3>1
    <3>7. RandomKey[b] <= last BY <1>2, <1>8, <2>1, <3>3, <3>5, <3>6 DEF OnTheWay
    <3> QED BY <1>3, <2>1, <3>1, <3>2, <3>7
  <2> QED BY <2>2, <2>3
<1>9. cur.key # None => k = cur.key OBVIOUS
<1>10. e.ids = finds(k) BY <1>1
<1> HIDE DEF finds
<1> QED BY <1>1, <1>2, <1>5, <1>6, <1>7, <1>8, <1>9, <1>10

LEMMA NewFetched ==
    ASSUME available \subseteq Books, NEW cur \in FeedCursors, NEW X, NEW limit \in Nat,
           NEW e \in NewBooks(cur, X, limit)
    PROVE  Fine(e.ids, X, limit) /\ e.newest \in Books \cup {None}
<1> DEFINE ahead(b) == /\ profile.categories # <<>> => Category[b] \in ToSet(profile.categories)
                       /\ cur.newest # None => b < cur.newest
           S == {b \in available : ahead(b)}
           n == limit * CandidateMult
           window == Upto(Ranked(S, ByNewest), n)
           q == Without(window, X)
<1>1. PICK p \in NewPicks(q, limit) :
         e = [ids |-> p, newest |-> IF p = <<>> THEN cur.newest ELSE Min(ToSet(p))]
  BY DEF NewBooks
<1>s. S \in SUBSET Books OBVIOUS
<1>n. n \in Nat BY SamplingAssumption
<1> HIDE DEF S, n
<1>2. S \in SUBSET Books /\ n \in Nat BY <1>s, <1>n
<1>3. window \in Seq(Books) /\ Distinct(window) BY <1>2, Keys, BooksRanked
<1> HIDE DEF window
<1>4. q \in Seq(Books) /\ Distinct(q) /\ ToSet(q) \cap X = {} BY <1>3, LeftOver
<1> HIDE DEF q
<1>5. Fine(p, X, limit) BY <1>4, NewFine
<1>6. p # <<>> => Min(ToSet(p)) \in Books
  <2>1. ASSUME p # <<>> PROVE Min(ToSet(p)) \in Books
    <3>1. p \in Seq(Books) BY <1>5 DEF Fine
    <3>2. ToSet(p) \subseteq Books /\ ToSet(p) = {p[i] : i \in 1..Len(p)} BY <3>1, Elements
    <3>3. 1 \in 1..Len(p) BY <2>1, <3>1
    <3>4. ToSet(p) # {} /\ ToSet(p) \subseteq Nat BY <3>2, <3>3, BooksAreNumbers
    <3> QED BY <3>2, <3>4, MinIn
  <2> QED BY <2>1
<1>7. cur.newest \in Books \cup {None} BY DEF FeedCursors
<1> QED BY <1>1, <1>5, <1>6, <1>7

\* A weighted sample of something is not empty.
LEMMA SampledSome ==
    ASSUME NEW items \in Seq(Books), items # <<>>, NEW heavy, NEW limit \in Nat \ {0},
           NEW p \in WeightedSamples(items, heavy, limit)
    PROVE  p # <<>>
<1> DEFINE drawable == IF ToSet(items) \cap heavy = {} THEN ToSet(items)
                                                      ELSE ToSet(items) \cap heavy
           draws == {d \in SetToAllKPermutations(drawable) : Len(d) \in 1..limit}
<1>1. PICK d \in draws : p = Upto(d \o Without(items, ToSet(d)), limit) BY DEF WeightedSamples
<1>2. PICK s \in SUBSET drawable : d \in SetToSeqs(s) BY DEF SetToAllKPermutations
<1>3. Len(d) \in 1..limit BY <1>1
<1>4. s \in SUBSET Books
  <2>1. drawable \subseteq ToSet(items) /\ ToSet(items) \subseteq Books BY Elements
  <2> QED BY <2>1
<1> HIDE DEF drawable, draws
<1>5. d \in [1..Cardinality(s) -> s] /\ Cardinality(s) \in Nat BY <1>2, <1>4, BooksFinite DEF SetToSeqs
<1>6. d \in Seq(Books) BY <1>4, <1>5
<1> DEFINE r == Without(items, ToSet(d))
<1>7. r \in Seq(Books) BY Rest
<1> HIDE DEF r
<1>8. d \o r \in Seq(Books) /\ Len(d \o r) = Len(d) + Len(r) BY <1>6, <1>7, Joined
<1>9. Len(r) \in Nat /\ Len(d) \in Nat BY <1>6, <1>7
<1>10. Len(p) = IF limit <= Len(d \o r) THEN limit ELSE Len(d \o r) BY <1>1, <1>8, FirstOf DEF r
<1>11. Len(p) # 0 BY <1>3, <1>8, <1>9, <1>10
<1> QED BY <1>11

\* The least popular of some books.
Lowest(S) == CHOOSE m \in S : \A b \in S :
                 \/ Popularity[m] < Popularity[b]
                 \/ Popularity[m] = Popularity[b] /\ m >= b

LEMMA LowestIn ==
    ASSUME NEW S \in SUBSET Books, S # {}
    PROVE  Lowest(S) \in S
<1> DEFINE key == [b \in Books |-> <<Popularity[b], -b>>]
           r == Ranked(S, key)
           n == Len(r)
<1>1. KeyOfBooks(key)
  <2>m. \A i, j \in Nat : -i = -j => i = j OBVIOUS
  <2> QED BY <2>m, BooksAreNumbers DEF KeyOfBooks
<1>k. \A b \in Books : key[b] = <<Popularity[b], -b>> OBVIOUS
<1> HIDE DEF key
<1>2. r \in Seq(Books) /\ ToSet(r) = S BY <1>1, BooksRanked
<1>3. \A i, j \in 1..n : i < j => Above(key[r[i]], key[r[j]]) BY <1>1, BooksRanked
<1> HIDE DEF r
<1>4. n \in Nat /\ ToSet(r) = {r[i] : i \in 1..n} BY <1>2, Elements
<1>5. n \in 1..n BY <1>2, <1>4
<1>6. r[n] \in S BY <1>2, <1>4, <1>5
<1>7. ASSUME NEW b \in S
      PROVE  Popularity[r[n]] < Popularity[b] \/ (Popularity[r[n]] = Popularity[b] /\ r[n] >= b)
  <2>1. PICK i \in 1..n : b = r[i] BY <1>2, <1>4
  <2>2. /\ r[n] \in Nat /\ Popularity[r[n]] \in Nat /\ b \in Nat /\ Popularity[b] \in Nat
        /\ r[n] \in Books /\ b \in Books
    BY <1>6, BooksAreNumbers
  <2>3. CASE i = n BY <2>1, <2>2, <2>3
  <2>4. CASE i # n
    <3>1. i < n BY <1>4, <2>4
    <3>2. Above(key[b], key[r[n]]) BY <1>3, <1>5, <2>1, <3>1
    <3>3. key[b][1] = Popularity[b] /\ key[b][2] = -b BY <1>k, <2>2
    <3>4. key[r[n]][1] = Popularity[r[n]] /\ key[r[n]][2] = -r[n] BY <1>k, <2>2
    <3> HIDE DEF n
    <3> QED BY <2>2, <3>2, <3>3, <3>4 DEF Above
  <2> QED BY <2>3, <2>4
<1> QED BY <1>6, <1>7 DEF Lowest

LEMMA PopularFetched ==
    ASSUME available \subseteq Books, PoolFine, NEW cur \in FeedCursors, NEW X,
           NEW limit \in Nat \ {0}, NEW e \in PopularBooks(cur, X, limit)
    PROVE  Fine(e.ids, X, limit) /\ e.popular \in Books \cup {None}
<1> DEFINE below(b) == cur.popular # None => Above(ByPopularity[cur.popular], ByPopularity[b])
           S == {b \in available : Popularity[b] > 0 /\ below(b)}
           n == limit * WideMult
           ranked == Upto(Ranked(S, ByPopularity), n)
           q == Without(ranked, X)
           cold == Without(ColdPool, X)
<1>1. \/ \E p \in DiversifiedPicks(cold, limit) : e = [ids |-> p, popular |-> None]
      \/ e = [ids |-> <<>>, popular |-> cur.popular]
      \/ q # <<>> /\ \E p \in WeightedSamples(q, ToSet(q), limit) :
             e = [ids |-> p, popular |-> Lowest(ToSet(p))]
  BY DEF PopularBooks, Lowest
<1>2. S \in SUBSET Books OBVIOUS
<1>3. n \in Nat BY FeedAssumption
<1>4. limit \in Nat OBVIOUS
<1> HIDE DEF S, n
<1>5. ranked \in Seq(Books) /\ Distinct(ranked) BY <1>2, <1>3, Keys, BooksRanked
<1> HIDE DEF ranked
<1>6. q \in Seq(Books) /\ Distinct(q) /\ ToSet(q) \cap X = {} BY <1>5, LeftOver
<1> HIDE DEF q
<1>7. ColdPool \in Seq(Books) /\ Distinct(ColdPool) BY ColdPoolFine
<1>8. cold \in Seq(Books) /\ Distinct(cold) /\ ToSet(cold) \cap X = {} BY <1>7, LeftOver
<1> HIDE DEF cold
<1>9. cur.popular \in Books \cup {None} BY DEF FeedCursors
<1>10. ASSUME NEW p \in DiversifiedPicks(cold, limit), e = [ids |-> p, popular |-> None]
       PROVE  Fine(e.ids, X, limit) /\ e.popular \in Books \cup {None}
  <2>1. Fine(p, X, limit) BY <1>4, <1>8, DiversifiedFine
  <2> QED BY <1>10, <2>1
<1>11. ASSUME e = [ids |-> <<>>, popular |-> cur.popular]
       PROVE  Fine(e.ids, X, limit) /\ e.popular \in Books \cup {None}
  <2>1. Fine(<<>>, X, limit) BY NothingPicked DEF Fine
  <2> QED BY <1>9, <1>11, <2>1
<1>12. ASSUME q # <<>>, NEW p \in WeightedSamples(q, ToSet(q), limit),
              e = [ids |-> p, popular |-> Lowest(ToSet(p))]
       PROVE  Fine(e.ids, X, limit) /\ e.popular \in Books \cup {None}
  <2>1. Fine(p, X, limit) BY <1>4, <1>6, SamplesFine
  <2>2. p # <<>> BY <1>6, <1>12, SampledSome
  <2>3. p \in Seq(Books) BY <2>1 DEF Fine
  <2>4. ToSet(p) \subseteq Books /\ ToSet(p) = {p[i] : i \in 1..Len(p)} /\ 1 \in 1..Len(p)
    BY <2>2, <2>3, Elements
  <2> DEFINE s == ToSet(p)
  <2>s. s \in SUBSET Books /\ s # {} BY <2>4
  <2> HIDE DEF s
  <2>l. Lowest(s) \in s BY <2>s, LowestIn
  <2>5. Lowest(ToSet(p)) \in ToSet(p) BY <2>l DEF s
  <2> QED BY <1>12, <2>1, <2>4, <2>5
<1> QED BY <1>1, <1>10, <1>11, <1>12

\* The nearest points are not excluded ones.
LEMMA NearestFine ==
    ASSUME indexed \subseteq Books, NEW X, NEW C, NEW limit \in Nat
    PROVE  /\ Nearest(X, C, limit) \in Seq(Books) /\ Distinct(Nearest(X, C, limit))
           /\ ToSet(Nearest(X, C, limit)) \cap X = {}
<1> DEFINE S == {b \in indexed \ X : Category[b] \in C}
           u == Upto(Ranked(S, ByAffinity), limit)
<1>1. S \in SUBSET Books /\ S \cap X = {} OBVIOUS
<1>e. Nearest(X, C, limit) = u BY DEF Nearest
<1> HIDE DEF S
<1>2. u \in Seq(Books) /\ Distinct(u) BY <1>1, Keys, BooksRanked
<1>3. ToSet(u) \subseteq S BY <1>1, Keys, BooksRanked
<1> QED BY <1>1, <1>2, <1>3, <1>e

LEMMA RerankFine ==
    ASSUME NEW points \in Seq(Books)
    PROVE  Rerank(points) \in Seq(Books) /\ Distinct(Rerank(points)) /\ ToSet(Rerank(points)) = ToSet(points)
<1> DEFINE Boosted(b) == Affinity[b] *
             (100 + (IF Category[b] \in ToSet(Upto(profile.categories, 3)) THEN 15 ELSE 0)
                  + (IF Author[b] \in ToSet(Upto(profile.authors, 3)) THEN 10 ELSE 0))
           key == [b \in Books |-> <<Boosted(b), -b>>]
<1>1. \A b \in Books : Boosted(b) \in Int BY BooksAreNumbers
<1> HIDE DEF Boosted
<1>2. KeyOfBooks(key)
  <2>m. \A i, j \in Nat : -i = -j => i = j OBVIOUS
  <2> QED BY <1>1, <2>m, BooksAreNumbers DEF KeyOfBooks
<1>3. Rerank(points) = Ranked(ToSet(points), key) BY DEF Rerank, Boosted
<1> HIDE DEF key
<1>4. ToSet(points) \in SUBSET Books BY Elements
<1> QED BY <1>2, <1>3, <1>4, BooksRanked

LEMMA TasteFetched ==
    ASSUME indexed \subseteq Books, NEW X, NEW offset, NEW limit \in Nat,
           NEW p \in Collaborative(X, offset, limit)
    PROVE  Fine(p, X, limit)
<1>1. CASE TasteRanking = <<>>
  <2>1. p = <<>> BY <1>1 DEF Collaborative
  <2> QED BY <2>1, NothingPicked DEF Fine
<1>2. CASE TasteRanking # <<>>
  <2>1. PICK C : p \in WeightedSamples(Nearest(X, C, limit * WideMult), Positive, limit)
    BY <1>2 DEF Collaborative
  <2>2. limit * WideMult \in Nat BY FeedAssumption
  <2> DEFINE q == Nearest(X, C, limit * WideMult)
  <2>3. q \in Seq(Books) /\ Distinct(q) /\ ToSet(q) \cap X = {} BY <2>2, NearestFine
  <2> HIDE DEF q
  <2>4. p \in WeightedSamples(q, Positive, limit) BY <2>1 DEF q
  <2> QED BY <2>3, <2>4, SamplesFine
<1> QED BY <1>1, <1>2

LEMMA ColdFetched ==
    ASSUME available \subseteq Books, PoolFine, NEW X, NEW limit \in Nat, NEW p \in ColdStart(X, limit)
    PROVE  Fine(p, X, limit)
<1> DEFINE S == {b \in available : Category[b] \in ToSet(profile.categories)}
           u == Upto(Ranked(S, BySales), limit * CandidateMult)
           q == Without(u, X)
           cold == Without(ColdPool, X)
<1>1. p \in WeightedSamples(q, ToSet(q), limit) \/ p \in DiversifiedPicks(cold, limit) BY DEF ColdStart
<1>2. S \in SUBSET Books OBVIOUS
<1>3. limit * CandidateMult \in Nat BY SamplingAssumption
<1> HIDE DEF S
<1>4. u \in Seq(Books) /\ Distinct(u) BY <1>2, <1>3, Keys, BooksRanked
<1> HIDE DEF u
<1>5. q \in Seq(Books) /\ Distinct(q) /\ ToSet(q) \cap X = {} BY <1>4, LeftOver
<1> HIDE DEF q
<1>6. ColdPool \in Seq(Books) /\ Distinct(ColdPool) BY ColdPoolFine
<1>7. cold \in Seq(Books) /\ Distinct(cold) /\ ToSet(cold) \cap X = {} BY <1>6, LeftOver
<1> HIDE DEF cold
<1>8. p \in WeightedSamples(q, ToSet(q), limit) => Fine(p, X, limit) BY <1>5, SamplesFine
<1>9. p \in DiversifiedPicks(cold, limit) => Fine(p, X, limit) BY <1>7, DiversifiedFine
<1> QED BY <1>1, <1>8, <1>9

LEMMA PersonalFetched ==
    ASSUME available \subseteq Books, indexed \subseteq Books, PoolFine, profile \in Profiles,
           NEW cur \in FeedCursors, NEW X, NEW limit \in Nat \ {0}, NEW e \in Personalized(cur, X, limit)
    PROVE  /\ Fine(e.ids, X, limit)
           /\ e.status \in [mode : {"vector", "collaborative"}, vectorOffset : Nat, tasteOffset : Nat]
<1> DEFINE Y == X \cup profile.purchased
           n == limit * WideMult
           points == Nearest(Y, AllCategories, n)
           Statuses == [mode : {"vector", "collaborative"}, vectorOffset : Nat, tasteOffset : Nat]
           Status(mode, v, t) == [mode |-> mode, vectorOffset |-> v, tasteOffset |-> t]
           Is(p, st) == e = [ids |-> p, status |-> st]
<1>0. profile.vector \in BOOLEAN BY FeedAssumption
<1>1. /\ cur.mode \in {"vector", "collaborative"} /\ cur.vectorOffset \in Nat
      /\ cur.tasteOffset \in Nat /\ OffsetLimit \in Nat /\ limit \in Nat /\ n \in Nat
  BY FeedAssumption DEF FeedCursors
<1>2. \/ \E p \in ColdStart(Y, limit) : Is(p, Status("vector", 0, 0))
      \/ \E o \in Nat, p \in Collaborative(Y, cur.tasteOffset, limit) :
             Is(p, Status("collaborative", o, cur.tasteOffset + limit))
      \/ \E p \in WeightedDiversify(Rerank(points), Positive, limit) :
             Is(p, Status("vector", cur.vectorOffset + limit, 0))
  <2>1. CASE ~ profile.vector
    <3>1. \E p \in ColdStart(Y, limit) : Is(p, Status("vector", 0, 0)) BY <1>0, <2>1 DEF Personalized
    <3> QED BY <3>1
  <2>2. CASE profile.vector /\ (cur.vectorOffset >= OffsetLimit \/ cur.mode = "collaborative")
    <3>1. \E p \in Collaborative(Y, cur.tasteOffset, limit) :
             Is(p, Status("collaborative", OffsetLimit, cur.tasteOffset + limit))
      <4>1. e \in {[ids |-> p, status |-> Status("collaborative", OffsetLimit, cur.tasteOffset + limit)] :
                        p \in Collaborative(Y, cur.tasteOffset, limit)}
        <5> DEFINE T == {[ids |-> p, status |-> Status("collaborative", OffsetLimit, cur.tasteOffset + limit)] :
                            p \in Collaborative(Y, cur.tasteOffset, limit)}
        <5>1. Personalized(cur, X, limit) = T
          <6>1. ~ (~ profile.vector) /\ ~ (cur.vectorOffset < OffsetLimit /\ cur.mode = "vector")
            BY <1>1, <2>2
          <6> QED BY <2>2, <6>1, Zenon DEF Personalized
        <5>2. e \in T
          <6> HIDE DEF T
          <6> QED BY <5>1
        <5> QED BY <5>2
      <4> QED BY <4>1
    <3> QED BY <1>1, <3>1
  <2>3. CASE profile.vector /\ cur.vectorOffset < OffsetLimit /\ cur.mode = "vector"
    <3>1. ~ (cur.vectorOffset >= OffsetLimit \/ cur.mode = "collaborative") BY <1>1, <2>3
    <3>2. \/ \E p \in Collaborative(Y, cur.tasteOffset, limit) :
                Is(p, Status("collaborative", cur.vectorOffset, cur.tasteOffset + limit))
          \/ \E p \in WeightedDiversify(Rerank(points), Positive, limit) :
                Is(p, Status("vector", cur.vectorOffset + limit, 0))
      BY <1>0, <2>3, <3>1 DEF Personalized
    <3> QED BY <1>1, <3>2
  <2>4. cur.vectorOffset < OffsetLimit \/ cur.vectorOffset >= OffsetLimit BY <1>1
  <2> QED BY <1>0, <1>1, <2>1, <2>2, <2>3, <2>4
<1>3. \A p : Fine(p, Y, limit) => Fine(p, X, limit) BY DEF Fine
<1>4. \A p \in ColdStart(Y, limit) : Fine(p, Y, limit) BY <1>1, ColdFetched
<1>5. \A p \in Collaborative(Y, cur.tasteOffset, limit) : Fine(p, Y, limit) BY <1>1, TasteFetched
<1>6. points \in Seq(Books) /\ Distinct(points) /\ ToSet(points) \cap Y = {} BY <1>1, NearestFine
<1> HIDE DEF points, n, Y
<1> DEFINE q == Rerank(points)
<1>7. q \in Seq(Books) /\ Distinct(q) /\ ToSet(q) = ToSet(points) BY <1>6, RerankFine
<1> HIDE DEF q
<1>8. \A p \in WeightedDiversify(q, Positive, limit) : Fine(p, Y, limit)
  <2>1. ToSet(q) \cap Y = {} BY <1>6, <1>7
  <2> QED BY <1>1, <1>7, <2>1, WeightedFine
<1>9. cur.vectorOffset + limit \in Nat /\ cur.tasteOffset + limit \in Nat /\ 0 \in Nat BY <1>1
<1>10. ASSUME NEW p, NEW st \in Statuses, Fine(p, X, limit), Is(p, st)
       PROVE  Fine(e.ids, X, limit) /\ e.status \in Statuses
  BY <1>10
<1>11. \A o \in Nat : /\ Status("vector", 0, 0) \in Statuses
                      /\ Status("collaborative", o, cur.tasteOffset + limit) \in Statuses
                      /\ Status("vector", cur.vectorOffset + limit, 0) \in Statuses
  BY <1>9
<1> HIDE DEF Is, Statuses, Status
<1>12. CASE \E p \in ColdStart(Y, limit) : Is(p, Status("vector", 0, 0))
  <2>1. PICK p \in ColdStart(Y, limit) : Is(p, Status("vector", 0, 0)) BY <1>12
  <2>2. Fine(p, X, limit) /\ Status("vector", 0, 0) \in Statuses BY <1>3, <1>4, <1>11
  <2>3. Fine(e.ids, X, limit) /\ e.status \in Statuses BY <1>10, <2>1, <2>2
  <2> QED BY <2>3 DEF Statuses
<1>13. CASE \E o \in Nat, p \in Collaborative(Y, cur.tasteOffset, limit) :
               Is(p, Status("collaborative", o, cur.tasteOffset + limit))
  <2>1. PICK o \in Nat, p \in Collaborative(Y, cur.tasteOffset, limit) :
               Is(p, Status("collaborative", o, cur.tasteOffset + limit))
    BY <1>13
  <2>2. Fine(p, X, limit) /\ Status("collaborative", o, cur.tasteOffset + limit) \in Statuses
    BY <1>3, <1>5, <1>11
  <2>3. Fine(e.ids, X, limit) /\ e.status \in Statuses BY <1>10, <2>1, <2>2
  <2> QED BY <2>3 DEF Statuses
<1>14. CASE \E p \in WeightedDiversify(q, Positive, limit) :
               Is(p, Status("vector", cur.vectorOffset + limit, 0))
  <2>1. PICK p \in WeightedDiversify(q, Positive, limit) : Is(p, Status("vector", cur.vectorOffset + limit, 0))
    BY <1>14
  <2>2. Fine(p, X, limit) /\ Status("vector", cur.vectorOffset + limit, 0) \in Statuses
    BY <1>3, <1>8, <1>11
  <2>3. Fine(e.ids, X, limit) /\ e.status \in Statuses BY <1>10, <2>1, <2>2
  <2> QED BY <2>3 DEF Statuses
<1> QED BY <1>2, <1>12, <1>13, <1>14 DEF q

-----------------------------------------------------------------------------
(* The session *)

Loaded == [pc : {"loaded"}, at : FeedCursors, excluded : SUBSET Books]
Mixes == [pc : {"mixed"}, at : FeedCursors, excluded : SUBSET Books, failed : FailureSets,
          page : SUBSET Books, next : FeedCursors]
Hydrates == [pc : {"hydrated", "answered"}, failed : FailureSets, page : SUBSET Books,
             books : SUBSET Books, next : FeedCursors]
AllRequests == {NoRequest} \cup Loaded \cup Mixes \cup Hydrates

FeedShape ==
    /\ upsets \in [retry : Nat, failure : Nat, change : Nat, lapse : Nat]
    /\ cursor \in FeedCursors \cup {None, End}
    /\ PoolFine
    /\ req \in [Requests -> AllRequests]

\* A page holds nothing that was excluded, is empty only when every book on sale was
\* excluded or exploration failed, and its cursor keeps what it does not show.
MixIsTrue(m) ==
    /\ m.page \cap m.excluded = {}
    /\ m.page = {} /\ "exploration" \notin m.failed => available \subseteq m.excluded
    /\ \A s \in m.failed : Part(s, m.next) = Part(s, m.at)
    /\ "exploration" \notin m.failed /\ m.at.key # None =>
         \A b \in available :
             OnTheWay(RandomKey[b], m.at.key, m.next.key) => b \in m.excluded \cup m.page

\* An answer holds the books of the page that still have a row.
AnswerIsTrue(m) ==
    /\ m.page \cap rows \subseteq m.books
    /\ m.page = {} /\ "exploration" \notin m.failed => available \subseteq served

PagesAreTrue ==
    \A r \in Requests : /\ req[r].pc = "mixed" => MixIsTrue(req[r])
                        /\ req[r].pc \in {"hydrated", "answered"} => AnswerIsTrue(req[r])

\* Only what was served is excluded.
SeenWasServed ==
    /\ ToSet(seen) \subseteq served
    /\ \A r \in Requests : req[r].pc \in {"loaded", "mixed"} => req[r].excluded \subseteq served

\* While nothing is sent twice and the list lives, one request is in flight, and
\* until the list is too short for it everything served is excluded, and stays so
\* until the page is recorded.
Calm ==
    upsets.retry = 0 /\ upsets.lapse = 0 =>
        /\ \A q, r \in Requests : req[q].pc # "idle" /\ req[r].pc # "idle" => q = r
        /\ Cardinality(served) <= MaxExcluded =>
              /\ ToSet(seen) = served /\ Distinct(seen)
              /\ \A r \in Requests :
                    /\ req[r].pc \in {"loaded", "mixed"} => req[r].excluded = served
                    /\ req[r].pc = "hydrated" => req[r].page \cap served = {}

FeedInv == FeedTypeOK /\ FeedShape /\ PagesAreTrue /\ SeenWasServed /\ Calm

LEMMA FeedStarts == FeedInit => FeedInv
<1> SUFFICES ASSUME FeedInit PROVE FeedInv OBVIOUS
<1>1. seen = <<>> /\ served = {} /\ ToSet(seen) = {} /\ Distinct(seen) /\ Len(seen) = 0
  BY NothingPicked DEF FeedInit
<1>2. \A r \in Requests : req[r] = NoRequest /\ req[r].pc = "idle" BY DEF FeedInit, NoRequest
<1>3. FeedTypeOK
  <2>1. MaxExcluded \in Nat BY FeedAssumption
  <2>2. seen \in Seq(Books) BY <1>1
  <2> QED BY <1>1, <1>2, <2>1, <2>2 DEF FeedInit, FeedTypeOK
<1>4. FeedShape BY DEF FeedInit, FeedShape, PoolFine, AllRequests
<1>5. PagesAreTrue /\ SeenWasServed BY <1>1, <1>2 DEF PagesAreTrue, SeenWasServed
<1>6. Calm BY <1>1, <1>2 DEF Calm
<1> QED BY <1>3, <1>4, <1>5, <1>6 DEF FeedInv

LEMMA Upsets ==
    ASSUME FeedShape, NEW sort \in {"retry", "failure", "change", "lapse"}, Upset(sort)
    PROVE  /\ upsets' \in [retry : Nat, failure : Nat, change : Nat, lapse : Nat]
           /\ sort \in {"failure", "change"} => upsets'.retry = upsets.retry /\ upsets'.lapse = upsets.lapse
           /\ sort = "retry" => upsets'.retry # 0
           /\ sort = "lapse" => upsets'.lapse # 0
BY DEF FeedShape, Upset

LEMMA Requested ==
    ASSUME FeedShape, NEW r \in Requests
    PROVE  /\ req[r].pc = "loaded" => req[r] \in Loaded
           /\ req[r].pc = "mixed" => req[r] \in Mixes
           /\ req[r].pc \in {"hydrated", "answered"} => req[r] \in Hydrates
BY DEF FeedShape, AllRequests, Loaded, Mixes, Hydrates, NoRequest

LEMMA FirstCursor == InitialCursor \in FeedCursors
BY DEF InitialCursor, FeedCursors

LEMMA SendKeeps ==
    ASSUME FeedInv, NEW r \in Requests, Send(r)
    PROVE  FeedInv'
<1> DEFINE m == [pc |-> "loaded", at |-> IF cursor = None THEN InitialCursor ELSE cursor,
                 excluded |-> ToSet(seen')]
<1>1. /\ req[r].pc = "idle" /\ req' = [req EXCEPT ![r] = m]
      /\ UNCHANGED <<profile, rows, available, indexed, pool, cursor>>
  BY DEF Send
<1>0. <<>> \in Seq(Books) /\ Distinct(<<>>) /\ ToSet(<<>>) = {} /\ Len(<<>>) = 0
      /\ MaxExcluded \in Nat /\ 0 <= MaxExcluded
  BY NothingPicked, FeedAssumption
<1>s. \/ seen' = seen /\ served' = served
      \/ seen' = <<>> /\ served' = {} /\ \A q \in Requests : req[q].pc = "idle"
  BY DEF Send
<1>t. seen' \in Seq(Books) /\ Len(seen') <= MaxExcluded /\ served' \subseteq Books
      /\ ToSet(seen') \subseteq served'
  BY <1>0, <1>s DEF FeedInv, FeedTypeOK, SeenWasServed
<1>2. m \in Loaded /\ m.pc = "loaded" /\ m.excluded = ToSet(seen')
  <2>1. ToSet(seen') \subseteq Books BY <1>t, Elements
  <2>2. cursor \in FeedCursors \cup {None, End} /\ cursor # End BY DEF FeedInv, FeedShape, Send
  <2> QED BY <2>1, <2>2, FirstCursor DEF Loaded
<1>3. /\ upsets' \in [retry : Nat, failure : Nat, change : Nat, lapse : Nat]
      /\ (\E q \in Requests : req[q].pc # "idle") => upsets'.retry # 0
      /\ upsets'.retry = 0 /\ upsets'.lapse = 0 => upsets.retry = 0 /\ upsets.lapse = 0
  <2>1. CASE \E q \in Requests : req[q].pc # "idle"
    <3>1. Upset("retry") BY <2>1 DEF Send
    <3> QED BY <3>1, Upsets DEF FeedInv
  <2>2. CASE ~ \E q \in Requests : req[q].pc # "idle"
    <3>1. upsets' = upsets BY <2>2 DEF Send
    <3> QED BY <2>2, <3>1 DEF FeedInv, FeedShape
  <2> QED BY <2>1, <2>2
<1> HIDE DEF m
<1>4. req \in [Requests -> AllRequests] BY DEF FeedInv, FeedShape
<1>5. \A q \in Requests : req'[q] = IF q = r THEN m ELSE req[q] BY <1>1, <1>4
<1>6. FeedTypeOK' BY <1>1, <1>2, <1>5, <1>t DEF FeedInv, FeedTypeOK
<1>7. FeedShape' BY <1>1, <1>2, <1>3, <1>4 DEF FeedInv, FeedShape, PoolFine, AllRequests
<1>8. PagesAreTrue'
  <2>1. CASE served' = served
    BY <1>1, <1>2, <1>5, <2>1 DEF FeedInv, PagesAreTrue, MixIsTrue, AnswerIsTrue
  <2>2. CASE \A q \in Requests : req[q].pc = "idle"
    BY <1>2, <1>5, <2>2 DEF PagesAreTrue
  <2> QED BY <1>s, <2>1, <2>2
<1>9. SeenWasServed'
  <2>1. \A q \in Requests : req'[q].pc \in {"loaded", "mixed"} => req'[q].excluded \subseteq served'
    <3>1. CASE served' = served BY <1>2, <1>5, <1>t, <3>1 DEF FeedInv, SeenWasServed
    <3>2. CASE \A q \in Requests : req[q].pc = "idle" BY <1>2, <1>5, <1>t, <3>2
    <3> QED BY <1>s, <3>1, <3>2
  <2> QED BY <1>t, <2>1 DEF SeenWasServed
<1>10. Calm'
  <2> SUFFICES ASSUME upsets'.retry = 0, upsets'.lapse = 0
               PROVE  /\ \A p, q \in Requests : req'[p].pc # "idle" /\ req'[q].pc # "idle" => p = q
                      /\ Cardinality(served') <= MaxExcluded =>
                            /\ ToSet(seen') = served' /\ Distinct(seen')
                            /\ \A q \in Requests :
                                  /\ req'[q].pc \in {"loaded", "mixed"} => req'[q].excluded = served'
                                  /\ req'[q].pc = "hydrated" => req'[q].page \cap served' = {}
    BY DEF Calm
  <2>1. \A q \in Requests : req[q].pc = "idle" BY <1>3
  <2>2. Cardinality(served) <= MaxExcluded => ToSet(seen) = served /\ Distinct(seen)
    BY <1>3 DEF FeedInv, Calm
  <2>3. Cardinality(served') <= MaxExcluded => ToSet(seen') = served' /\ Distinct(seen')
    BY <1>0, <1>s, <2>2
  <2> QED BY <1>2, <1>5, <2>1, <2>3
<1> QED BY <1>6, <1>7, <1>8, <1>9, <1>10 DEF FeedInv

LEMMA NoneIn ==
    ASSUME NEW q \in Seq(Books), ToSet(q) = {}
    PROVE  q = <<>>
<1>0. \A s \in Seq(Books) : ToSet(s) = {s[i] : i \in 1..Len(s)} /\ Len(s) \in Nat BY Elements
<1>1. ToSet(q) = {q[i] : i \in 1..Len(q)} /\ Len(q) \in Nat BY <1>0
<1>2. Len(q) = 0
  <2>1. ASSUME Len(q) # 0 PROVE FALSE
    <3>1. 1 \in 1..Len(q) BY <1>1, <2>1
    <3> QED BY <1>1, <3>1
  <2> QED BY <2>1
<1> QED BY <1>2

\* What the four sources and the blender make of a loaded request.
LEMMA Gathered ==
    ASSUME FeedInv, NEW r \in Requests, NEW failed \in FailureSets, Gather(r, failed)
    PROVE  \E m \in Mixes : /\ req' = [req EXCEPT ![r] = m] /\ m.excluded = req[r].excluded
                            /\ MixIsTrue(m)
<1> DEFINE cur == req[r].at
           X == req[r].excluded
           n(s) == Slots[s]
           same == [mode |-> cur.mode, vectorOffset |-> cur.vectorOffset, tasteOffset |-> cur.tasteOffset]
           Safe(s, results) == IF s \in failed THEN {Unmoved(cur)[s]} ELSE results
           PerS == Safe("personalized", Personalized(cur, X, n("personalized")))
           PopS == Safe("popular", PopularBooks(cur, X, n("popular")))
           NewS == Safe("new", NewBooks(cur, X, n("new")))
           ExpS == Safe("exploration", Explore(cur, X, n("exploration")))
           Statuses == [mode : {"vector", "collaborative"}, vectorOffset : Nat, tasteOffset : Nat]
<1>1. req[r].pc = "loaded" BY DEF Gather
<1>2. req[r] \in Loaded BY <1>1, Requested DEF FeedInv
<1>3. cur \in FeedCursors /\ X \in SUBSET Books BY <1>2 DEF Loaded
<1>4. PICK per \in PerS, pop \in PopS, new \in NewS, exp \in ExpS :
        LET finds == [personalized |-> per.ids, popular |-> pop.ids,
                      new |-> new.ids, exploration |-> exp.ids]
        IN  \E fresh \in {ToSet(Mix(finds, pattern)) : pattern \in Patterns} :
              req' = [req EXCEPT ![r] =
                [pc |-> "mixed", at |-> cur, excluded |-> X, failed |-> failed,
                 page |-> fresh,
                 next |-> [mode |-> per.status.mode, vectorOffset |-> per.status.vectorOffset,
                           tasteOffset |-> per.status.tasteOffset, popular |-> pop.popular,
                           newest |-> new.newest, key |-> exp.key]]]
  BY DEF Gather
<1>5. available \subseteq Books /\ indexed \subseteq Books /\ PoolFine /\ profile \in Profiles
  BY DEF FeedInv, FeedTypeOK, FeedShape
<1>6. \A s \in Sources : n(s) \in Nat \ {0} /\ n(s) \in Nat BY SamplingAssumption
<1>7. Sources = {"personalized", "popular", "new", "exploration"} BY DEF Sources
<1>8. \A s \in Sources : Fine(<<>>, X, n(s)) BY <1>6, NothingPicked DEF Fine
<1>9. /\ cur.mode \in {"vector", "collaborative"} /\ cur.vectorOffset \in Nat /\ cur.tasteOffset \in Nat
      /\ cur.popular \in Books \cup {None} /\ cur.newest \in Books \cup {None} /\ cur.key \in Nat \cup {None}
  BY <1>3 DEF FeedCursors
<1>10. same \in Statuses BY <1>9
<1>u. /\ Unmoved(cur)["personalized"] = [ids |-> <<>>, status |-> same]
      /\ Unmoved(cur)["popular"] = [ids |-> <<>>, popular |-> cur.popular]
      /\ Unmoved(cur)["new"] = [ids |-> <<>>, newest |-> cur.newest]
      /\ Unmoved(cur)["exploration"] = [ids |-> <<>>, key |-> cur.key]
  BY DEF Unmoved
<1>f. failed \subseteq Sources BY FeedAssumption
<1> HIDE DEF cur, X, n
<1>11. /\ Fine(per.ids, X, n("personalized")) /\ per.status \in Statuses
       /\ "personalized" \in failed => per.status = same
  <2>1. CASE "personalized" \in failed
    <3>1. per.ids = <<>> /\ per.status = same BY <1>u, <2>1
    <3> QED BY <1>7, <1>8, <1>10, <3>1
  <2>2. CASE "personalized" \notin failed
    <3>1. per \in Personalized(cur, X, n("personalized")) BY <2>2
    <3> QED BY <1>3, <1>5, <1>6, <1>7, <2>2, <3>1, PersonalFetched
  <2> QED BY <2>1, <2>2
<1>12. /\ Fine(pop.ids, X, n("popular")) /\ pop.popular \in Books \cup {None}
       /\ "popular" \in failed => pop.popular = cur.popular
  <2>1. CASE "popular" \in failed
    <3>1. pop.ids = <<>> /\ pop.popular = cur.popular BY <1>u, <2>1
    <3> QED BY <1>7, <1>8, <1>9, <3>1
  <2>2. CASE "popular" \notin failed
    <3>1. pop \in PopularBooks(cur, X, n("popular")) BY <2>2
    <3> QED BY <1>3, <1>5, <1>6, <1>7, <2>2, <3>1, PopularFetched
  <2> QED BY <2>1, <2>2
<1>13. /\ Fine(new.ids, X, n("new")) /\ new.newest \in Books \cup {None}
       /\ "new" \in failed => new.newest = cur.newest
  <2>1. CASE "new" \in failed
    <3>1. new.ids = <<>> /\ new.newest = cur.newest BY <1>u, <2>1
    <3> QED BY <1>7, <1>8, <1>9, <3>1
  <2>2. CASE "new" \notin failed
    <3>1. new \in NewBooks(cur, X, n("new")) BY <2>2
    <3> QED BY <1>3, <1>5, <1>6, <1>7, <2>2, <3>1, NewFetched
  <2> QED BY <2>1, <2>2
<1>14. /\ Fine(exp.ids, X, n("exploration")) /\ exp.key \in Nat \cup {None}
       /\ exp.ids = <<>> /\ "exploration" \notin failed => available \subseteq X
       /\ "exploration" \in failed => exp.key = cur.key
       /\ "exploration" \notin failed /\ cur.key # None => \A b \in available :
              OnTheWay(RandomKey[b], cur.key, exp.key) => b \in X \cup ToSet(exp.ids)
  <2>1. CASE "exploration" \in failed
    <3>1. exp.ids = <<>> /\ exp.key = cur.key BY <1>u, <2>1
    <3> QED BY <1>7, <1>8, <1>9, <2>1, <3>1
  <2>2. CASE "exploration" \notin failed
    <3>1. exp \in Explore(cur, X, n("exploration")) BY <2>2
    <3> QED BY <1>3, <1>5, <1>6, <1>7, <2>2, <3>1, Explored
  <2> QED BY <2>1, <2>2
<1> DEFINE finds == [personalized |-> per.ids, popular |-> pop.ids, new |-> new.ids, exploration |-> exp.ids]
           next == [mode |-> per.status.mode, vectorOffset |-> per.status.vectorOffset,
                    tasteOffset |-> per.status.tasteOffset, popular |-> pop.popular,
                    newest |-> new.newest, key |-> exp.key]
           all == UNION {ToSet(finds[s]) : s \in Sources}
<1>15. PICK pattern \in Patterns :
         req' = [req EXCEPT ![r] = [pc |-> "mixed", at |-> cur, excluded |-> X, failed |-> failed,
                                    page |-> ToSet(Mix(finds, pattern)),
                                    next |-> next]]
  BY <1>4
<1> HIDE DEF PerS, PopS, NewS, ExpS
<1>16. next \in FeedCursors BY <1>11, <1>12, <1>13, <1>14 DEF FeedCursors
<1>17. /\ finds["personalized"] = per.ids /\ finds["popular"] = pop.ids
       /\ finds["new"] = new.ids /\ finds["exploration"] = exp.ids /\ DOMAIN finds = Sources
  BY <1>7
<1> HIDE DEF finds, next
<1>18. \A s \in Sources : Fine(finds[s], X, n(s)) BY <1>7, <1>11, <1>12, <1>13, <1>14, <1>17
<1>19. finds = [s \in Sources |-> finds[s]] BY <1>7 DEF finds
<1>20. finds \in [Sources -> Seq(Books)] BY <1>18, <1>19 DEF Fine
<1>21. ToSet(Mix(finds, pattern)) = all
  <2>1. \A s \in Sources : Len(finds[s]) <= Slots[s] BY <1>18 DEF Fine, n
  <2> QED BY <1>20, <2>1, Mixed
<1>22. all \subseteq Books /\ all \cap X = {}
  <2>1. \A s \in Sources : ToSet(finds[s]) \subseteq Books /\ ToSet(finds[s]) \cap X = {}
    BY <1>18, Elements DEF Fine
  <2> QED BY <2>1
<1>23. all = {} => exp.ids = <<>>
  <2>1. ASSUME all = {} PROVE exp.ids = <<>>
    <3>1. ToSet(exp.ids) = {} BY <1>7, <1>17, <2>1
    <3>2. exp.ids \in Seq(Books) BY <1>14 DEF Fine
    <3> QED BY <3>1, <3>2, NoneIn
  <2> QED BY <2>1
<1>x. ToSet(exp.ids) \subseteq all /\ ToSet(new.ids) \subseteq Books
  <2>1. "exploration" \in Sources /\ "new" \in Sources BY <1>7
  <2> QED BY <1>17, <1>18, <2>1, Elements DEF Fine
<1>y. \A s \in failed : Part(s, next) = Part(s, cur)
  <2>1. /\ next.mode = per.status.mode /\ next.vectorOffset = per.status.vectorOffset
        /\ next.tasteOffset = per.status.tasteOffset /\ next.popular = pop.popular
        /\ next.newest = new.newest /\ next.key = exp.key
    BY DEF next
  <2>2. "personalized" \in failed => /\ next.mode = cur.mode /\ next.vectorOffset = cur.vectorOffset
                                     /\ next.tasteOffset = cur.tasteOffset
    BY <1>11, <2>1
  <2> QED BY <1>7, <1>f, <1>12, <1>13, <1>14, <2>1, <2>2 DEF Part
<1>z. "exploration" \notin failed /\ cur.key # None =>
        \A b \in available : OnTheWay(RandomKey[b], cur.key, next.key) => b \in X \cup all
  <2>1. next.key = exp.key BY DEF next
  <2> QED BY <1>14, <1>x, <2>1
<1> HIDE DEF all
<1> DEFINE m == [pc |-> "mixed", at |-> cur, excluded |-> X, failed |-> failed, page |-> all,
                 next |-> next]
<1>24. m \in Mixes BY <1>3, <1>16, <1>22, <1>x DEF Mixes
<1>25. MixIsTrue(m) BY <1>14, <1>22, <1>23, <1>y, <1>z DEF MixIsTrue
<1>26. req' = [req EXCEPT ![r] = m] BY <1>15, <1>21
<1>27. m.excluded = req[r].excluded BY DEF X
<1> HIDE DEF m
<1> QED BY <1>24, <1>25, <1>26, <1>27

LEMMA GatherKeeps ==
    ASSUME FeedInv, NEW r \in Requests, NEW failed \in FailureSets, Gather(r, failed)
    PROVE  FeedInv'
<1>1. /\ req[r].pc = "loaded"
      /\ UNCHANGED <<profile, rows, available, indexed, cursor, seen, served>>
      /\ pool' = pool \/ pool' = ColdPool
  BY DEF Gather
<1>2. PICK m \in Mixes : /\ req' = [req EXCEPT ![r] = m] /\ m.excluded = req[r].excluded
                         /\ MixIsTrue(m)
  BY Gathered
<1>3. req \in [Requests -> AllRequests] BY DEF FeedInv, FeedShape
<1>4. \A q \in Requests : req'[q] = IF q = r THEN m ELSE req[q] BY <1>2, <1>3
<1>5. m.pc = "mixed" /\ m \in Mixes BY <1>2 DEF Mixes
<1>6. /\ upsets' \in [retry : Nat, failure : Nat, change : Nat, lapse : Nat]
      /\ upsets'.retry = upsets.retry /\ upsets'.lapse = upsets.lapse
  <2>1. CASE failed = {}
    <3>1. upsets' = upsets BY <2>1 DEF Gather
    <3> QED BY <3>1 DEF FeedInv, FeedShape
  <2>2. CASE failed # {}
    <3>1. Upset("failure") BY <2>2 DEF Gather
    <3> QED BY <3>1, Upsets DEF FeedInv
  <2> QED BY <2>1, <2>2
<1>7. available \subseteq Books /\ PoolFine BY DEF FeedInv, FeedShape, FeedTypeOK
<1>8. PoolFine' /\ pool' \in {None} \cup Seq(Books)
  <2>1. ColdPool \in Seq(Books) /\ Distinct(ColdPool) BY <1>7, ColdPoolFine
  <2>2. CASE pool' = pool BY <1>7, <2>2 DEF PoolFine
  <2>3. CASE pool' = ColdPool BY <2>1, <2>3 DEF PoolFine
  <2> QED BY <1>1, <2>2, <2>3
<1>9. FeedTypeOK' BY <1>1, <1>4, <1>5, <1>8 DEF FeedInv, FeedTypeOK
<1>10. FeedShape' BY <1>1, <1>2, <1>3, <1>6, <1>8 DEF FeedInv, FeedShape, AllRequests
<1>11. PagesAreTrue' BY <1>1, <1>2, <1>4, <1>5 DEF FeedInv, PagesAreTrue, MixIsTrue, AnswerIsTrue
<1>12. SeenWasServed' BY <1>1, <1>2, <1>4, <1>5 DEF FeedInv, SeenWasServed
<1>13. Calm' BY <1>1, <1>2, <1>4, <1>5, <1>6 DEF FeedInv, Calm
<1> QED BY <1>9, <1>10, <1>11, <1>12, <1>13 DEF FeedInv

\* The list remembers the page; it is cut only when it is too long.
LEMMA Remembered ==
    ASSUME seen \in Seq(Books), NEW fresh \in SUBSET Books
    PROVE  /\ Remember(fresh) \in Seq(Books) /\ Len(Remember(fresh)) <= MaxExcluded
           /\ ToSet(Remember(fresh)) \subseteq ToSet(seen) \cup fresh
           /\ Distinct(seen) /\ ToSet(seen) \cap fresh = {} /\ Cardinality(ToSet(seen) \cup fresh) <= MaxExcluded
              => Distinct(Remember(fresh)) /\ ToSet(Remember(fresh)) = ToSet(seen) \cup fresh
<1> DEFINE q == SetToSeq(fresh)
           list == seen \o q
           L == Len(list)
           M == MaxExcluded
           first == IF L <= M THEN 1 ELSE L - M + 1
           u == [i \in 1..(L - first + 1) |-> list[first + i - 1]]
<1>1. IsFiniteSet(fresh) BY BooksFinite
<1>2. q \in Seq(fresh) /\ ToSet(q) = fresh /\ Distinct(q) BY <1>1, InARow
<1>3. q \in Seq(Books) BY <1>2
<1> HIDE DEF q
<1>4. list \in Seq(Books) /\ ToSet(list) = ToSet(seen) \cup fresh BY <1>2, <1>3, Joined
<1>5. Distinct(seen) /\ ToSet(seen) \cap fresh = {} => Distinct(list) BY <1>2, <1>3, JoinedOnce
<1>6. Remember(fresh) = SubSeq(list, Max({1, L - M + 1}), L) BY DEF Remember, q
<1> HIDE DEF list
<1>7. L \in Nat /\ M \in Nat BY <1>4, FeedAssumption
<1>8. Max({1, L - M + 1}) = first BY <1>7 DEF Max
<1>9. first \in 1..(L + 1) BY <1>7
<1>10. Remember(fresh) = SubSeq(list, first, L) BY <1>6, <1>8
<1> HIDE DEF first, M
<1>11. \A i \in 1..(L - first + 1) : first + i - 1 \in 1..L BY <1>7, <1>9
<1>12. \A i \in 1..L : list[i] \in Books BY <1>4
<1>13. L - first + 1 \in Nat BY <1>7, <1>9
<1>14. u \in Seq(Books) /\ Len(u) = L - first + 1 BY <1>11, <1>12, <1>13
<1>15. SubSeq(list, first, L) = u BY <1>4, <1>7, <1>9, <1>13
<1>16. Len(u) <= MaxExcluded BY <1>7, <1>14 DEF first, M
<1>17. \A i \in 1..Len(u) : u[i] = list[first + i - 1] BY <1>14
<1> HIDE DEF u
<1>18. ToSet(u) = {u[i] : i \in 1..Len(u)} /\ ToSet(list) = {list[i] : i \in 1..L} BY <1>4, <1>14, Elements
<1>19. ToSet(u) \subseteq ToSet(list) BY <1>11, <1>14, <1>17, <1>18
<1>20. ASSUME Distinct(seen), ToSet(seen) \cap fresh = {},
              Cardinality(ToSet(seen) \cup fresh) <= MaxExcluded
       PROVE  u = list
  <2>1. Distinct(list) BY <1>5, <1>20
  <2>2. Cardinality(ToSet(list)) = L BY <1>4, <2>1, CountedOnce
  <2>7. L <= M BY <1>4, <1>20, <2>2 DEF M
  <2>8. first = 1 BY <2>7 DEF first
  <2>9. u = [i \in 1..L |-> list[i]] BY <1>7, <2>8 DEF u
  <2> HIDE DEF L
  <2>10. list = [i \in 1..L |-> list[i]] BY <1>4 DEF L
  <2> QED BY <2>9, <2>10
<1>21. Remember(fresh) = u BY <1>10, <1>15
<1> QED BY <1>4, <1>5, <1>14, <1>16, <1>19, <1>20, <1>21

LEMMA ReadRowsKeeps ==
    ASSUME FeedInv, NEW r \in Requests, LoadPreviews(r)
    PROVE  FeedInv'
<1> DEFINE m == [pc |-> IF req[r].page = {} THEN "answered" ELSE "hydrated", failed |-> req[r].failed,
                 page |-> req[r].page, books |-> req[r].page \cap rows, next |-> req[r].next]
<1>1. /\ req[r].pc = "mixed" /\ req' = [req EXCEPT ![r] = m]
      /\ UNCHANGED <<profile, rows, available, indexed, pool, cursor, seen, served, upsets>>
  BY DEF LoadPreviews
<1>2. req[r] \in Mixes BY <1>1, Requested DEF FeedInv
<1>3. m \in Hydrates /\ m.pc \in {"hydrated", "answered"} /\ m.page = req[r].page
      /\ m.failed = req[r].failed /\ m.books = req[r].page \cap rows
  BY <1>2 DEF Mixes, Hydrates
<1>4. MixIsTrue(req[r]) /\ req[r].excluded \subseteq served
  BY <1>1 DEF FeedInv, PagesAreTrue, SeenWasServed
<1>5. AnswerIsTrue(m) BY <1>3, <1>4 DEF AnswerIsTrue, MixIsTrue
<1> HIDE DEF m
<1>6. req \in [Requests -> AllRequests] BY DEF FeedInv, FeedShape
<1>7. \A q \in Requests : req'[q] = IF q = r THEN m ELSE req[q] BY <1>1, <1>6
<1>8. FeedTypeOK' BY <1>1, <1>3, <1>7 DEF FeedInv, FeedTypeOK
<1>9. FeedShape' BY <1>1, <1>3, <1>6 DEF FeedInv, FeedShape, PoolFine, AllRequests
<1>10. PagesAreTrue' BY <1>1, <1>3, <1>5, <1>7 DEF FeedInv, PagesAreTrue, MixIsTrue, AnswerIsTrue
<1>11. SeenWasServed' BY <1>1, <1>3, <1>7 DEF FeedInv, SeenWasServed
<1>12. Calm'
  <2>1. upsets.retry = 0 /\ upsets.lapse = 0 /\ Cardinality(served) <= MaxExcluded
           => m.page \cap served = {}
    BY <1>1, <1>3, <1>4 DEF FeedInv, Calm, MixIsTrue
  <2> QED BY <1>1, <1>3, <1>7, <2>1 DEF FeedInv, Calm
<1> QED BY <1>8, <1>9, <1>10, <1>11, <1>12 DEF FeedInv

LEMMA RecordKeeps ==
    ASSUME FeedInv, NEW r \in Requests, Record(r)
    PROVE  FeedInv'
<1> DEFINE fresh == req[r].page
           m == [req[r] EXCEPT !.pc = "answered"]
<1>1. /\ req[r].pc = "hydrated" /\ seen' = Remember(fresh) /\ served' = served \cup fresh
      /\ req' = [req EXCEPT ![r] = m]
      /\ UNCHANGED <<profile, rows, available, indexed, pool, cursor, upsets>>
  BY DEF Record
<1>2. req[r] \in Hydrates BY <1>1, Requested DEF FeedInv
<1>3. fresh \in SUBSET Books BY <1>2 DEF Hydrates
<1>4. m \in Hydrates /\ m.pc = "answered" /\ m.page = fresh /\ m.failed = req[r].failed
      /\ m.books = req[r].books
  BY <1>2 DEF Hydrates
<1> HIDE DEF fresh, m
<1>5. req \in [Requests -> AllRequests] BY DEF FeedInv, FeedShape
<1>6. \A q \in Requests : req'[q] = IF q = r THEN m ELSE req[q] BY <1>1, <1>5
<1>8. seen \in Seq(Books) /\ served \subseteq Books BY DEF FeedInv, FeedTypeOK
<1>9. seen' \in Seq(Books) /\ Len(seen') <= MaxExcluded BY <1>1, <1>3, <1>8, Remembered
<1>10. ToSet(seen') \subseteq ToSet(seen) \cup fresh BY <1>1, <1>3, <1>8, Remembered
<1>11. FeedTypeOK' BY <1>1, <1>3, <1>4, <1>6, <1>8, <1>9 DEF FeedInv, FeedTypeOK
<1>12. FeedShape' BY <1>1, <1>4, <1>5 DEF FeedInv, FeedShape, PoolFine, AllRequests
<1>13. PagesAreTrue'
  <2>1. AnswerIsTrue(req[r]) BY <1>1 DEF FeedInv, PagesAreTrue
  <2>2. /\ m.page \cap rows' \subseteq m.books
        /\ m.page = {} /\ "exploration" \notin m.failed => available' \subseteq served'
    BY <1>1, <1>4, <2>1 DEF AnswerIsTrue, fresh
  <2>3. ASSUME NEW q \in Requests, q # r
        PROVE  /\ req'[q].pc = "mixed" => MixIsTrue(req[q])'
               /\ req'[q].pc \in {"hydrated", "answered"} => AnswerIsTrue(req[q])'
    BY <1>1, <1>6, <2>3 DEF FeedInv, PagesAreTrue, MixIsTrue, AnswerIsTrue
  <2>4. req'[r].pc = "answered" /\ AnswerIsTrue(req[r])'
    BY <1>4, <1>6, <2>2 DEF AnswerIsTrue
  <2> QED BY <2>3, <2>4 DEF PagesAreTrue
<1>14. SeenWasServed'
  <2>1. ToSet(seen') \subseteq served' BY <1>1, <1>10 DEF FeedInv, SeenWasServed
  <2>2. \A q \in Requests : req'[q].pc \in {"loaded", "mixed"} => req'[q].excluded \subseteq served'
    BY <1>1, <1>4, <1>6 DEF FeedInv, SeenWasServed
  <2> QED BY <2>1, <2>2 DEF SeenWasServed
<1>15. Calm'
  <2> SUFFICES ASSUME upsets'.retry = 0, upsets'.lapse = 0
               PROVE  /\ \A p, q \in Requests : req'[p].pc # "idle" /\ req'[q].pc # "idle" => p = q
                      /\ Cardinality(served') <= MaxExcluded =>
                            /\ ToSet(seen') = served' /\ Distinct(seen')
                            /\ \A q \in Requests :
                                  /\ req'[q].pc \in {"loaded", "mixed"} => req'[q].excluded = served'
                                  /\ req'[q].pc = "hydrated" => req'[q].page \cap served' = {}
    BY DEF Calm
  <2>1. upsets.retry = 0 /\ upsets.lapse = 0 BY <1>1
  <2>2. \A p, q \in Requests : req[p].pc # "idle" /\ req[q].pc # "idle" => p = q
    BY <1>1, <2>1 DEF FeedInv, Calm
  <2>3. \A q \in Requests : IF q = r THEN req'[q].pc = "answered" ELSE req'[q].pc = "idle"
    BY <1>1, <1>4, <1>6, <2>2
  <2>4. ASSUME Cardinality(served') <= MaxExcluded
        PROVE  ToSet(seen') = served' /\ Distinct(seen')
    <3>1. served' = served \cup fresh /\ served' \in SUBSET Books BY <1>1, <1>3, <1>8
    <3>2. Cardinality(served) <= Cardinality(served') BY <3>1, BooksFinite, FS_Subset
    <3>3. Cardinality(served) \in Nat /\ Cardinality(served') \in Nat /\ MaxExcluded \in Nat
      BY <1>8, <3>1, BooksFinite, FeedAssumption
    <3>4. Cardinality(served) <= MaxExcluded BY <2>4, <3>2, <3>3
    <3>5. ToSet(seen) = served /\ Distinct(seen) /\ fresh \cap served = {}
      BY <1>1, <2>1, <3>4 DEF FeedInv, Calm, fresh
    <3>6. ToSet(seen) \cap fresh = {} BY <3>5
    <3>7. Cardinality(ToSet(seen) \cup fresh) <= MaxExcluded BY <2>4, <3>1, <3>5
    <3>8. Distinct(seen') /\ ToSet(seen') = ToSet(seen) \cup fresh
      BY <1>1, <1>3, <1>8, <3>5, <3>6, <3>7, Remembered
    <3> QED BY <3>1, <3>5, <3>8
  <2> QED BY <2>3, <2>4
<1> QED BY <1>11, <1>12, <1>13, <1>14, <1>15 DEF FeedInv

\* A request that is over, however it ended.
LEMMA RequestOver ==
    ASSUME FeedInv, NEW r \in Requests, req' = [req EXCEPT ![r] = NoRequest],
           UNCHANGED <<profile, rows, available, indexed, pool, seen, served>>,
           cursor' \in FeedCursors \cup {None, End},
           upsets' \in [retry : Nat, failure : Nat, change : Nat, lapse : Nat],
           upsets'.retry = upsets.retry, upsets'.lapse = upsets.lapse
    PROVE  FeedInv'
<1>1. req \in [Requests -> AllRequests] BY DEF FeedInv, FeedShape
<1>2. \A q \in Requests : req'[q] = IF q = r THEN NoRequest ELSE req[q] BY <1>1
<1>3. NoRequest.pc = "idle" BY DEF NoRequest
<1>4. FeedTypeOK' BY <1>2, <1>3 DEF FeedInv, FeedTypeOK
<1>5. FeedShape' BY <1>1 DEF FeedInv, FeedShape, PoolFine, AllRequests
<1>6. PagesAreTrue' BY <1>2, <1>3 DEF FeedInv, PagesAreTrue, MixIsTrue, AnswerIsTrue
<1>7. SeenWasServed' BY <1>2, <1>3 DEF FeedInv, SeenWasServed
<1>8. Calm' BY <1>2, <1>3 DEF FeedInv, Calm
<1> QED BY <1>4, <1>5, <1>6, <1>7, <1>8 DEF FeedInv

LEMMA DeliverKeeps ==
    ASSUME FeedInv, NEW r \in Requests, Deliver(r)
    PROVE  FeedInv'
<1>1. /\ req[r].pc = "answered" /\ req' = [req EXCEPT ![r] = NoRequest]
      /\ cursor' = End \/ cursor' = req[r].next
      /\ UNCHANGED <<profile, rows, available, indexed, pool, seen, served, upsets>>
  BY DEF Deliver
<1>2. req[r] \in Hydrates BY <1>1, Requested DEF FeedInv
<1>3. cursor' \in FeedCursors \cup {None, End}
  BY <1>1, <1>2 DEF FeedInv, FeedTypeOK, Hydrates
<1>4. upsets' \in [retry : Nat, failure : Nat, change : Nat, lapse : Nat] BY <1>1 DEF FeedInv, FeedShape
<1>5. upsets'.retry = upsets.retry /\ upsets'.lapse = upsets.lapse BY <1>1
<1> QED BY <1>1, <1>3, <1>4, <1>5, RequestOver

LEMMA FailKeeps ==
    ASSUME FeedInv, NEW r \in Requests, Fail(r)
    PROVE  FeedInv'
<1>1. /\ Upset("failure") /\ req' = [req EXCEPT ![r] = NoRequest]
      /\ UNCHANGED <<profile, rows, available, indexed, pool, cursor, seen, served>>
  BY DEF Fail
<1>2. /\ upsets' \in [retry : Nat, failure : Nat, change : Nat, lapse : Nat]
      /\ upsets'.retry = upsets.retry /\ upsets'.lapse = upsets.lapse
  BY <1>1, Upsets DEF FeedInv
<1>3. cursor' \in FeedCursors \cup {None, End}
  BY <1>1 DEF FeedInv, FeedTypeOK, FeedShape
<1> QED BY <1>1, <1>2, <1>3, RequestOver

LEMMA WithdrawKeeps ==
    ASSUME FeedInv, NEW b \in Books, Withdraw(b)
    PROVE  FeedInv'
<1>1. /\ Upset("change") /\ available' = available \ {b} /\ b \in available
      /\ rows' = rows \/ rows' = rows \ {b}
      /\ UNCHANGED <<profile, indexed, pool, cursor, seen, req, served>>
  BY DEF Withdraw
<1>2. /\ upsets' \in [retry : Nat, failure : Nat, change : Nat, lapse : Nat]
      /\ upsets'.retry = upsets.retry /\ upsets'.lapse = upsets.lapse
  BY <1>1, Upsets DEF FeedInv
<1>3. FeedTypeOK' BY <1>1 DEF FeedInv, FeedTypeOK
<1>4. FeedShape' BY <1>1, <1>2 DEF FeedInv, FeedShape, PoolFine
<1>5. PagesAreTrue' BY <1>1 DEF FeedInv, PagesAreTrue, MixIsTrue, AnswerIsTrue
<1>6. SeenWasServed' BY <1>1 DEF FeedInv, SeenWasServed
<1>7. Calm' BY <1>1, <1>2 DEF FeedInv, Calm
<1> QED BY <1>3, <1>4, <1>5, <1>6, <1>7 DEF FeedInv

LEMMA SyncKeeps ==
    ASSUME FeedInv, SyncIndex
    PROVE  FeedInv'
<1>1. /\ indexed' = available
      /\ UNCHANGED <<profile, rows, available, pool, cursor, seen, req, served, upsets>>
  BY DEF SyncIndex
<1>2. FeedTypeOK' BY <1>1 DEF FeedInv, FeedTypeOK
<1>3. FeedShape' BY <1>1 DEF FeedInv, FeedShape, PoolFine
<1>4. PagesAreTrue' BY <1>1 DEF FeedInv, PagesAreTrue, MixIsTrue, AnswerIsTrue
<1>5. SeenWasServed' /\ Calm' BY <1>1 DEF FeedInv, SeenWasServed, Calm
<1> QED BY <1>2, <1>3, <1>4, <1>5 DEF FeedInv

LEMMA LapseKeeps ==
    ASSUME FeedInv, Lapse
    PROVE  FeedInv'
<1>1. /\ Upset("lapse") /\ (seen' = <<>> \/ seen' = seen) /\ (pool' = None \/ pool' = pool)
      /\ UNCHANGED <<profile, rows, available, indexed, cursor, req, served>>
  BY DEF Lapse
<1>2. upsets' \in [retry : Nat, failure : Nat, change : Nat, lapse : Nat] /\ upsets'.lapse # 0
  BY <1>1, Upsets DEF FeedInv
<1>3. <<>> \in Seq(Books) /\ ToSet(<<>>) = {} /\ Len(<<>>) = 0 /\ MaxExcluded \in Nat
  BY NothingPicked, FeedAssumption
<1>l. seen' \in Seq(Books) /\ Len(seen') <= MaxExcluded
  <2>1. CASE seen' = seen BY <2>1 DEF FeedInv, FeedTypeOK
  <2>2. CASE seen' = <<>>
    <3>1. 0 <= MaxExcluded BY <1>3
    <3> QED BY <1>3, <2>2, <3>1
  <2> QED BY <1>1, <2>1, <2>2
<1>p. pool' \in {None} \cup Seq(Books) BY <1>1 DEF FeedInv, FeedTypeOK
<1>4. FeedTypeOK' BY <1>1, <1>l, <1>p DEF FeedInv, FeedTypeOK
<1>5. FeedShape' BY <1>1, <1>2 DEF FeedInv, FeedShape, PoolFine
<1>6. PagesAreTrue' BY <1>1 DEF FeedInv, PagesAreTrue, MixIsTrue, AnswerIsTrue
<1>7. SeenWasServed' BY <1>1, <1>3 DEF FeedInv, SeenWasServed
<1>8. Calm' BY <1>2 DEF Calm
<1> QED BY <1>4, <1>5, <1>6, <1>7, <1>8 DEF FeedInv

LEMMA FeedStays ==
    ASSUME FeedInv, UNCHANGED feedVars
    PROVE  FeedInv'
<1>1. UNCHANGED <<profile, rows, available, indexed, pool, cursor, seen, req, served, upsets>>
  BY DEF feedVars
<1>2. FeedTypeOK' BY <1>1 DEF FeedInv, FeedTypeOK
<1>3. FeedShape' BY <1>1 DEF FeedInv, FeedShape, PoolFine
<1>4. PagesAreTrue' BY <1>1 DEF FeedInv, PagesAreTrue, MixIsTrue, AnswerIsTrue
<1>5. SeenWasServed' /\ Calm' BY <1>1 DEF FeedInv, SeenWasServed, Calm
<1> QED BY <1>2, <1>3, <1>4, <1>5 DEF FeedInv

LEMMA FeedSteps == FeedInv /\ [FeedNext]_feedVars => FeedInv'
<1> SUFFICES ASSUME FeedInv, [FeedNext]_feedVars PROVE FeedInv' OBVIOUS
<1>1. ASSUME NEW r \in Requests, Serve(r) PROVE FeedInv'
  BY <1>1, SendKeeps, GatherKeeps, ReadRowsKeeps, RecordKeeps, DeliverKeeps, FailKeeps DEF Serve
<1>2. ASSUME NEW b \in Books, Withdraw(b) PROVE FeedInv' BY <1>2, WithdrawKeeps
<1>3. CASE SyncIndex BY <1>3, SyncKeeps
<1>4. CASE Lapse BY <1>4, LapseKeeps
<1>5. CASE UNCHANGED feedVars BY <1>5, FeedStays
<1> QED BY <1>1, <1>2, <1>3, <1>4, <1>5 DEF FeedNext

LEMMA FeedAlways == FeedSpec => []FeedInv
<1>1. FeedInit => FeedInv BY FeedStarts
<1>2. FeedInv /\ [FeedNext]_feedVars => FeedInv' BY FeedSteps
<1> QED BY <1>1, <1>2, PTL DEF FeedSpec

\* The session's list never outgrows MAX_EXCLUDED_IDS, the cached pool is a list of
\* books, and nothing but books is served.
THEOREM FeedTypeCorrect == FeedSpec => []FeedTypeOK
<1>1. FeedInv => FeedTypeOK BY DEF FeedInv
<1> QED BY <1>1, FeedAlways, PTL

\* A source that failed goes on where it was, and the key of exploration moves only
\* past books that are on the page or were shown before: books outside its window are
\* never skipped, whichever books are excluded and wherever it starts again.
THEOREM NoBookIsPassedOver == FeedSpec => []CursorsKeepTheUnshown
<1>1. FeedInv => CursorsKeepTheUnshown
  BY DEF FeedInv, PagesAreTrue, MixIsTrue, CursorsKeepTheUnshown
<1> QED BY <1>1, FeedAlways, PTL

\* A client that waits for its answers gets no book twice in a session.
THEOREM NoBookTwice == FeedSpec => []NoRepeatInSession
<1>1. FeedInv => NoRepeatInSession
  BY DEF FeedInv, PagesAreTrue, MixIsTrue, Calm, NoRepeatInSession
<1> QED BY <1>1, FeedAlways, PTL

\* _diversified_pick exceeds a cap only when no candidate within the caps is left.
THEOREM CapsYieldLast == FeedSpec => []CapsYieldOnlyWhenForced
<1>1. FeedInv => CapsYieldOnlyWhenForced
  <2> SUFFICES ASSUME FeedInv, NEW r \in Requests,
                      NEW p \in DiversifiedPicks(Without(ColdPool, req[r].excluded), Slots["personalized"])
               PROVE  LET q == Without(ColdPool, req[r].excluded)
                      IN  /\ Len(p) = Min({Slots["personalized"], Len(q)})
                          /\ (\E b \in ToSet(p) : ~ FitsCaps(ToSet(p) \ {b}, b)) =>
                                \A b \in ToSet(q) \ ToSet(p) : ~ FitsCaps(ToSet(p), b)
    BY Zenon DEF CapsYieldOnlyWhenForced
  <2> DEFINE q == Without(ColdPool, req[r].excluded)
  <2>1. available \subseteq Books /\ PoolFine BY DEF FeedInv, FeedTypeOK, FeedShape
  <2>2. ColdPool \in Seq(Books) /\ Distinct(ColdPool) BY <2>1, ColdPoolFine
  <2>3. q \in Seq(Books) /\ Distinct(q) BY <2>2, LeftOver
  <2>4. Slots["personalized"] \in Nat BY SamplingAssumption DEF Sources
  <2> HIDE DEF q
  <2>5. p \in DiversifiedPicks(q, Slots["personalized"]) BY DEF q
  <2>6. Len(p) = Min({Slots["personalized"], Len(q)}) BY <2>3, <2>4, <2>5, CapsForced
  <2>7. (\E b \in ToSet(p) : ~ FitsCaps(ToSet(p) \ {b}, b)) =>
            \A b \in ToSet(q) \ ToSet(p) : ~ FitsCaps(ToSet(p), b)
    BY <2>3, <2>4, <2>5, CapsForced
  <2> QED BY <2>6, <2>7 DEF q
<1> QED BY <1>1, FeedAlways, PTL

\* The feed ends only when every book on sale was shown, exploration failed on the
\* last page, or every book of the page was deleted.
THEOREM TheEndIsTheEnd == FeedSpec => EndsOnlyWhenAllShown
<1> DEFINE EndsRight == cursor' = End /\ cursor # End =>
             \E r \in Requests :
                 /\ req[r].pc = "answered" /\ req'[r].pc = "idle"
                 /\ \/ available \subseteq served
                    \/ "exploration" \in req[r].failed
                    \/ req[r].page # {} /\ req[r].page \cap rows = {}
<1>1. FeedInv /\ [FeedNext]_feedVars => [EndsRight]_feedVars
  <2> SUFFICES ASSUME FeedInv, FeedNext, cursor' = End, cursor # End PROVE EndsRight
    BY DEF feedVars
  <2>1. PICK r \in Requests : Deliver(r)
    BY DEF FeedNext, Serve, Send, Gather, LoadPreviews, Record, Fail, Withdraw, SyncIndex, Lapse
  <2>2. req[r].pc = "answered" /\ req' = [req EXCEPT ![r] = NoRequest] BY <2>1 DEF Deliver
  <2>3. req[r] \in Hydrates BY <2>2, Requested DEF FeedInv
  <2>4. req[r].next # End BY <2>3, FeedAssumption DEF Hydrates
  <2>5. req[r].books = {} BY <2>1, <2>4 DEF Deliver
  <2>6. req'[r].pc = "idle" BY <2>2 DEF FeedInv, FeedShape, NoRequest
  <2>7. AnswerIsTrue(req[r]) BY <2>2 DEF FeedInv, PagesAreTrue
  <2>8. req[r].page \cap rows = {} BY <2>5, <2>7 DEF AnswerIsTrue
  <2>9. req[r].page = {} /\ "exploration" \notin req[r].failed => available \subseteq served
    BY <2>7 DEF AnswerIsTrue
  <2> QED BY <2>2, <2>6, <2>8, <2>9
<1> HIDE DEF EndsRight
<1>2. FeedSpec => [][EndsRight]_feedVars BY <1>1, FeedAlways, PTL DEF FeedSpec
<1> QED BY <1>2 DEF EndsOnlyWhenAllShown, EndsRight
=============================================================================
