--------------------------- MODULE StorefrontProofs ---------------------------
(***************************************************************************)
(* What a buyer sees beside the checkout, for any books, readers, requests *)
(* and pages: the totals of the reviews, the cart and the marks of the     *)
(* pages, and the types of the search indexes.                             *)
(***************************************************************************)
EXTENDS Reviews, Shelf, IndexSync, DataLemmas

-----------------------------------------------------------------------------
(* Reviews *)

TotalsSet == [count : Nat, sum : Nat, rating : Nat]
PostSet == [pc : {"idle", "read", "check", "save"}, user : Readers \cup {NoOne},
            grade : 1..5, base : TotalsSet, late : BOOLEAN]

PostsOK ==
    /\ post \in [Posts -> PostSet]
    /\ \A p \in Posts : post[p].pc # "idle" => post[p].grade \in Grades

\* A request that no other overtook still knows the totals.
BaseHolds ==
    \A p \in Posts : post[p].pc \in {"check", "save"} /\ ~post[p].late => post[p].base = totals

Review == [user : Readers \cup {NoOne}, grade : Grades]
Graded(r, S) == MapThenSumSet(LAMBDA i : r[i].grade, S)

\* The totals t are those of some of the reviews r.
Counted(t, r) == \E S \in SUBSET DOMAIN r : t.count = Cardinality(S) /\ t.sum = Graded(r, S)

\* So are the totals a request has read, and those of the book.
SomeCounted ==
    edited = 0 => /\ Counted(totals, reviews)
                  /\ \A p \in Posts : post[p].pc \in {"check", "save"} => Counted(post[p].base, reviews)

\* Only of the users in `twice` are two requests at work; of those whom no admin gave
\* a review nobody else's request is about to save when there is one of theirs.
OneEach ==
    /\ \A p, q \in Posts : post[p].user = post[q].user /\ post[p].user \notin twice \cup {NoOne} => p = q
    /\ \A p \in Posts : post[p].pc = "save" /\ post[p].user \notin twice \cup given =>
                         \A i \in DOMAIN reviews : reviews[i].user # post[p].user
    /\ \A i, j \in DOMAIN reviews :
           reviews[i].user = reviews[j].user /\ reviews[i].user \notin twice \cup given => i = j

TotalsFollow ==
    ~raced /\ edited = 0 =>
         /\ totals.count = Len(reviews) /\ totals.sum = SumOfGrades
         /\ totals.rating = IF reviews = <<>> THEN 0 ELSE Rounded(SumOfGrades, Len(reviews))

ReviewsInv == ReviewsTypeOK /\ PostsOK /\ BaseHolds /\ SomeCounted /\ OneEach /\ TotalsFollow

-----------------------------------------------------------------------------
LEMMA DivNat == \A a \in Nat, b \in Nat \ {0} : a \div b \in Nat
OBVIOUS

LEMMA RoundedNat ==
    ASSUME NEW s \in Nat, NEW c \in Nat \ {0} PROVE Rounded(s, c) \in Nat
<1> DEFINE up == (20 * s + c) \div (2 * c)
<1>1. 20 * s + c \in Nat /\ 2 * c \in Nat \ {0} OBVIOUS
<1>2. up \in Nat BY <1>1, DivNat
<1>3. Rounded(s, c) \in {up, up - 1} /\ (Rounded(s, c) = up - 1 => up % 2 = 1 \/ Rounded(s, c) = up)
  BY DEF Rounded
<1> HIDE DEF up
<1>4. up % 2 = 1 => up # 0 OBVIOUS
<1> QED BY <1>2, <1>3, <1>4

\* The sum is that of a function that adds up.
LEMMA GradesAdd ==
    ASSUME NEW r, NEW S, IsFiniteSet(S), NEW f, \A i \in S : r[i].grade = f[i]
    PROVE  \E g : Adds(g, f, S) /\ Graded(r, S) = g[S]
<1> DEFINE Is(k) == k = [s \in SUBSET S |-> IF s = {} THEN 0 ELSE r[Pick(s)].grade + k[s \ {Pick(s)}]]
           It == CHOOSE k : Is(k)
<1>1. Graded(r, S) = It[S]
  BY DEF Graded, MapThenSumSet, MapThenFoldSet, Pick
<1>2. PICK g : Adds(g, f, S) BY AddsExist
<1>3. ASSUME NEW k PROVE Adds(k, f, S) <=> Is(k)
  <2>1. \A s \in SUBSET S : s # {} => f[Pick(s)] = r[Pick(s)].grade BY PickIn
  <2> QED BY <2>1 DEF Adds
<1> HIDE DEF Is
<1>4. Is(It) BY <1>2, <1>3
<1>5. Adds(It, f, S) BY <1>3, <1>4
<1> HIDE DEF It
<1> QED BY <1>1, <1>5

\* A review is appended: what some reviews add up to.
LEMMA SumAppended ==
    ASSUME reviews \in Seq(Review), NEW r \in Review, reviews' = Append(reviews, r),
           NEW S \in SUBSET DOMAIN reviews
    PROVE  /\ Graded(reviews, S) \in Nat /\ Graded(reviews', S) = Graded(reviews, S)
           /\ Graded(reviews', S \cup {Len(reviews) + 1}) = Graded(reviews, S) + r.grade
<1>1. \A y \in Review : y.grade \in Nat
  <2>1. Grades \subseteq Nat BY ReviewsAssumption DEF ReviewsAssumption
  <2> QED BY <2>1 DEF Review
<1>2. PICK R, q, s : R = Review /\ q = reviews' /\ s = reviews OBVIOUS
<1>3. /\ \A y \in R : y.grade \in Nat
      /\ s \in Seq(R) /\ r \in R /\ q = Append(s, r) /\ S \in SUBSET DOMAIN s
  BY <1>1, <1>2
<1> DEFINE n == Len(s)
           x == n + 1
           U == S \cup {x}
           f == [i \in S |-> s[i].grade]
           h == [i \in U |-> q[i].grade]
<1>4. n \in Nat /\ S \subseteq 1..n /\ x \notin S BY <1>3
<1>5. 1..(n + 1) = 1..n \cup {n + 1} BY <1>4
<1>6. \A i \in S : s[i] \in R /\ q[i] = s[i] BY <1>4, <1>3, ElementOfSeq
<1>7. q[x] = r BY <1>3
<1>8. f \in [S -> Nat] BY <1>3, <1>6
<1>9. h \in [U -> Nat] /\ (\A i \in S : h[i] = f[i]) /\ h[x] = r.grade
  BY <1>3, <1>6, <1>7
<1>10. IsFiniteSet(S) BY <1>4, FS_Interval, FS_Subset
<1>11. IsFiniteSet(U) BY <1>10, FS_AddElement
<1>12. (\A i \in S : s[i].grade = f[i] /\ q[i].grade = f[i]) /\ (\A i \in U : q[i].grade = h[i])
  BY <1>6
<1>13. S \subseteq U /\ U \ {x} = S /\ x \in U BY <1>4
<1> HIDE DEF f, h, U, n, x
<1>14. PICK g : Adds(g, f, S) /\ Graded(s, S) = g[S] BY <1>10, <1>12, GradesAdd
<1>15. PICK k : Adds(k, h, U) /\ Graded(q, U) = k[U] BY <1>11, <1>12, GradesAdd
<1>16. PICK m : Adds(m, f, S) /\ Graded(q, S) = m[S] BY <1>10, <1>12, GradesAdd
<1>17. m[S] = g[S] BY <1>10, <1>14, <1>16, AddsSame
<1>18. g \in [SUBSET S -> Nat] BY <1>8, <1>10, <1>14, AddsNat
<1>19. k[U] = g[S] + h[x]
  <2>1. k[U] = h[x] + k[U \ {x}]
    <3>1. h \in [U -> Nat] /\ Adds(k, h, U) BY <1>9, <1>15
    <3>2. U \in SUBSET U /\ x \in U BY <1>13
    <3> QED BY <1>11, <3>1, <3>2, AddsAny, Z3
  <2>3. k[U] = h[x] + k[S] BY <2>1, <1>13
  <2>4. k[S] = g[S] BY <1>13, <1>9, <1>10, <1>14, <1>15, AddsSame
  <2>5. \A a, b \in Nat : a + b = b + a OBVIOUS
  <2>6. g[S] \in Nat /\ h[x] \in Nat BY <1>9, <1>18, <1>13
  <2> QED BY <2>3, <2>4, <2>5, <2>6
<1> QED BY <1>9, <1>14, <1>15, <1>18, <1>19, <1>16, <1>17, <1>2 DEF U, x, n

LEMMA SumIsGraded ==
    /\ SumOfGrades = Graded(reviews, DOMAIN reviews)
    /\ SumOfGrades' = Graded(reviews', DOMAIN reviews')
    /\ \A S : GradesOf(S) = Graded(reviews, S)
BY DEF SumOfGrades, GradesOf, Graded, MapThenSumSet, MapThenFoldSet

-----------------------------------------------------------------------------
LEMMA SumSame == UNCHANGED reviews => SumOfGrades' = SumOfGrades
BY SumIsGraded

LEMMA ReviewsStart == ReviewsInit => ReviewsInv
<1> SUFFICES ASSUME ReviewsInit PROVE ReviewsInv OBVIOUS
<1>1. NoPost \in PostSet /\ Zero \in TotalsSet /\ NoPost.pc = "idle" /\ NoPost.user = NoOne
  BY DEF NoPost, PostSet, Zero, TotalsSet
<1>2. \A p \in Posts : post[p] = NoPost BY DEF ReviewsInit
<1>3. PostsOK /\ BaseHolds
  <2>1. post \in [Posts -> PostSet] BY <1>1 DEF ReviewsInit
  <2> QED BY <1>1, <1>2, <2>1 DEF PostsOK, BaseHolds
<1>4. reviews = <<>> /\ Len(reviews) = 0 /\ reviews \in Seq(Review)
      /\ DOMAIN reviews = {}
  BY DEF ReviewsInit
<1>5. ReviewsTypeOK
  <2>1. Len(reviews) <= MaxReviews BY <1>4, ReviewsAssumption DEF ReviewsAssumption
  <2> QED BY <1>1, <1>2, <1>4, <2>1 DEF ReviewsInit, ReviewsTypeOK, TotalsSet, Review
<1>6. OneEach BY <1>1, <1>2, <1>4 DEF OneEach, WritesOf
<1>7. Graded(reviews, {}) = 0
  <2>2. IsFiniteSet({}) BY FS_EmptySet
  <2>3. PICK g : Adds(g, [i \in {} |-> 0], {}) /\ Graded(reviews, {}) = g[{}]
    BY <2>2, GradesAdd
  <2>4. g[{}] = 0 BY <2>3 DEF Adds
  <2> QED BY <2>3, <2>4
<1>8. TotalsFollow BY <1>4, <1>7, SumIsGraded DEF TotalsFollow, ReviewsInit, Zero
<1>9. SomeCounted
  <2>1. Counted(Zero, reviews) BY <1>4, <1>7, FS_EmptySet DEF Counted, Zero
  <2> QED BY <1>1, <1>2, <2>1 DEF SomeCounted, ReviewsInit
<1> QED BY <1>3, <1>5, <1>6, <1>8, <1>9 DEF ReviewsInv

\* A request moves; reviews and totals stay.
LEMMA RequestMoves ==
    ASSUME ReviewsInv, NEW p \in Posts, NEW k \in PostSet, post' = [post EXCEPT ![p] = k],
           UNCHANGED <<reviews, totals, raced, edited, given>>,
           k.pc = "idle" <=> k.user = NoOne, k.pc # "idle" => k.grade \in Grades,
           k.pc \in {"check", "save"} /\ ~k.late => k.base = totals,
           k.pc \in {"check", "save"} /\ edited = 0 => Counted(k.base, reviews),
           twice \subseteq twice', twice' \subseteq Readers,
           k.user \notin twice' \cup {NoOne} =>
               \A q \in Posts : q # p => post[q].user # k.user,
           k.pc = "save" /\ k.user \notin twice' \cup given => WritesOf(k.user) = {}
    PROVE  ReviewsInv'
<1>1. post \in [Posts -> PostSet] BY DEF ReviewsInv, PostsOK
<1>2. post'[p] = k /\ \A q \in Posts : q # p => post'[q] = post[q] BY <1>1
<1>3. PostsOK'
  <2>1. post' \in [Posts -> PostSet] BY <1>1
  <2> QED BY <1>2, <2>1 DEF ReviewsInv, PostsOK
<1>4. BaseHolds' BY <1>2 DEF ReviewsInv, BaseHolds
<1>5. ReviewsTypeOK'
  <2>1. \A q \in Posts : post'[q].pc = "idle" <=> post'[q].user = NoOne
    BY <1>2 DEF ReviewsInv, ReviewsTypeOK
  <2> QED BY <1>3, <2>1 DEF ReviewsInv, ReviewsTypeOK, PostsOK, PostSet, TotalsSet
<1>7. OneEach'
  <2>1. ASSUME NEW q \in Posts, NEW r \in Posts, post'[q].user = post'[r].user,
               post'[q].user \notin twice' \cup {NoOne}
        PROVE  q = r
    BY <1>2, <2>1 DEF ReviewsInv, OneEach
  <2>2. \A i \in DOMAIN reviews : k.pc = "save" /\ k.user \notin twice' \cup given => reviews[i].user # k.user
    BY DEF WritesOf
  <2>3. ASSUME NEW q \in Posts, post'[q].pc = "save", post'[q].user \notin twice' \cup given,
               NEW i \in DOMAIN reviews
        PROVE  reviews[i].user # post'[q].user
    BY <1>2, <2>2, <2>3 DEF ReviewsInv, OneEach
  <2>4. \A i, j \in DOMAIN reviews :
           reviews[i].user = reviews[j].user /\ reviews[i].user \notin twice' \cup given => i = j
    BY DEF ReviewsInv, OneEach
  <2> QED BY <2>1, <2>3, <2>4 DEF OneEach
<1>8. TotalsFollow' BY SumSame DEF ReviewsInv, TotalsFollow
<1>9. SomeCounted' BY <1>2 DEF ReviewsInv, SomeCounted
<1> QED BY <1>3, <1>4, <1>5, <1>7, <1>8, <1>9 DEF ReviewsInv

LEMMA ReviewSaved ==
    ASSUME ReviewsInv, NEW p \in Posts, SaveReview(p)
    PROVE  ReviewsInv'
<1> DEFINE u == post[p].user
           r == [user |-> u, grade |-> post[p].grade]
<1>1. /\ post[p].pc = "save" /\ Len(reviews) + edited < MaxReviews
      /\ reviews' = Append(reviews, r)
      /\ totals' = WithGrade(post[p].base, totals, post[p].grade)
      /\ raced' = (raced \/ post[p].late)
      /\ post' = [q \in Posts |-> IF q = p THEN NoPost
                    ELSE [post[q] EXCEPT !.late = @ \/ post[q].pc \in {"check", "save"}]]
      /\ UNCHANGED <<twice, edited, given>>
  BY DEF SaveReview
<1>2. /\ post \in [Posts -> PostSet] /\ u \in Readers /\ post[p].grade \in Grades
      /\ post[p].grade \in Nat /\ post[p].base \in TotalsSet /\ post[p].late \in BOOLEAN
      /\ u # NoOne
  <2>1. post \in [Posts -> PostSet] /\ post[p] \in PostSet BY DEF ReviewsInv, PostsOK
  <2>2. u \in Readers /\ u # NoOne BY <1>1, <2>1 DEF ReviewsInv, ReviewsTypeOK, PostSet
  <2>3. post[p].grade \in Grades BY <1>1 DEF ReviewsInv, PostsOK
  <2>4. post[p].grade \in Nat /\ post[p].base \in TotalsSet /\ post[p].late \in BOOLEAN
    BY <2>1 DEF PostSet
  <2> QED BY <2>1, <2>2, <2>3, <2>4
<1>3. /\ reviews \in Seq(Review) /\ Len(reviews) \in Nat
      /\ edited \in Nat /\ totals \in TotalsSet /\ raced \in BOOLEAN /\ MaxReviews \in Nat
      /\ twice \subseteq Readers /\ given \subseteq Readers \cup {NoOne}
  BY ReviewsAssumption DEF ReviewsInv, ReviewsTypeOK, ReviewsAssumption, TotalsSet, Review
<1>4. r \in Review /\ r.user = u /\ r.grade = post[p].grade
  BY <1>2 DEF Review
<1> DEFINE n == Len(reviews)
<1>5. /\ reviews' \in Seq(Review) /\ Len(reviews') = n + 1
      /\ n \in Nat
      /\ DOMAIN reviews' = 1..(n + 1) /\ DOMAIN reviews = 1..n
      /\ \A i \in 1..n : reviews'[i] = reviews[i]
      /\ reviews'[n + 1] = r /\ reviews' # <<>>
  <2> HIDE DEF r
  <2> QED BY <1>1, <1>3, <1>4
<1>16. \A S \in SUBSET DOMAIN reviews :
           /\ Graded(reviews, S) \in Nat /\ Graded(reviews', S) = Graded(reviews, S)
           /\ Graded(reviews', S \cup {n + 1}) = Graded(reviews, S) + r.grade
  <2> HIDE DEF r
  <2> QED BY <1>1, <1>3, <1>4, SumAppended
<1>17. DOMAIN reviews' = DOMAIN reviews \cup {n + 1} /\ n + 1 \notin DOMAIN reviews
  <2>1. 1..(n + 1) = 1..n \cup {n + 1} BY <1>5
  <2> QED BY <1>5, <2>1
<1>6. SumOfGrades' = SumOfGrades + r.grade /\ SumOfGrades \in Nat
  BY <1>16, <1>17, SumIsGraded
<1> HIDE DEF r
\* The requests.
<1>7. \A q \in Posts : q # p =>
          /\ post'[q] \in PostSet
          /\ post'[q].pc = post[q].pc /\ post'[q].user = post[q].user
          /\ post'[q].grade = post[q].grade /\ post'[q].base = post[q].base
          /\ ~post'[q].late => post[q].pc \notin {"check", "save"}
  <2> TAKE q \in Posts
  <2> SUFFICES ASSUME q # p
               PROVE  /\ post'[q] \in PostSet
                      /\ post'[q].pc = post[q].pc /\ post'[q].user = post[q].user
                      /\ post'[q].grade = post[q].grade /\ post'[q].base = post[q].base
                      /\ ~post'[q].late => post[q].pc \notin {"check", "save"}
    OBVIOUS
  <2> DEFINE k == post[q]
             b == k.late \/ k.pc \in {"check", "save"}
  <2>1. k \in PostSet BY <1>2
  <2>2. post'[q] = [k EXCEPT !.late = b] BY <1>1
  <2>3. b \in BOOLEAN BY <2>1 DEF PostSet
  <2>4. k.pc \in {"check", "save"} => b OBVIOUS
  <2> HIDE DEF b, k
  <2>5. /\ [k EXCEPT !.late = b] \in PostSet /\ [k EXCEPT !.late = b].pc = k.pc
        /\ [k EXCEPT !.late = b].user = k.user /\ [k EXCEPT !.late = b].grade = k.grade
        /\ [k EXCEPT !.late = b].late = b /\ [k EXCEPT !.late = b].base = k.base
    BY <2>1, <2>3 DEF PostSet
  <2> QED BY <2>2, <2>4, <2>5 DEF k
<1>8. /\ post'[p] = NoPost /\ NoPost \in PostSet /\ NoPost.pc = "idle" /\ NoPost.user = NoOne
  BY <1>1 DEF NoPost, PostSet, Zero, TotalsSet
<1>9. PostsOK'
  <2>1. DOMAIN post' = Posts /\ \A q \in Posts : post'[q] \in PostSet BY <1>1, <1>7, <1>8
  <2>2. post' = [q \in Posts |-> post'[q]] BY <1>1
  <2>3. post' \in [Posts -> PostSet] BY <2>1, <2>2
  <2> QED BY <1>7, <1>8, <2>3 DEF ReviewsInv, PostsOK
<1>10. BaseHolds' BY <1>7, <1>8 DEF BaseHolds
\* The totals.
<1> DEFINE b == post[p].base
           g == post[p].grade
           new == Rounded(b.sum + g, b.count + 1)
<1>11. totals' \in TotalsSet /\ totals'.count = b.count + 1 /\ totals'.sum = b.sum + g
       /\ totals'.rating = IF SameColumn(new, b.rating) THEN totals.rating ELSE new
  <2>1. b.count \in Nat /\ b.sum \in Nat BY <1>2 DEF TotalsSet
  <2>2. b.count + 1 \in Nat \ {0} /\ b.sum + g \in Nat BY <1>2, <2>1
  <2>3. new \in Nat BY <2>2, RoundedNat
  <2>4. totals.rating \in Nat BY <1>3 DEF TotalsSet
  <2>5. totals' = [count |-> b.count + 1, sum |-> b.sum + g,
                   rating |-> IF SameColumn(new, b.rating) THEN totals.rating ELSE new]
    BY <1>1 DEF WithGrade
  <2> DEFINE w == IF SameColumn(new, b.rating) THEN totals.rating ELSE new
  <2>6. w \in Nat BY <2>3, <2>4
  <2> HIDE DEF w, new
  <2> QED BY <2>2, <2>5, <2>6 DEF TotalsSet, w
<1>12. ReviewsTypeOK'
  <2>1. Len(reviews') <= MaxReviews BY <1>1, <1>3, <1>5
  <2>2. \A q \in Posts : post'[q].pc = "idle" <=> post'[q].user = NoOne
    BY <1>7, <1>8 DEF ReviewsInv, ReviewsTypeOK
  <2>3. raced' \in BOOLEAN BY <1>1, <1>2, <1>3
  <2>4. \A q \in Posts : post'[q].pc \in {"idle", "read", "check", "save"}
    BY <1>9 DEF PostsOK, PostSet
  <2>5. totals' \in [count : Nat, sum : Nat, rating : Nat] BY <1>11 DEF TotalsSet
  <2> QED BY <1>1, <1>3, <1>5, <2>1, <2>2, <2>3, <2>4, <2>5 DEF ReviewsTypeOK, Review
<1>18. SomeCounted'
  <2> SUFFICES ASSUME edited = 0
               PROVE  /\ Counted(totals', reviews')
                      /\ \A q \in Posts : post'[q].pc \in {"check", "save"} => Counted(post'[q].base, reviews')
    BY <1>1 DEF SomeCounted
  <2>1. Counted(b, reviews) BY <1>1 DEF ReviewsInv, SomeCounted
  <2>2. PICK S \in SUBSET DOMAIN reviews : b.count = Cardinality(S) /\ b.sum = Graded(reviews, S)
    BY <2>1 DEF Counted
  <2>3. Cardinality(S \cup {n + 1}) = Cardinality(S) + 1
    <3>0. IsFiniteSet(1..n) /\ S \subseteq 1..n BY <1>5, FS_Interval
    <3>1. IsFiniteSet(S) BY <3>0, FS_Subset
    <3> QED BY <1>17, <3>1, FS_AddElement
  <2>4. Graded(reviews', S \cup {n + 1}) = Graded(reviews, S) + r.grade BY <1>16
  <2>5. S \cup {n + 1} \in SUBSET DOMAIN reviews' BY <1>17
  <2>6. totals'.count = Cardinality(S \cup {n + 1}) /\ totals'.sum = Graded(reviews', S \cup {n + 1})
    BY <1>4, <1>11, <2>2, <2>3, <2>4
  <2>7. Counted(totals', reviews') BY <2>5, <2>6 DEF Counted
  <2>8. ASSUME NEW q \in Posts, post'[q].pc \in {"check", "save"} PROVE Counted(post'[q].base, reviews')
    <3>1. q # p /\ post'[q].base = post[q].base /\ post[q].pc \in {"check", "save"}
      BY <1>7, <1>8, <2>8
    <3>2. PICK T \in SUBSET DOMAIN reviews :
            post[q].base.count = Cardinality(T) /\ post[q].base.sum = Graded(reviews, T)
      BY <3>1 DEF ReviewsInv, SomeCounted, Counted
    <3>3. T \in SUBSET DOMAIN reviews' /\ Graded(reviews', T) = Graded(reviews, T) BY <1>16, <1>17
    <3> QED BY <3>1, <3>2, <3>3 DEF Counted
  <2> QED BY <2>7, <2>8
<1>13. TotalsFollow'
  <2> SUFFICES ASSUME ~raced', edited' = 0
               PROVE  /\ totals'.count = Len(reviews') /\ totals'.sum = SumOfGrades'
                      /\ totals'.rating = Rounded(SumOfGrades', Len(reviews'))
    BY <1>5 DEF TotalsFollow, Rounded
  <2>1. ~raced /\ ~post[p].late /\ edited = 0 BY <1>1
  <2>2. b = totals BY <1>1, <2>1 DEF ReviewsInv, BaseHolds
  <2>3. totals.count = n /\ totals.sum = SumOfGrades BY <2>1 DEF ReviewsInv, TotalsFollow
  <2>4. totals'.count = Len(reviews') /\ totals'.sum = SumOfGrades'
    BY <1>4, <1>5, <1>6, <1>11, <2>2, <2>3
  <2>5. new = Rounded(SumOfGrades', Len(reviews')) BY <1>4, <1>5, <1>6, <2>2, <2>3
  <2>6. SameColumn(new, b.rating) => new = totals.rating BY <2>2 DEF SameColumn
  <2> HIDE DEF new
  <2> QED BY <1>11, <2>4, <2>5, <2>6
\* The users.
<1>14. /\ u \notin twice \cup given => \A i \in 1..n : reviews[i].user # u
       /\ \A q \in Posts : post[q].user = u /\ u \notin twice => q = p
  BY <1>1, <1>2, <1>5 DEF ReviewsInv, OneEach
<1>15. OneEach'
  <2>1. ASSUME NEW q \in Posts, NEW s \in Posts, post'[q].user = post'[s].user,
               post'[q].user \notin twice' \cup {NoOne}
        PROVE  q = s
    BY <1>1, <1>7, <1>8, <2>1 DEF ReviewsInv, OneEach
  <2>2. \A i \in DOMAIN reviews' : i \in 1..n \/ i = n + 1 BY <1>5
  <2>3. reviews'[n + 1].user = u BY <1>4, <1>5
  <2>4. ASSUME NEW q \in Posts, post'[q].pc = "save", post'[q].user \notin twice' \cup given',
               NEW i \in DOMAIN reviews'
        PROVE  reviews'[i].user # post'[q].user
    <3>1. q # p /\ post'[q].user = post[q].user /\ post[q].pc = "save"
      BY <1>7, <1>8, <2>4
    <3>2. post[q].user \notin twice \cup given BY <1>1, <2>4, <3>1
    <3>3. post[q].user # u BY <1>14, <3>1, <3>2
    <3>4. \A j \in 1..n : reviews[j].user # post[q].user
      BY <1>5, <3>1, <3>2 DEF ReviewsInv, OneEach
    <3> QED BY <1>5, <2>2, <2>3, <3>1, <3>3, <3>4
  <2>5. ASSUME NEW i \in DOMAIN reviews', NEW j \in DOMAIN reviews',
               reviews'[i].user = reviews'[j].user, reviews'[i].user \notin twice' \cup given'
        PROVE  i = j
    <3>1. \A k, m \in 1..n : reviews[k].user = reviews[m].user /\ reviews[k].user \notin twice \cup given => k = m
      BY <1>5 DEF ReviewsInv, OneEach
    <3>5. reviews'[i].user \notin twice \cup given BY <1>1, <2>5
    <3>2. CASE i \in 1..n /\ j \in 1..n BY <1>5, <2>5, <3>1, <3>2, <3>5
    <3>3. CASE i \in 1..n /\ j = n + 1 BY <1>5, <1>14, <2>3, <2>5, <3>3, <3>5
    <3>4. CASE i = n + 1 /\ j \in 1..n BY <1>5, <1>14, <2>3, <2>5, <3>4, <3>5
    <3> QED BY <2>2, <3>2, <3>3, <3>4
  <2> QED BY <2>1, <2>4, <2>5 DEF OneEach
<1> QED BY <1>9, <1>10, <1>12, <1>13, <1>15, <1>18 DEF ReviewsInv

\* An admin changes the reviews: whoever was not given one has no more than before.
LEMMA ReviewsEdited ==
    ASSUME ReviewsInv, reviews' \in Seq(Review), Len(reviews') <= MaxReviews, NEW at,
           edited' = edited + 1, given \subseteq given', given' \subseteq Readers \cup {NoOne},
           UNCHANGED <<totals, post, raced, twice>>,
           \A j \in DOMAIN reviews' : reviews'[j].user \notin given' =>
               at[j] \in DOMAIN reviews /\ reviews[at[j]].user = reviews'[j].user,
           \A j, k \in DOMAIN reviews' : at[j] = at[k] => j = k
    PROVE  ReviewsInv'
<1>1. edited \in Nat BY DEF ReviewsInv, ReviewsTypeOK
<1>2. ReviewsTypeOK' BY <1>1 DEF ReviewsInv, ReviewsTypeOK, Review
<1>3. PostsOK' /\ BaseHolds' BY DEF ReviewsInv, PostsOK, BaseHolds
<1>4. OneEach'
  <2>1. \A p, q \in Posts : post'[p].user = post'[q].user /\ post'[p].user \notin twice' \cup {NoOne} => p = q
    BY DEF ReviewsInv, OneEach
  <2>2. \A p \in Posts : post'[p].pc = "save" /\ post'[p].user \notin twice' \cup given' =>
            \A j \in DOMAIN reviews' : reviews'[j].user # post'[p].user
    BY DEF ReviewsInv, OneEach
  <2>3. \A j, k \in DOMAIN reviews' :
           reviews'[j].user = reviews'[k].user /\ reviews'[j].user \notin twice' \cup given' => j = k
    BY DEF ReviewsInv, OneEach
  <2> QED BY <2>1, <2>2, <2>3 DEF OneEach
<1>5. TotalsFollow' /\ SomeCounted' BY <1>1 DEF TotalsFollow, SomeCounted
<1> QED BY <1>2, <1>3, <1>4, <1>5 DEF ReviewsInv

LEMMA ReviewAdded ==
    ASSUME ReviewsInv, NEW u \in Readers \cup {NoOne}, AddReview(u)
    PROVE  ReviewsInv'
<1> DEFINE n == Len(reviews)
           at == [j \in 1..(n + 1) |-> j]
<1>1. PICK g \in Grades : reviews' = Append(reviews, [user |-> u, grade |-> g]) BY DEF AddReview
<1>2. /\ n + edited < MaxReviews /\ edited' = edited + 1 /\ given' = given \cup {u}
      /\ UNCHANGED <<totals, post, raced, twice>>
  BY DEF AddReview
<1>3. reviews \in Seq(Review) /\ n \in Nat /\ edited \in Nat /\ MaxReviews \in Nat
      /\ given \subseteq Readers \cup {NoOne}
  BY ReviewsAssumption DEF ReviewsInv, ReviewsTypeOK, ReviewsAssumption, Review
<1> DEFINE r == [user |-> u, grade |-> g]
<1>4. r \in Review /\ r.user = u BY DEF Review
<1> HIDE DEF r
<1>5. /\ reviews' \in Seq(Review) /\ Len(reviews') = n + 1 /\ DOMAIN reviews' = 1..(n + 1)
      /\ DOMAIN reviews = 1..n /\ reviews'[n + 1] = r /\ \A i \in 1..n : reviews'[i] = reviews[i]
  <2>1. reviews' = Append(reviews, r) BY <1>1 DEF r
  <2> QED BY <1>3, <1>4, <2>1
<1>6. \A j \in DOMAIN reviews' : j \in 1..n \/ j = n + 1 BY <1>3, <1>5
<1>7. \A j \in DOMAIN reviews' : at[j] = j BY <1>5
<1> HIDE DEF at
<1>8. \A j \in DOMAIN reviews' : reviews'[j].user \notin given' =>
               at[j] \in DOMAIN reviews /\ reviews[at[j]].user = reviews'[j].user
  BY <1>2, <1>4, <1>5, <1>6, <1>7
<1> QED BY <1>2, <1>3, <1>5, <1>7, <1>8, ReviewsEdited

LEMMA ReviewEdited ==
    ASSUME ReviewsInv, NEW i, NEW u \in Readers \cup {NoOne}, EditReview(i, u)
    PROVE  ReviewsInv'
<1> DEFINE n == Len(reviews)
           at == [j \in 1..n |-> j]
<1>1. PICK g \in Grades : reviews' = [reviews EXCEPT ![i] = [user |-> u, grade |-> g]]
  BY DEF EditReview
<1>2. /\ i \in DOMAIN reviews /\ edited' = edited + 1
      /\ given' = IF u = reviews[i].user THEN given ELSE given \cup {u}
      /\ UNCHANGED <<totals, post, raced, twice>>
  BY DEF EditReview
<1>3. reviews \in Seq(Review) /\ n \in Nat /\ n <= MaxReviews
      /\ given \subseteq Readers \cup {NoOne}
  BY DEF ReviewsInv, ReviewsTypeOK, Review
<1> DEFINE r == [user |-> u, grade |-> g]
<1>4. r \in Review /\ r.user = u BY DEF Review
<1> HIDE DEF r
<1>5. /\ reviews' \in Seq(Review) /\ Len(reviews') = n /\ DOMAIN reviews' = 1..n
      /\ DOMAIN reviews = 1..n /\ reviews'[i] = r /\ \A j \in 1..n : j # i => reviews'[j] = reviews[j]
  <2>1. reviews' = [reviews EXCEPT ![i] = r] BY <1>1 DEF r
  <2> QED BY <1>2, <1>3, <1>4, <2>1
<1>7. \A j \in DOMAIN reviews' : at[j] = j BY <1>5
<1> HIDE DEF at
<1>8. \A j \in DOMAIN reviews' : reviews'[j].user \notin given' =>
               at[j] \in DOMAIN reviews /\ reviews[at[j]].user = reviews'[j].user
  BY <1>2, <1>4, <1>5, <1>7
<1>9. given \subseteq given' /\ given' \subseteq Readers \cup {NoOne} BY <1>2, <1>3
<1> QED BY <1>2, <1>3, <1>5, <1>7, <1>8, <1>9, ReviewsEdited

LEMMA ReviewRemoved ==
    ASSUME ReviewsInv, NEW i, RemoveReview(i)
    PROVE  ReviewsInv'
<1> DEFINE n == Len(reviews)
           a(j) == IF j < i THEN j ELSE j + 1
           at == [j \in 1..(n - 1) |-> a(j)]
<1>1. /\ i \in DOMAIN reviews /\ edited' = edited + 1
      /\ reviews' = [j \in 1..(n - 1) |-> reviews[a(j)]]
      /\ UNCHANGED <<totals, post, raced, twice, given>>
  BY DEF RemoveReview
<1>2. reviews \in Seq(Review) /\ n \in Nat /\ n <= MaxReviews /\ MaxReviews \in Nat
      /\ given \subseteq Readers \cup {NoOne}
  BY ReviewsAssumption DEF ReviewsInv, ReviewsTypeOK, ReviewsAssumption, Review
<1>3. DOMAIN reviews = 1..n /\ i \in 1..n BY <1>1, <1>2
<1>4. \A j \in 1..(n - 1) : a(j) \in 1..n /\ at[j] = a(j) BY <1>2, <1>3
<1>5. \A j, k \in 1..(n - 1) : at[j] = at[k] => j = k BY <1>2, <1>3
<1>6. n - 1 \in Nat BY <1>2, <1>3
<1> HIDE DEF a, at
<1>7. \A j \in 1..n : reviews[j] \in Review BY <1>2, ElementOfSeq
<1>8. reviews' \in [1..(n - 1) -> Review] BY <1>1, <1>4, <1>7
<1>9. reviews' \in Seq(Review) /\ Len(reviews') = n - 1 BY <1>6, <1>8
<1>10. Len(reviews') <= MaxReviews BY <1>2, <1>9
<1>12. DOMAIN reviews' = 1..(n - 1) BY <1>8
<1>13. \A j \in DOMAIN reviews' : at[j] \in DOMAIN reviews /\ reviews'[j] = reviews[at[j]]
  BY <1>1, <1>3, <1>4, <1>12
<1> QED BY <1>1, <1>2, <1>5, <1>9, <1>10, <1>12, <1>13, ReviewsEdited

-----------------------------------------------------------------------------
LEMMA ReviewsStep ==
    ASSUME ReviewsInv, [ReviewsNext]_reviewVars
    PROVE  ReviewsInv'
<1>0. NoPost \in PostSet /\ NoPost.pc = "idle" /\ NoPost.user = NoOne
  BY DEF NoPost, PostSet, Zero, TotalsSet
<1>1. ASSUME NEW p \in Posts, NEW u \in Readers, BeginReview(p, u)
      PROVE  ReviewsInv'
  <2>1. PICK g \in Grades :
          post' = [post EXCEPT ![p] = [NoPost EXCEPT !.pc = "read", !.user = u, !.grade = g]]
    BY <1>1 DEF BeginReview
  <2> DEFINE k == [NoPost EXCEPT !.pc = "read", !.user = u, !.grade = g]
  <2>2. k \in PostSet /\ k.pc = "read" /\ k.user = u /\ k.grade = g /\ u # NoOne
    BY ReviewsAssumption DEF NoPost, PostSet, Zero, TotalsSet, ReviewsAssumption
  <2>3. twice \subseteq Readers BY DEF ReviewsInv, ReviewsTypeOK
  <2>4. /\ twice' = IF \E q \in Posts : post[q].user = u THEN twice \cup {u} ELSE twice
        /\ UNCHANGED <<reviews, totals, raced, edited, given>>
    BY <1>1 DEF BeginReview
  <2> HIDE DEF k
  <2>5. post' = [post EXCEPT ![p] = k] BY <2>1 DEF k
  <2> QED BY <2>2, <2>3, <2>4, <2>5, RequestMoves
<1>2. ASSUME NEW p \in Posts, ReadTotals(p) PROVE ReviewsInv'
  <2> DEFINE k == [post[p] EXCEPT !.pc = "check", !.base = totals]
  <2>1. /\ post[p] \in PostSet /\ post \in [Posts -> PostSet] /\ totals \in TotalsSet
        /\ post[p].pc = "read"
        /\ UNCHANGED <<reviews, totals, raced, edited, given, twice>>
    BY <1>2 DEF ReviewsInv, PostsOK, ReadTotals, ReviewsTypeOK, TotalsSet
  <2>2. post' = [post EXCEPT ![p] = k] BY <1>2, <2>1 DEF ReadTotals
  <2>3. k \in PostSet /\ k.pc = "check" /\ k.user = post[p].user /\ k.grade = post[p].grade
        /\ k.base = totals
    BY <2>1 DEF PostSet
  <2> HIDE DEF k
  <2>4. k.user # NoOne /\ k.grade \in Grades BY <2>1, <2>3 DEF ReviewsInv, ReviewsTypeOK, PostsOK
  <2>5. k.user \notin twice' \cup {NoOne} => \A q \in Posts : q # p => post[q].user # k.user
    BY <2>1, <2>3 DEF ReviewsInv, OneEach
  <2>6. twice \subseteq Readers /\ (edited = 0 => Counted(k.base, reviews))
    BY <2>3 DEF ReviewsInv, ReviewsTypeOK, SomeCounted
  <2> QED BY <2>1, <2>2, <2>3, <2>4, <2>5, <2>6, RequestMoves
<1>3. ASSUME NEW p \in Posts, post[p].pc # "idle", post' = [post EXCEPT ![p] = NoPost],
             UNCHANGED <<reviews, totals, raced, edited, given, twice>>
      PROVE  ReviewsInv'
  <2>1. twice \subseteq Readers BY DEF ReviewsInv, ReviewsTypeOK
  <2> QED BY <1>0, <1>3, <2>1, RequestMoves
<1>4. ASSUME NEW p \in Posts, FindReview(p) PROVE ReviewsInv'
  <2>1. /\ post[p] \in PostSet /\ post \in [Posts -> PostSet]
        /\ post[p].pc = "check"
        /\ UNCHANGED <<reviews, totals, raced, edited, given, twice>>
    BY <1>4 DEF ReviewsInv, PostsOK, FindReview
  <2>2. CASE WritesOf(post[p].user) # {}
    <3>1. post' = [post EXCEPT ![p] = NoPost] BY <1>4, <2>1, <2>2 DEF FindReview
    <3> QED BY <1>3, <2>1, <3>1
  <2>3. CASE WritesOf(post[p].user) = {}
    <3> DEFINE k == [post[p] EXCEPT !.pc = "save"]
    <3>1. post' = [post EXCEPT ![p] = k] BY <1>4, <2>1, <2>3 DEF FindReview
    <3>2. k \in PostSet /\ k.pc = "save" /\ k.user = post[p].user /\ k.grade = post[p].grade
          /\ k.base = post[p].base /\ k.late = post[p].late
      BY <2>1 DEF PostSet
    <3> HIDE DEF k
    <3>3. k.user # NoOne /\ k.grade \in Grades BY <2>1, <3>2 DEF ReviewsInv, ReviewsTypeOK, PostsOK
    <3>4. k.user \notin twice' \cup {NoOne} => \A q \in Posts : q # p => post[q].user # k.user
      BY <2>1, <3>2 DEF ReviewsInv, OneEach
    <3>5. twice \subseteq Readers BY DEF ReviewsInv, ReviewsTypeOK
    <3>6. (~k.late => k.base = totals) /\ (edited = 0 => Counted(k.base, reviews))
      BY <2>1, <3>2 DEF ReviewsInv, BaseHolds, SomeCounted
    <3> QED BY <2>1, <2>3, <3>1, <3>2, <3>3, <3>4, <3>5, <3>6, RequestMoves
  <2> QED BY <2>2, <2>3
<1>5. ASSUME NEW p \in Posts, ReviewFails(p) PROVE ReviewsInv'
  BY <1>3, <1>5 DEF ReviewFails
<1>6. CASE UNCHANGED reviewVars
  BY <1>6, SumSame DEF reviewVars, ReviewsInv, ReviewsTypeOK, PostsOK, BaseHolds, SomeCounted, OneEach, TotalsFollow
<1> QED BY <1>1, <1>2, <1>4, <1>5, <1>6, ReviewSaved, ReviewAdded, ReviewEdited, ReviewRemoved DEF ReviewsNext

\* The reviews, the totals and the requests that save a review have their types
\* (add_review.py, models/review.py).
THEOREM ReviewsTypeCorrect == ReviewsSpec => []ReviewsTypeOK
<1>1. ReviewsInv => ReviewsTypeOK BY DEF ReviewsInv
<1> QED BY <1>1, ReviewsStart, ReviewsStep, PTL DEF ReviewsSpec

\* While no admin changed a review: however requests race, the count and the sum a book
\* keeps are those of some of its reviews, and they and the rating are those of all
\* if no request committed between another's read and commit.  And a user has one
\* review unless two requests of theirs ran at once or an admin gave them one.
THEOREM TotalsAreThoseOfTheReviews == ReviewsSpec => []ReviewsAddUp
<1>1. ReviewsInv => ReviewsAddUp
  <2> SUFFICES ASSUME ReviewsInv PROVE ReviewsAddUp OBVIOUS
  <2>1. edited = 0 => \E S \in SUBSET DOMAIN reviews :
                          totals.count = Cardinality(S) /\ totals.sum = GradesOf(S)
    BY SumIsGraded DEF ReviewsInv, SomeCounted, Counted
  <2>2. ASSUME NEW u \in Readers \ (twice \cup given) PROVE Cardinality(WritesOf(u)) <= 1
    <3>1. CASE WritesOf(u) = {}
      <4>1. Cardinality({}) = 0 BY FS_EmptySet
      <4> QED BY <3>1, <4>1
    <3>2. CASE WritesOf(u) # {}
      <4>1. \A i, j \in WritesOf(u) : i = j BY DEF ReviewsInv, OneEach, WritesOf
      <4>2. PICK i : WritesOf(u) = {i} BY <3>2, <4>1
      <4>3. Cardinality({i}) = 1 BY FS_Singleton
      <4> QED BY <4>2, <4>3
    <3> QED BY <3>1, <3>2
  <2> QED BY <2>1, <2>2 DEF ReviewsAddUp, ReviewsInv, TotalsFollow
<1> QED BY <1>1, ReviewsStart, ReviewsStep, PTL DEF ReviewsSpec

-----------------------------------------------------------------------------
(* Cart, wishlist and pages *)

ClickSet == [pc : {"idle", "read", "write", "ok", "exists"}, tab : Tabs \cup {Closed}, op : Ops,
             title : Titles \cup {NoTitle}, n : 0..MaxQuantity, base : 0..MaxQuantity,
             cart : BOOLEAN, late : BOOLEAN, gone : BOOLEAN]
TabSet == [marks : SUBSET Marks, loading : BOOLEAN, unread : SUBSET Lists, got : SUBSET Marks,
           knew : SUBSET Marks, put : SUBSET Marks, early : SUBSET Marks]

ClicksOK == click \in [Clicks -> ClickSet]

\* A request that no change overtook still knows the item; the rows it read are there
\* unless they are gone.
RowKnown(k) ==
    k.pc = "write" =>
        /\ ~k.late => k.base = items[k.title]
        /\ ~k.gone => (k.base > 0 => items[k.title] # 0) /\ (k.cart => hasCart)
        /\ (k.op = "set" => k.base > 0) /\ (k.base > 0 => k.cart)

ItemKnown == \A c \in Clicks : RowKnown(click[c])

\* A page knows what is on the shelf, and what it is about to be told.
PageKnows ==
    /\ \A b \in Tabs : OnShelf \subseteq tab[b].knew
    /\ \A c \in Clicks, b \in Tabs :
         /\ click[c].tab = b /\ click[c].tab # Closed
         /\ click[c].pc \in {"ok", "exists"} /\ click[c].op \in {"add", "wish"}
         => <<ListOf(click[c]), click[c].title>> \in tab[b].knew

\* What is put on the shelf before the lists are shown is put early.
PutEarly ==
    \A b \in Tabs : tab[b].got \subseteq tab[b].knew /\ (tab[b].loading => tab[b].put \subseteq tab[b].early)

ShelfInv ==
    /\ ShelfTypeOK /\ ClicksOK
    /\ CartAddsUp /\ ItemKnown
    /\ MarksFollowTheShelf /\ PageKnows /\ PutEarly

-----------------------------------------------------------------------------
LEMMA ShelfNames ==
    /\ MaxQuantity \in Nat \ {0} /\ MaxDeeds \in Nat /\ NoTitle \notin Titles
    /\ NoClick \in ClickSet /\ NoClick.pc = "idle" /\ NoClick.title = NoTitle
    /\ FreshTab \in TabSet
<1>1. MaxQuantity \in Nat \ {0} /\ MaxDeeds \in Nat /\ NoTitle \notin Titles
  BY ShelfAssumption DEF ShelfAssumption
<1>2. 0 \in 0..MaxQuantity BY <1>1
<1> QED BY <1>1, <1>2 DEF NoClick, ClickSet, FreshTab, TabSet, Ops

LEMMA ShelfStart == ShelfInit => ShelfInv
<1> SUFFICES ASSUME ShelfInit PROVE ShelfInv OBVIOUS
<1> USE DEF ShelfInit
<1>1. MaxQuantity - 1 \in 0..MaxQuantity /\ 0 \in 0..MaxQuantity /\ 0 \in 0..MaxDeeds
  BY ShelfNames
<1>2. /\ \A c \in Clicks : click[c] = NoClick
      /\ \A b \in Tabs : tab[b] = FreshTab
      /\ InCart = {} /\ OnShelf = {}
  BY DEF InCart, OnShelf
<1>3. ClicksOK BY ShelfNames DEF ClicksOK
<1>4. ShelfTypeOK
  BY <1>1, <1>2, ShelfNames DEF ShelfTypeOK, ClickSet, TabSet
<1>5. CartAddsUp BY DEF CartAddsUp
<1>6. ItemKnown /\ PageKnows BY <1>2, ShelfNames DEF ItemKnown, RowKnown, PageKnows
<1>7. MarksFollowTheShelf /\ PutEarly
  BY <1>2 DEF MarksFollowTheShelf, PutEarly, FreshTab
<1> QED BY <1>3, <1>4, <1>5, <1>6, <1>7 DEF ShelfInv

\* The types, by what is written.
LEMMA ShelfTypes ==
    ShelfTypeOK /\ ClicksOK <=>
        /\ hasCart \in BOOLEAN
        /\ items \in [Titles -> 0..MaxQuantity] /\ stock \in [Titles -> 0..MaxQuantity]
        /\ wished \subseteq Titles
        /\ InCart # {} => hasCart
        /\ click \in [Clicks -> ClickSet]
        /\ \A c \in Clicks : click[c].pc = "idle" <=> click[c].title = NoTitle
        /\ tab \in [Tabs -> TabSet]
        /\ owed \in [Titles -> 0..MaxQuantity] /\ mixed \subseteq Titles /\ swept \subseteq Titles
        /\ orders \subseteq [books : SUBSET Titles, since : [Titles -> Nat]]
        /\ deeds \in 0..MaxDeeds
<1>1. click \in [Clicks -> ClickSet] =>
        \A c \in Clicks : /\ click[c].pc \in {"idle", "read", "write", "ok", "exists"}
                          /\ click[c].tab \in Tabs \cup {Closed}
                          /\ click[c].op \in Ops /\ click[c].base \in 0..MaxQuantity
  BY DEF ClickSet
<1> QED BY <1>1 DEF ShelfTypeOK, ClicksOK, TabSet

\* A request moves; shelf and pages stay.
LEMMA ClickMoves ==
    ASSUME ShelfInv, NEW c \in Clicks, NEW k \in ClickSet, click' = [click EXCEPT ![c] = k],
           UNCHANGED <<cartVars, wished, stock, tab>>,
           deeds' \in 0..MaxDeeds,
           k.pc = "idle" <=> k.title = NoTitle,
           RowKnown(k),
           k.pc # "ok" \/ k.op \notin {"add", "wish"},
           k.pc = "exists" => k.op = "wish" /\ k.title \in wished
    PROVE  ShelfInv'
<1>1. click \in [Clicks -> ClickSet] BY DEF ShelfInv, ClicksOK
<1>2. click'[c] = k /\ \A d \in Clicks : d # c => click'[d] = click[d] BY <1>1
<1>3. click' \in [Clicks -> ClickSet] BY <1>1
<1>4. InCart' = InCart /\ OnShelf' = OnShelf BY DEF InCart, OnShelf, cartVars
<1>5. ShelfTypeOK' /\ ClicksOK'
  <2>1. \A d \in Clicks : click'[d].pc = "idle" <=> click'[d].title = NoTitle
    BY <1>2 DEF ShelfInv, ShelfTypeOK
  <2>2. \A d \in Clicks : /\ click'[d].pc \in {"idle", "read", "write", "ok", "exists"}
                          /\ click'[d].tab \in Tabs \cup {Closed}
                          /\ click'[d].op \in Ops /\ click'[d].base \in 0..MaxQuantity
    BY <1>3 DEF ClickSet
  <2> QED BY <1>3, <1>4, <2>1, <2>2 DEF ShelfInv, ShelfTypeOK, ClicksOK, cartVars
<1>6. ItemKnown' BY <1>2 DEF ShelfInv, ItemKnown, RowKnown, cartVars
<1>7. PageKnows'
  <2>1. \A b \in Tabs : OnShelf' \subseteq tab'[b].knew BY <1>4 DEF ShelfInv, PageKnows
  <2>2. ASSUME NEW d \in Clicks, NEW b \in Tabs, click'[d].tab = b, click'[d].tab # Closed,
               click'[d].pc \in {"ok", "exists"}, click'[d].op \in {"add", "wish"}
        PROVE  <<ListOf(click'[d]), click'[d].title>> \in tab'[b].knew
    <3>1. CASE d = c
      <4>1. k.op = "wish" /\ k.title \in wished BY <1>2, <2>2, <3>1
      <4>2. <<"wish", k.title>> \in OnShelf BY <4>1 DEF OnShelf
      <4>3. ListOf(k) = "wish" BY <4>1 DEF ListOf
      <4> QED BY <1>2, <1>4, <2>1, <3>1, <4>2, <4>3
    <3>2. CASE d # c BY <1>2, <2>2, <3>2 DEF ShelfInv, PageKnows
    <3> QED BY <3>1, <3>2
  <2> QED BY <2>1, <2>2 DEF PageKnows, ListOf
<1>8. CartAddsUp' /\ MarksFollowTheShelf' /\ PutEarly'
  BY DEF ShelfInv, CartAddsUp, MarksFollowTheShelf, PutEarly, cartVars
<1> QED BY <1>5, <1>6, <1>7, <1>8 DEF ShelfInv

LEMMA Dropped ==
    ASSUME ShelfInv, NEW c \in Clicks, Drop(c),
           UNCHANGED <<cartVars, wished, stock, tab, deeds>>
    PROVE  ShelfInv'
<1>1. deeds \in 0..MaxDeeds BY DEF ShelfInv, ShelfTypeOK
<1>2. RowKnown(NoClick) BY ShelfNames DEF RowKnown
<1> QED BY <1>1, <1>2, ClickMoves, ShelfNames DEF Drop

LEMMA Clicked ==
    ASSUME ShelfInv, NEW c \in Clicks, NEW b \in Tabs, Click(c, b)
    PROVE  ShelfInv'
<1>1. PICK op \in Ops, t \in Titles, n \in 0..MaxQuantity :
        click' = [click EXCEPT ![c] = [NoClick EXCEPT !.pc = "read", !.tab = b, !.op = op,
                                                      !.title = t, !.n = n]]
  BY DEF Click
<1> DEFINE k == [NoClick EXCEPT !.pc = "read", !.tab = b, !.op = op, !.title = t, !.n = n]
<1>2. k \in ClickSet /\ k.pc = "read" /\ k.title = t BY ShelfNames DEF ClickSet
<1>3. UNCHANGED <<cartVars, wished, stock, tab>> BY DEF Click
<1>4. deeds' \in 0..MaxDeeds
  <2>1. deeds \in 0..MaxDeeds BY DEF ShelfInv, ShelfTypeOK
  <2> QED BY <2>1, ShelfNames DEF Click, Deed
<1>5. t # NoTitle BY ShelfNames
<1> HIDE DEF k
<1>6. click' = [click EXCEPT ![c] = k] BY <1>1 DEF k
<1>7. RowKnown(k) BY <1>2 DEF RowKnown
<1> QED BY <1>2, <1>3, <1>4, <1>5, <1>6, <1>7, ClickMoves

LEMMA ShelfRead ==
    ASSUME ShelfInv, NEW c \in Clicks, ReadShelf(c)
    PROVE  ShelfInv'
<1> DEFINE k == click[c]
<1>1. /\ k \in ClickSet /\ k.pc = "read" /\ deeds \in 0..MaxDeeds
      /\ k.title # NoTitle /\ k.title \in Titles
      /\ items \in [Titles -> 0..MaxQuantity] /\ hasCart \in BOOLEAN
      /\ UNCHANGED <<cartVars, wished, stock, tab, deeds>>
  BY DEF ReadShelf, ShelfInv, ShelfTypeOK, ClicksOK, ClickSet
<1>2. \/ Drop(c)
      \/ k.op = "wish" /\ k.title \in wished /\ click' = [click EXCEPT ![c].pc = "exists"]
      \/ /\ ~Refused(k)
         /\ click' = [click EXCEPT ![c].pc = "write", ![c].base = items[k.title], ![c].cart = hasCart]
  BY DEF ReadShelf
<1>3. CASE Drop(c) BY <1>1, <1>3, Dropped
<1>4. CASE k.op = "wish" /\ k.title \in wished /\ click' = [click EXCEPT ![c].pc = "exists"]
  <2> DEFINE m == [k EXCEPT !.pc = "exists"]
  <2>1. m \in ClickSet /\ m.pc = "exists" /\ m.title = k.title /\ m.op = k.op
    BY <1>1 DEF ClickSet
  <2>2. click' = [click EXCEPT ![c] = m] BY <1>4
  <2> HIDE DEF m
  <2>3. RowKnown(m) BY <2>1 DEF RowKnown
  <2> QED BY <1>1, <1>4, <2>1, <2>2, <2>3, ClickMoves
<1>5. CASE /\ ~Refused(k)
           /\ click' = [click EXCEPT ![c].pc = "write", ![c].base = items[k.title], ![c].cart = hasCart]
  <2> DEFINE m == [k EXCEPT !.pc = "write", !.base = items[k.title], !.cart = hasCart]
  <2>0. items[k.title] \in 0..MaxQuantity BY <1>1
  <2>1. m \in ClickSet /\ m.pc = "write" /\ m.title = k.title /\ m.base = items[k.title]
        /\ m.cart = hasCart /\ m.op = k.op
    BY <1>1, <2>0 DEF ClickSet
  <2>3. k.op = "set" => items[k.title] > 0 BY <1>1, <1>5, <2>0 DEF Refused
  <2>4. items[k.title] > 0 => hasCart BY <1>1 DEF ShelfInv, ShelfTypeOK, InCart
  <2>2. click' = [click EXCEPT ![c] = m] BY <1>5 DEF ShelfInv, ClicksOK
  <2> HIDE DEF m
  <2>5. RowKnown(m) BY <2>1, <2>3, <2>4 DEF RowKnown
  <2> QED BY <1>1, <2>1, <2>2, <2>5, ClickMoves
<1> QED BY <1>2, <1>3, <1>4, <1>5

\* The shelf changes: every page is there to see it.
LEMMA PagesSee ==
    ASSUME ShelfInv, Noticed, OnShelf' \subseteq Marks
    PROVE  /\ tab' \in [Tabs -> TabSet] /\ MarksFollowTheShelf' /\ PutEarly'
           /\ \A b \in Tabs : /\ OnShelf' \subseteq tab'[b].knew
                              /\ tab[b].knew \subseteq tab'[b].knew
<1>1. tab \in [Tabs -> TabSet] BY ShelfTypes DEF ShelfInv
<1>2. ASSUME NEW b \in Tabs
      PROVE  /\ tab'[b] \in TabSet /\ tab'[b].knew = tab[b].knew \cup OnShelf'
             /\ tab'[b].marks = tab[b].marks /\ tab'[b].put = tab[b].put
             /\ tab'[b].early = tab[b].early /\ tab'[b].got = tab[b].got
             /\ tab'[b].loading = tab[b].loading
  <2> DEFINE p == tab[b]
             w == p.knew \cup OnShelf'
  <2>1. p \in TabSet BY <1>1
  <2>2. w \in SUBSET Marks BY <2>1 DEF TabSet
  <2>3. tab'[b] = [p EXCEPT !.knew = w] BY DEF Noticed
  <2> HIDE DEF p, w
  <2>4. /\ [p EXCEPT !.knew = w] \in TabSet /\ [p EXCEPT !.knew = w].knew = w
        /\ [p EXCEPT !.knew = w].marks = p.marks /\ [p EXCEPT !.knew = w].put = p.put
        /\ [p EXCEPT !.knew = w].early = p.early /\ [p EXCEPT !.knew = w].got = p.got
        /\ [p EXCEPT !.knew = w].loading = p.loading
    BY <2>1, <2>2 DEF TabSet
  <2> QED BY <2>3, <2>4 DEF p, w
<1>3. tab' \in [Tabs -> TabSet] BY <1>2 DEF Noticed
<1>4. MarksFollowTheShelf' BY <1>2 DEF ShelfInv, MarksFollowTheShelf
<1>5. PutEarly' BY <1>2 DEF ShelfInv, PutEarly
<1> QED BY <1>2, <1>3, <1>4, <1>5

\* A mark is a list and a title.
LEMMA ShelfIsMarked ==
    ASSUME InCart \subseteq Titles, wished \subseteq Titles
    PROVE  OnShelf \subseteq Marks
BY DEF OnShelf, Marks, Lists

\* A request that a change of the cart overtakes knows so.
LEMMA OvertakenKnows ==
    ASSUME NEW k \in ClickSet, RowKnown(k), NEW B, NEW m, m = Overtaken(k, B),
           k.pc # "idle" => k.title \in Titles,
           \A t \in Titles : items'[t] # items[t] => t \in B,
           (hasCart => hasCart') \/ Titles \subseteq B
    PROVE  /\ m \in ClickSet /\ RowKnown(m)'
           /\ m.pc = k.pc /\ m.title = k.title /\ m.tab = k.tab /\ m.op = k.op
<1>1. CASE k.pc = "write" /\ k.title \in B
  <2> DEFINE b == k.gone \/ (k.base > 0 /\ items'[k.title] = 0) \/ (k.cart /\ ~hasCart')
  <2>1. m = [k EXCEPT !.late = TRUE, !.gone = b] BY <1>1 DEF Overtaken
  <2>2. b \in BOOLEAN BY DEF ClickSet
  <2>3. /\ ~b => ~k.gone /\ (k.base > 0 => items'[k.title] # 0) /\ (k.cart => hasCart')
    OBVIOUS
  <2> HIDE DEF b
  <2>4. /\ m \in ClickSet /\ m.pc = k.pc /\ m.title = k.title /\ m.tab = k.tab /\ m.op = k.op
        /\ m.late = TRUE /\ m.gone = b /\ m.base = k.base /\ m.cart = k.cart
    BY <2>1, <2>2 DEF ClickSet
  <2> QED BY <1>1, <2>3, <2>4 DEF RowKnown
<1>2. CASE ~ (k.pc = "write" /\ k.title \in B)
  <2>1. m = k BY <1>2 DEF Overtaken
  <2>2. k.pc = "write" => items'[k.title] = items[k.title] /\ (hasCart => hasCart') BY <1>2
  <2> QED BY <2>1, <2>2 DEF RowKnown
<1> QED BY <1>1, <1>2

LEMMA CartWritten ==
    ASSUME ShelfInv, NEW c \in Clicks, WriteCart(c)
    PROVE  ShelfInv'
<1> DEFINE k == click[c]
           t == k.title
           q == WrittenQuantity(k)
<1>1. /\ click \in [Clicks -> ClickSet] /\ k \in ClickSet /\ k.pc = "write" /\ t \in Titles
      /\ items \in [Titles -> 0..MaxQuantity] /\ owed \in [Titles -> 0..MaxQuantity]
      /\ stock \in [Titles -> 0..MaxQuantity] /\ wished \subseteq Titles
      /\ mixed \subseteq Titles /\ deeds \in 0..MaxDeeds
      /\ k.base \in 0..MaxQuantity /\ k.n \in 0..MaxQuantity /\ MaxQuantity \in Nat
  BY ShelfTypes, ShelfNames DEF WriteCart, ShelfInv, ClickSet
<1>2. /\ k.op \in {"add", "set"} /\ q <= MaxQuantity /\ ~WriteClashes(k)
      /\ k.op = "add" => owed[t] < MaxQuantity
      /\ hasCart' = (hasCart \/ k.op = "add")
      /\ items' = IF NothingToWrite(k) THEN items ELSE [items EXCEPT ![t] = q]
      /\ owed' = AskedFor(owed, k)
      /\ orders' = {[o EXCEPT !.since = AskedFor(@, k)] : o \in orders}
      /\ mixed' = IF k.late THEN mixed \cup {t} ELSE mixed
      /\ click' = [d \in Clicks |-> IF d = c THEN [k EXCEPT !.pc = "ok"] ELSE Overtaken(click[d], {t})]
      /\ UNCHANGED <<wished, stock, swept, deeds>> /\ Noticed
  BY DEF WriteCart
<1>3. q \in 0..MaxQuantity /\ (k.op = "add" => q > 0)
  <2>1. k.op = "add" => q = k.base + 1 BY DEF WrittenQuantity
  <2>2. k.op = "set" => q = k.n BY DEF WrittenQuantity
  <2> QED BY <1>1, <1>2, <2>1, <2>2
<1>4. (k.op = "add" => owed[t] + 1 \in 0..MaxQuantity) /\ owed[t] \in 0..MaxQuantity
  BY <1>1, <1>2
\* Items and what is owed.
<1>5. /\ items' \in [Titles -> 0..MaxQuantity] /\ owed' \in [Titles -> 0..MaxQuantity]
      /\ mixed' \subseteq Titles
  <2>1. owed' = IF k.op = "set" /\ k.n = 0 /\ k.gone THEN owed
                ELSE [owed EXCEPT ![t] = IF k.op = "add" THEN owed[t] + 1 ELSE k.n]
    BY <1>2 DEF AskedFor
  <2> HIDE DEF q, k, t
  <2>2. \/ owed' = owed
        \/ owed' = [owed EXCEPT ![t] = owed[t] + 1] /\ k.op = "add"
        \/ owed' = [owed EXCEPT ![t] = k.n]
    <3>1. CASE k.op = "set" /\ k.n = 0 /\ k.gone BY <2>1, <3>1
    <3>2. CASE k.op = "add" BY <2>1, <3>2
    <3>3. CASE ~(k.op = "set" /\ k.n = 0 /\ k.gone) /\ k.op # "add" BY <2>1, <3>3
    <3> QED BY <3>1, <3>2, <3>3
  <2> QED BY <1>1, <1>2, <1>3, <1>4, <2>2
<1>6. /\ items'[t] = IF NothingToWrite(k) THEN items[t] ELSE q
      /\ owed'[t] = IF k.op = "set" /\ k.n = 0 /\ k.gone THEN owed[t]
                    ELSE IF k.op = "add" THEN owed[t] + 1 ELSE k.n
      /\ \A s \in Titles : s # t => items'[s] = items[s] /\ owed'[s] = owed[s]
  <2>1. owed' = IF k.op = "set" /\ k.n = 0 /\ k.gone THEN owed
                ELSE [owed EXCEPT ![t] = IF k.op = "add" THEN owed[t] + 1 ELSE k.n]
    BY <1>2 DEF AskedFor
  <2> HIDE DEF q, k, t
  <2> QED BY <1>1, <1>2, <2>1
<1>7. /\ k.op = "add" => items'[t] = q /\ q = k.base + 1 /\ owed'[t] = owed[t] + 1
      /\ k.op = "set" =>
           \/ k.n = 0 /\ items'[t] = items[t] /\ owed'[t] = owed[t]
           \/ owed'[t] = k.n /\ items'[t] = k.n
           \/ owed'[t] = k.n /\ items'[t] = items[t] /\ k.n = k.base /\ k.n > 0
  BY <1>6 DEF NothingToWrite, WrittenQuantity
<1>20. orders' \subseteq [books : SUBSET Titles, since : [Titles -> Nat]]
  <2> SUFFICES ASSUME NEW o \in orders, NEW f, f = AskedFor(o.since, k)
               PROVE  [o EXCEPT !.since = f] \in [books : SUBSET Titles, since : [Titles -> Nat]]
    BY <1>2
  <2>1. o \in [books : SUBSET Titles, since : [Titles -> Nat]]
    BY ShelfTypes DEF ShelfInv
  <2>2. f = o.since \/ f = [o.since EXCEPT ![t] = o.since[t] + 1] \/ f = [o.since EXCEPT ![t] = k.n]
    BY DEF AskedFor
  <2>3. k.n \in Nat BY <1>1
  <2> HIDE DEF k, t
  <2>4. f \in [Titles -> Nat] BY <1>1, <2>1, <2>2, <2>3
  <2> QED BY <2>1, <2>4
<1>8. CartAddsUp'
  <2>1. ASSUME t \notin mixed' \cup swept' PROVE items'[t] = owed'[t]
    <3>1. ~k.late /\ t \notin mixed \cup swept BY <1>1, <1>2, <2>1
    <3>2. k.base = items[t] /\ items[t] = owed[t]
      BY <1>1, <3>1 DEF ShelfInv, ItemKnown, RowKnown, CartAddsUp
    <3> QED BY <1>2, <1>7, <3>2
  <2>2. ASSUME items'[t] > 0 PROVE owed'[t] > 0
    <3>1. CASE k.op = "add" BY <1>4, <1>7, <3>1
    <3>2. CASE k.op = "set" BY <1>1, <1>7, <2>2, <3>2 DEF ShelfInv, CartAddsUp
    <3> QED BY <1>2, <3>1, <3>2
  <2>3. ASSUME NEW s \in Titles, s # t
        PROVE  /\ s \notin mixed' \cup swept' => items'[s] = owed'[s]
               /\ items'[s] > 0 => owed'[s] > 0
    BY <1>2, <1>6, <2>3 DEF ShelfInv, CartAddsUp
  <2> QED BY <2>1, <2>2, <2>3 DEF CartAddsUp
\* The requests.
<1>9. \A d \in Clicks : d # c =>
          /\ click'[d] \in ClickSet
          /\ click'[d].pc = click[d].pc /\ click'[d].title = click[d].title
          /\ click'[d].tab = click[d].tab /\ click'[d].op = click[d].op
          /\ RowKnown(click[d])'
  <2> TAKE d \in Clicks
  <2> SUFFICES ASSUME d # c
               PROVE  /\ click'[d] \in ClickSet
                      /\ click'[d].pc = click[d].pc /\ click'[d].title = click[d].title
                      /\ click'[d].tab = click[d].tab /\ click'[d].op = click[d].op
                      /\ RowKnown(click[d])'
    OBVIOUS
  <2>1. click'[d] = Overtaken(click[d], {t}) BY <1>2
  <2>2. /\ click[d] \in ClickSet /\ RowKnown(click[d])
        /\ click[d].pc # "idle" => click[d].title \in Titles
    BY <1>1, ShelfTypes DEF ShelfInv, ItemKnown, ClickSet
  <2>3. (\A x \in Titles : items'[x] # items[x] => x \in {t}) /\ (hasCart => hasCart')
    BY <1>2, <1>6
  <2> HIDE DEF t, k
  <2> QED BY <2>1, <2>2, <2>3, OvertakenKnows DEF RowKnown
<1>10. /\ click'[c] \in ClickSet /\ click'[c].pc = "ok" /\ click'[c].title = t
       /\ click'[c].op = k.op /\ click'[c].tab = k.tab
  <2>1. click'[c] = [k EXCEPT !.pc = "ok"] BY <1>2
  <2> HIDE DEF k
  <2> QED BY <1>1, <2>1 DEF ClickSet, t
<1>11. click' \in [Clicks -> ClickSet] BY <1>2, <1>9, <1>10
<1>12. ItemKnown'
  <2>1. RowKnown(click[c])' BY <1>10 DEF RowKnown
  <2> QED BY <1>9, <2>1 DEF ItemKnown, RowKnown
\* The pages.
<1>13. InCart' \subseteq Titles BY DEF InCart
<1>14. OnShelf' \subseteq Marks BY <1>1, <1>2, <1>13 DEF OnShelf, Marks, Lists
<1>15. /\ tab' \in [Tabs -> TabSet] /\ MarksFollowTheShelf' /\ PutEarly'
       /\ \A b \in Tabs : OnShelf' \subseteq tab'[b].knew /\ tab[b].knew \subseteq tab'[b].knew
  BY <1>2, <1>14, PagesSee
<1>16. PageKnows'
  <2> SUFFICES ASSUME NEW d \in Clicks, NEW b \in Tabs, click'[d].tab = b, click'[d].tab # Closed,
                      click'[d].pc \in {"ok", "exists"}, click'[d].op \in {"add", "wish"}
               PROVE  <<ListOf(click'[d]), click'[d].title>> \in tab'[b].knew
    BY <1>15 DEF PageKnows, ListOf
  <2>1. CASE d = c
    <3>1. k.op = "add" BY <1>2, <1>10, <2>1
    <3>2. items'[t] > 0 BY <1>3, <1>7, <3>1
    <3>3. <<"cart", t>> \in OnShelf' BY <1>1, <3>2 DEF OnShelf, InCart
    <3>4. ListOf(click'[d]) = "cart" BY <1>10, <2>1, <3>1 DEF ListOf
    <3> QED BY <1>10, <1>15, <2>1, <3>3, <3>4
  <2>2. CASE d # c
    <3>1. <<ListOf(click[d]), click[d].title>> \in tab[b].knew
      BY <1>9, <2>2 DEF ShelfInv, PageKnows
    <3>2. ListOf(click'[d]) = ListOf(click[d]) BY <1>9, <2>2 DEF ListOf
    <3> QED BY <1>9, <1>15, <2>2, <3>1, <3>2
  <2> QED BY <2>1, <2>2
<1>17. ShelfTypeOK' /\ ClicksOK'
  <2>1. \A d \in Clicks : click'[d].pc = "idle" <=> click'[d].title = NoTitle
    BY <1>1, <1>9, <1>10, ShelfNames DEF ShelfInv, ShelfTypeOK
  <2>2. \A d \in Clicks : /\ click'[d].pc \in {"idle", "read", "write", "ok", "exists"}
                          /\ click'[d].tab \in Tabs \cup {Closed}
                          /\ click'[d].op \in Ops /\ click'[d].base \in 0..MaxQuantity
    BY <1>11 DEF ClickSet
  <2>3. UNCHANGED <<stock, wished, swept, deeds>> BY <1>2
  <2>4. hasCart' \in BOOLEAN /\ (InCart' # {} => hasCart')
    <3>1. hasCart \in BOOLEAN /\ (InCart # {} => hasCart) BY DEF ShelfInv, ShelfTypeOK
    <3>2. InCart \subseteq Titles /\ (InCart' # InCart => items' # items) BY DEF InCart
    <3>3. CASE k.op = "add" BY <1>2, <3>3
    <3>4. CASE k.op = "set" /\ items' = items BY <1>2, <3>1, <3>2, <3>4
    <3>5. CASE k.op = "set" /\ items' # items
      <4>1. CASE k.n = 0
        <5>1. \A x \in Titles : items'[x] > 0 => items[x] > 0
          BY <1>1, <1>6, <3>5, <4>1 DEF WrittenQuantity
        <5> QED BY <1>2, <3>1, <5>1 DEF InCart
      <4>2. CASE k.n # 0
        <5>1. k.n # k.base BY <1>1, <1>2, <3>5, <4>2 DEF NothingToWrite
        <5>2. ~k.gone BY <1>2, <3>5, <4>2, <5>1 DEF WriteClashes
        <5>3. hasCart BY <1>1, <3>5, <5>2 DEF ShelfInv, ItemKnown, RowKnown
        <5> QED BY <1>2, <5>3
      <4> QED BY <4>1, <4>2
    <3> QED BY <1>2, <3>3, <3>4, <3>5
  <2> HIDE DEF t, k, q
  <2> QED BY <1>1, <1>5, <1>11, <1>15, <1>20, <2>1, <2>2, <2>3, <2>4, ShelfTypes DEF ShelfInv, ShelfTypeOK, ClicksOK, TabSet
<1> QED BY <1>8, <1>12, <1>15, <1>16, <1>17 DEF ShelfInv

\* The wishlist is written.
LEMMA WishWritten ==
    ASSUME ShelfInv, NEW c \in Clicks, NEW op \in {"wish", "unwish"}, NEW after \in SUBSET Titles,
           op = "wish" => click[c].title \in after, Wish(c, op, after)
    PROVE  ShelfInv'
<1> DEFINE k == click[c]
           m == [k EXCEPT !.pc = "ok"]
<1>1. /\ click \in [Clicks -> ClickSet] /\ k \in ClickSet /\ k.pc = "write" /\ k.op = op
      /\ click' = [click EXCEPT ![c] = m] /\ wished' = after /\ Noticed
      /\ UNCHANGED <<cartVars, stock, deeds>>
  BY ShelfTypes DEF Wish, ShelfInv
<1>2. m \in ClickSet /\ m.pc = "ok" /\ m.title = k.title /\ m.op = op
  BY <1>1 DEF ClickSet
<1> HIDE DEF k, m
<1>3. click'[c] = m /\ \A d \in Clicks : d # c => click'[d] = click[d] BY <1>1
<1>4. click' \in [Clicks -> ClickSet] BY <1>1, <1>2
<1>5. InCart' = InCart /\ InCart \subseteq Titles BY <1>1 DEF InCart, cartVars
<1>6. OnShelf' \subseteq Marks BY <1>1, <1>5 DEF OnShelf, Marks, Lists
<1>7. /\ tab' \in [Tabs -> TabSet] /\ MarksFollowTheShelf' /\ PutEarly'
      /\ \A b \in Tabs : OnShelf' \subseteq tab'[b].knew /\ tab[b].knew \subseteq tab'[b].knew
  BY <1>1, <1>6, PagesSee
<1>8. PageKnows'
  <2> SUFFICES ASSUME NEW d \in Clicks, NEW b \in Tabs, click'[d].tab = b, click'[d].tab # Closed,
                      click'[d].pc \in {"ok", "exists"}, click'[d].op \in {"add", "wish"}
               PROVE  <<ListOf(click'[d]), click'[d].title>> \in tab'[b].knew
    BY <1>7 DEF PageKnows, ListOf
  <2>1. CASE d = c
    <3>1. op = "wish" /\ ListOf(m) = "wish" /\ m.title \in wished'
      BY <1>1, <1>2, <1>3, <2>1 DEF ListOf, k
    <3>2. <<"wish", m.title>> \in OnShelf' BY <3>1 DEF OnShelf
    <3> QED BY <1>3, <1>7, <2>1, <3>1, <3>2
  <2>2. CASE d # c
    <3>1. <<ListOf(click[d]), click[d].title>> \in tab[b].knew
      BY <1>3, <2>2 DEF ShelfInv, PageKnows
    <3> QED BY <1>3, <1>7, <2>2, <3>1
  <2> QED BY <2>1, <2>2
<1>9. ItemKnown' BY <1>1, <1>2, <1>3 DEF ShelfInv, ItemKnown, RowKnown, cartVars
<1>10. CartAddsUp' BY <1>1 DEF ShelfInv, CartAddsUp, cartVars
<1>11. ShelfTypeOK' /\ ClicksOK'
  <2>1. \A d \in Clicks : click'[d].pc = "idle" <=> click'[d].title = NoTitle
    BY <1>1, <1>2, <1>3 DEF ShelfInv, ShelfTypeOK, k
  <2>2. \A d \in Clicks : /\ click'[d].pc \in {"idle", "read", "write", "ok", "exists"}
                          /\ click'[d].tab \in Tabs \cup {Closed}
                          /\ click'[d].op \in Ops /\ click'[d].base \in 0..MaxQuantity
    BY <1>4 DEF ClickSet
  <2> QED BY <1>1, <1>4, <1>5, <1>7, <2>1, <2>2 DEF ShelfInv, ShelfTypeOK, ClicksOK, TabSet, cartVars
<1> QED BY <1>7, <1>8, <1>9, <1>10, <1>11 DEF ShelfInv

\* A page changes; what it knew stays known, unless nobody is to tell it anything.
LEMMA PageMoves ==
    ASSUME ShelfInv, NEW b \in Tabs, NEW p \in TabSet, tab' = [tab EXCEPT ![b] = p],
           UNCHANGED <<cartVars, wished, stock>>, deeds' \in 0..MaxDeeds,
           click' \in [Clicks -> ClickSet],
           \A d \in Clicks :
               \/ click'[d] = NoClick
               \/ /\ click'[d].pc = click[d].pc /\ click'[d].title = click[d].title
                  /\ click'[d].op = click[d].op /\ click'[d].base = click[d].base
                  /\ click'[d].late = click[d].late /\ click'[d].gone = click[d].gone
                  /\ click'[d].cart = click[d].cart
                  /\ click'[d].tab \in {click[d].tab, Closed},
           p.marks \subseteq p.knew, p.put \ p.early \subseteq p.marks,
           OnShelf \subseteq p.knew, p.got \subseteq p.knew, p.loading => p.put \subseteq p.early,
           tab[b].knew \subseteq p.knew \/ b = Closed \/ \A d \in Clicks : click'[d].tab # b
    PROVE  ShelfInv'
<1>1. tab \in [Tabs -> TabSet] BY ShelfTypes DEF ShelfInv
<1>2. tab'[b] = p /\ \A a \in Tabs : a # b => tab'[a] = tab[a] BY <1>1
<1>3. tab' \in [Tabs -> TabSet] BY <1>1
<1>4. InCart' = InCart /\ OnShelf' = OnShelf BY DEF InCart, OnShelf, cartVars
<1>5. NoClick.pc = "idle" /\ NoClick.title = NoTitle BY ShelfNames
<1>6. ShelfTypeOK' /\ ClicksOK'
  <2>1. \A d \in Clicks : click'[d].pc = "idle" <=> click'[d].title = NoTitle
    BY <1>5 DEF ShelfInv, ShelfTypeOK
  <2>2. \A d \in Clicks : /\ click'[d].pc \in {"idle", "read", "write", "ok", "exists"}
                          /\ click'[d].tab \in Tabs \cup {Closed}
                          /\ click'[d].op \in Ops /\ click'[d].base \in 0..MaxQuantity
    BY DEF ClickSet
  <2> QED BY <1>3, <1>4, <2>1, <2>2 DEF ShelfInv, ShelfTypeOK, ClicksOK, TabSet, cartVars
<1>7. CartAddsUp' BY DEF ShelfInv, CartAddsUp, cartVars
<1>8. ItemKnown'
  <2> SUFFICES ASSUME NEW d \in Clicks PROVE RowKnown(click[d])' BY DEF ItemKnown
  <2>1. CASE click'[d] = NoClick BY <1>5, <2>1 DEF RowKnown
  <2>2. CASE click'[d] # NoClick BY <2>2 DEF ShelfInv, ItemKnown, RowKnown, cartVars
  <2> QED BY <2>1, <2>2
<1>9. PageKnows'
  <2>1. \A a \in Tabs : OnShelf' \subseteq tab'[a].knew BY <1>2, <1>4 DEF ShelfInv, PageKnows
  <2>2. ASSUME NEW d \in Clicks, NEW a \in Tabs, click'[d].tab = a, click'[d].tab # Closed,
               click'[d].pc \in {"ok", "exists"}, click'[d].op \in {"add", "wish"}
        PROVE  <<ListOf(click'[d]), click'[d].title>> \in tab'[a].knew
    <3>1. click'[d] # NoClick BY <1>5, <2>2
    <3>2. /\ click'[d].pc = click[d].pc /\ click'[d].title = click[d].title
          /\ click'[d].op = click[d].op /\ click'[d].tab = click[d].tab
      BY <2>2, <3>1
    <3>3. <<ListOf(click[d]), click[d].title>> \in tab[a].knew
      BY <2>2, <3>2 DEF ShelfInv, PageKnows
    <3>4. ListOf(click'[d]) = ListOf(click[d]) BY <3>2 DEF ListOf
    <3>5. a # b \/ tab[b].knew \subseteq p.knew BY <2>2
    <3> QED BY <1>2, <3>2, <3>3, <3>4, <3>5
  <2> QED BY <2>1, <2>2 DEF PageKnows, ListOf
<1>10. MarksFollowTheShelf' BY <1>2 DEF ShelfInv, MarksFollowTheShelf
<1>11. PutEarly' BY <1>2 DEF ShelfInv, PutEarly
<1> QED BY <1>6, <1>7, <1>8, <1>9, <1>10, <1>11 DEF ShelfInv

\* An answer marks what the page has been told of.
LEMMA Replied ==
    ASSUME ShelfInv, NEW c \in Clicks, Reply(c)
    PROVE  ShelfInv'
<1> DEFINE k == click[c]
           b == k.tab
           new == IF k.op \in {"add", "wish"} THEN {<<ListOf(k), k.title>>} ELSE {}
<1>1. /\ click \in [Clicks -> ClickSet] /\ k \in ClickSet /\ k.pc \in {"ok", "exists"}
      /\ deeds \in 0..MaxDeeds /\ k.title \in Titles /\ tab \in [Tabs -> TabSet]
      /\ UNCHANGED <<cartVars, wished, stock, deeds>>
  BY ShelfTypes DEF Reply, ShelfInv, ClickSet
<1>2. tab' = IF b = Closed THEN tab
             ELSE [tab EXCEPT ![b].marks = @ \cup new, ![b].put = @ \cup new,
                              ![b].early = IF tab[b].loading THEN @ \cup new ELSE @]
  BY DEF Reply
<1>3. Drop(c) BY DEF Reply
<1>4. CASE b = Closed
  <2>1. tab' = tab BY <1>2, <1>4
  <2> QED BY <1>1, <1>3, <2>1, Dropped
<1>5. CASE b # Closed
  <2> DEFINE q == tab[b]
             p == [q EXCEPT !.marks = @ \cup new, !.put = @ \cup new,
                            !.early = IF q.loading THEN @ \cup new ELSE @]
  <2>1. b \in Tabs BY <1>1, <1>5 DEF ClickSet
  <2>2. q \in TabSet BY <1>1, <2>1
  <2>3. new \subseteq Marks BY <1>1 DEF Marks, Lists, ListOf
  <2>4. new \subseteq q.knew BY <1>1, <1>5, <2>1 DEF ShelfInv, PageKnows
  <2>5. tab' = [tab EXCEPT ![b] = p] BY <1>1, <1>2, <1>5, <2>1
  <2>6. /\ q.marks \subseteq q.knew /\ q.put \ q.early \subseteq q.marks
        /\ OnShelf \subseteq q.knew /\ q.got \subseteq q.knew
        /\ q.loading => q.put \subseteq q.early
    BY <2>1 DEF ShelfInv, MarksFollowTheShelf, PageKnows, PutEarly
  <2>7. /\ click' \in [Clicks -> ClickSet]
        /\ click'[c] = NoClick /\ \A d \in Clicks : d # c => click'[d] = click[d]
    BY <1>1, <1>3, ShelfNames DEF Drop
  <2> HIDE DEF k, b, new, q
  <2>8. /\ p \in TabSet /\ p.marks = q.marks \cup new /\ p.put = q.put \cup new
        /\ p.early = (IF q.loading THEN q.early \cup new ELSE q.early)
        /\ p.knew = q.knew /\ p.got = q.got /\ p.loading = q.loading
    BY <2>2, <2>3 DEF TabSet
  <2> HIDE DEF p
  <2>9. /\ p.marks \subseteq p.knew /\ p.put \ p.early \subseteq p.marks
        /\ p.loading => p.put \subseteq p.early
    BY <2>4, <2>6, <2>8
  <2>10. tab[b].knew = p.knew BY <2>8 DEF q
  <2> QED BY <1>1, <2>1, <2>5, <2>6, <2>7, <2>8, <2>9, <2>10, PageMoves
<1> QED BY <1>4, <1>5

\* A page is loaded: it knows the shelf, and nobody of before will tell it.
LEMMA PageLoaded ==
    ASSUME ShelfInv, NEW b \in Tabs, LoadPage(b)
    PROVE  ShelfInv'
<1> DEFINE p == [FreshTab EXCEPT !.loading = TRUE, !.unread = Lists, !.knew = OnShelf]
<1>1. /\ click \in [Clicks -> ClickSet] /\ items \in [Titles -> 0..MaxQuantity]
      /\ wished \subseteq Titles /\ deeds \in 0..MaxDeeds
  BY ShelfTypes DEF ShelfInv
<1>2. /\ tab' = [tab EXCEPT ![b] = p]
      /\ click' = [c \in Clicks |-> IF click[c].tab = b THEN [click[c] EXCEPT !.tab = Closed] ELSE click[c]]
      /\ UNCHANGED <<cartVars, wished, stock>>
  BY DEF LoadPage
<1>3. deeds' \in 0..MaxDeeds BY <1>1, ShelfNames DEF LoadPage, Deed
<1>4. OnShelf \subseteq Marks
  <2>1. InCart \subseteq Titles BY DEF InCart
  <2> QED BY <1>1, <2>1, ShelfIsMarked
<1>5. /\ p \in TabSet /\ p.marks = {} /\ p.put = {} /\ p.got = {} /\ p.knew = OnShelf
  BY <1>4 DEF FreshTab, TabSet
<1> HIDE DEF p
<1>6. ASSUME NEW d \in Clicks
      PROVE  /\ click'[d] \in ClickSet
             /\ click'[d].pc = click[d].pc /\ click'[d].title = click[d].title
             /\ click'[d].op = click[d].op /\ click'[d].base = click[d].base
             /\ click'[d].late = click[d].late /\ click'[d].gone = click[d].gone
             /\ click'[d].cart = click[d].cart
             /\ click'[d].tab \in {click[d].tab, Closed}
             /\ click'[d].tab # b \/ b = Closed
  <2> DEFINE m == click[d]
  <2>1. m \in ClickSet BY <1>1
  <2>2. click'[d] = IF m.tab = b THEN [m EXCEPT !.tab = Closed] ELSE m BY <1>2
  <2> HIDE DEF m
  <2>3. /\ [m EXCEPT !.tab = Closed] \in ClickSet /\ [m EXCEPT !.tab = Closed].pc = m.pc
        /\ [m EXCEPT !.tab = Closed].title = m.title /\ [m EXCEPT !.tab = Closed].op = m.op
        /\ [m EXCEPT !.tab = Closed].base = m.base /\ [m EXCEPT !.tab = Closed].late = m.late
        /\ [m EXCEPT !.tab = Closed].tab = Closed /\ [m EXCEPT !.tab = Closed].gone = m.gone
        /\ [m EXCEPT !.tab = Closed].cart = m.cart
    BY <2>1 DEF ClickSet
  <2>4. CASE m.tab = b BY <2>2, <2>3, <2>4 DEF m
  <2>5. CASE m.tab # b BY <2>1, <2>2, <2>5 DEF m
  <2> QED BY <2>4, <2>5
<1>7. click' \in [Clicks -> ClickSet] BY <1>2, <1>6
<1> QED BY <1>2, <1>3, <1>5, <1>6, <1>7, PageMoves

\* A list is read, the lists are shown.
LEMMA ListRead ==
    ASSUME ShelfInv, NEW b \in Tabs, NEW l \in Lists, ReadList(b, l)
    PROVE  ShelfInv'
<1>1. PICK got \in {{}, {m \in OnShelf : m[1] = l}} :
        tab' = [tab EXCEPT ![b].unread = @ \ {l}, ![b].got = @ \cup got]
  BY DEF ReadList
<1> DEFINE q == tab[b]
           p == [q EXCEPT !.unread = @ \ {l}, !.got = @ \cup got]
<1>2. /\ q \in TabSet /\ tab \in [Tabs -> TabSet] /\ click \in [Clicks -> ClickSet]
      /\ deeds \in 0..MaxDeeds
      /\ UNCHANGED <<cartVars, wished, stock, click, deeds>>
  BY ShelfTypes DEF ShelfInv, ReadList
<1>3. /\ q.marks \subseteq q.knew /\ q.put \ q.early \subseteq q.marks
      /\ OnShelf \subseteq q.knew /\ q.got \subseteq q.knew
      /\ q.loading => q.put \subseteq q.early
  BY DEF ShelfInv, MarksFollowTheShelf, PageKnows, PutEarly
<1>4. got \subseteq OnShelf OBVIOUS
<1>5. got \subseteq Marks BY <1>2, <1>3, <1>4 DEF TabSet
<1>6. tab' = [tab EXCEPT ![b] = p] BY <1>1, <1>2
<1> HIDE DEF q
<1>7. /\ p \in TabSet /\ p.marks = q.marks /\ p.put = q.put /\ p.early = q.early
      /\ p.knew = q.knew /\ p.got = q.got \cup got /\ p.loading = q.loading
  BY <1>2, <1>5 DEF TabSet
<1> HIDE DEF p
<1>8. tab[b].knew \subseteq p.knew BY <1>7 DEF q
<1>9. p.got \subseteq p.knew BY <1>3, <1>4, <1>7
<1> QED BY <1>2, <1>3, <1>6, <1>7, <1>8, <1>9, PageMoves

LEMMA ListsShown ==
    ASSUME ShelfInv, NEW b \in Tabs, ShowLists(b)
    PROVE  ShelfInv'
<1> DEFINE q == tab[b]
           p == [q EXCEPT !.loading = FALSE, !.marks = q.got, !.got = {}]
<1>1. /\ q \in TabSet /\ tab \in [Tabs -> TabSet] /\ click \in [Clicks -> ClickSet]
      /\ deeds \in 0..MaxDeeds /\ q.loading
      /\ UNCHANGED <<cartVars, wished, stock, click, deeds>>
  BY ShelfTypes DEF ShelfInv, ShowLists
<1>2. /\ OnShelf \subseteq q.knew /\ q.got \subseteq q.knew /\ q.put \subseteq q.early
  BY <1>1 DEF ShelfInv, PageKnows, PutEarly
<1>3. tab' = [tab EXCEPT ![b] = p] BY <1>1 DEF ShowLists
<1> HIDE DEF q
<1>4. /\ p \in TabSet /\ p.marks = q.got /\ p.put = q.put /\ p.early = q.early
      /\ p.knew = q.knew /\ p.got = {} /\ ~p.loading
  BY <1>1 DEF TabSet
<1> HIDE DEF p
<1>5. tab[b].knew \subseteq p.knew BY <1>4 DEF q
<1> QED BY <1>1, <1>2, <1>3, <1>4, <1>5, PageMoves

\* The shelf is changed by somebody else; who was about to write an item in B is late.
LEMMA ShelfChanges ==
    ASSUME ShelfInv, NEW B,
           items' \in [Titles -> 0..MaxQuantity], stock' \in [Titles -> 0..MaxQuantity],
           hasCart' \in BOOLEAN, InCart' # {} => hasCart', wished' \subseteq Titles,
           owed' \in [Titles -> 0..MaxQuantity], mixed' \subseteq Titles, swept' \subseteq Titles,
           orders' \subseteq [books : SUBSET Titles, since : [Titles -> Nat]],
           deeds' \in 0..MaxDeeds,
           click' = [c \in Clicks |-> Overtaken(click[c], B)],
           \A t \in Titles : items'[t] # items[t] => t \in B,
           (hasCart => hasCart') \/ Titles \subseteq B,
           CartAddsUp', Noticed \/ (tab' = tab /\ OnShelf' \subseteq OnShelf)
    PROVE  ShelfInv'
<1>1. ASSUME NEW d \in Clicks
      PROVE  /\ click'[d] \in ClickSet /\ RowKnown(click[d])'
             /\ click'[d].pc = click[d].pc /\ click'[d].title = click[d].title
             /\ click'[d].tab = click[d].tab /\ click'[d].op = click[d].op
  <2>1. click'[d] = Overtaken(click[d], B) OBVIOUS
  <2>2. /\ click[d] \in ClickSet /\ RowKnown(click[d])
        /\ click[d].pc # "idle" => click[d].title \in Titles
    BY ShelfTypes DEF ShelfInv, ItemKnown, ClickSet
  <2> QED BY <2>1, <2>2, OvertakenKnows DEF RowKnown
<1>2. click' \in [Clicks -> ClickSet] BY <1>1
<1>3. ItemKnown' BY <1>1 DEF ItemKnown, RowKnown
<1>4. InCart' \subseteq Titles BY DEF InCart
<1>5. OnShelf' \subseteq Marks BY <1>4 DEF OnShelf, Marks, Lists
<1>6. /\ tab' \in [Tabs -> TabSet] /\ MarksFollowTheShelf' /\ PutEarly'
      /\ \A b \in Tabs : OnShelf' \subseteq tab'[b].knew /\ tab[b].knew \subseteq tab'[b].knew
  <2>1. CASE Noticed BY <1>5, <2>1, PagesSee
  <2>2. CASE tab' = tab /\ OnShelf' \subseteq OnShelf
    BY <2>2, ShelfTypes DEF ShelfInv, MarksFollowTheShelf, PutEarly, PageKnows
  <2> QED BY <2>1, <2>2
<1>7. PageKnows'
  <2> SUFFICES ASSUME NEW d \in Clicks, NEW b \in Tabs, click'[d].tab = b, click'[d].tab # Closed,
                      click'[d].pc \in {"ok", "exists"}, click'[d].op \in {"add", "wish"}
               PROVE  <<ListOf(click'[d]), click'[d].title>> \in tab'[b].knew
    BY <1>6 DEF PageKnows, ListOf
  <2>1. <<ListOf(click[d]), click[d].title>> \in tab[b].knew BY <1>1 DEF ShelfInv, PageKnows
  <2>2. ListOf(click'[d]) = ListOf(click[d]) BY <1>1 DEF ListOf
  <2> QED BY <1>1, <1>6, <2>1, <2>2
<1>8. ShelfTypeOK' /\ ClicksOK'
  <2>1. \A d \in Clicks : click'[d].pc = "idle" <=> click'[d].title = NoTitle
    BY <1>1 DEF ShelfInv, ShelfTypeOK
  <2>2. \A d \in Clicks : /\ click'[d].pc \in {"idle", "read", "write", "ok", "exists"}
                          /\ click'[d].tab \in Tabs \cup {Closed}
                          /\ click'[d].op \in Ops /\ click'[d].base \in 0..MaxQuantity
    BY <1>2 DEF ClickSet
  <2> QED BY <1>2, <1>6, <2>1, <2>2 DEF ShelfTypeOK, ClicksOK, TabSet
<1> QED BY <1>3, <1>6, <1>7, <1>8 DEF ShelfInv

\* The cart and the requests stay.
LEMMA CartStays ==
    ASSUME ShelfInv, UNCHANGED <<hasCart, items, owed, mixed, swept, click>>,
           stock' \in [Titles -> 0..MaxQuantity], wished' \subseteq Titles,
           orders' \subseteq [books : SUBSET Titles, since : [Titles -> Nat]],
           deeds' \in 0..MaxDeeds, Noticed \/ (tab' = tab /\ wished' = wished)
    PROVE  ShelfInv'
<1>1. click' = [c \in Clicks |-> Overtaken(click[c], {})]
  BY ShelfTypes DEF ShelfInv, Overtaken
<1>2. InCart' = InCart /\ (wished' = wished => OnShelf' = OnShelf) BY DEF InCart, OnShelf
<1>3. CartAddsUp' BY DEF ShelfInv, CartAddsUp
<1>4. /\ items' \in [Titles -> 0..MaxQuantity] /\ hasCart' \in BOOLEAN /\ (InCart' # {} => hasCart')
      /\ owed' \in [Titles -> 0..MaxQuantity] /\ mixed' \subseteq Titles /\ swept' \subseteq Titles
  BY <1>2, ShelfTypes DEF ShelfInv
<1>5. (\A t \in Titles : items'[t] # items[t] => t \in {}) /\ (hasCart => hasCart') OBVIOUS
<1>6. Noticed \/ (tab' = tab /\ OnShelf' \subseteq OnShelf) BY <1>2
<1> QED BY <1>1, <1>3, <1>4, <1>5, <1>6, ShelfChanges

\* The books of an order leave the cart.
LEMMA OrderConfirmed ==
    ASSUME ShelfInv, NEW o \in orders, Confirm(o)
    PROVE  ShelfInv'
<1>1. /\ items \in [Titles -> 0..MaxQuantity] /\ owed \in [Titles -> 0..MaxQuantity]
      /\ hasCart \in BOOLEAN /\ (InCart # {} => hasCart)
      /\ orders \subseteq [books : SUBSET Titles, since : [Titles -> Nat]]
      /\ o.books \subseteq Titles /\ o.since \in [Titles -> Nat]
      /\ stock \in [Titles -> 0..MaxQuantity] /\ wished \subseteq Titles
      /\ mixed \subseteq Titles /\ swept \subseteq Titles /\ deeds \in 0..MaxDeeds
      /\ MaxQuantity \in Nat
  BY ShelfTypes, ShelfNames DEF ShelfInv
<1>2. /\ orders' \subseteq orders
      /\ items' = [t \in Titles |-> IF t \in o.books THEN 0 ELSE items[t]]
      /\ owed' = [t \in Titles |-> IF t \in o.books /\ o.since[t] < owed[t] THEN o.since[t] ELSE owed[t]]
      /\ swept' = swept \cup {t \in o.books : owed'[t] > 0}
      /\ click' = [c \in Clicks |-> Overtaken(click[c], o.books \cap InCart)]
      /\ UNCHANGED <<hasCart, mixed, wished, stock, tab>>
  BY DEF Confirm
<1>3. deeds' \in 0..MaxDeeds BY <1>1, ShelfNames DEF Confirm, Deed
<1>4. items' \in [Titles -> 0..MaxQuantity] /\ owed' \in [Titles -> 0..MaxQuantity]
  BY <1>1, <1>2
<1>5. InCart' \subseteq InCart /\ OnShelf' \subseteq OnShelf
  <2>1. InCart' \subseteq InCart BY <1>1, <1>2 DEF InCart
  <2> QED BY <1>2, <2>1 DEF OnShelf
<1>6. \A t \in Titles : items'[t] # items[t] => t \in o.books \cap InCart
  BY <1>1, <1>2 DEF InCart
<1>7. CartAddsUp'
  <2> SUFFICES ASSUME NEW t \in Titles
               PROVE  /\ t \notin mixed' \cup swept' => items'[t] = owed'[t]
                      /\ items'[t] > 0 => owed'[t] > 0
    BY DEF CartAddsUp
  <2>1. CASE t \in o.books
    <3>1. items'[t] = 0 /\ owed'[t] \in Nat /\ (t \notin swept' => ~(owed'[t] > 0))
      BY <1>1, <1>2, <1>4, <2>1
    <3> QED BY <3>1
  <2>2. CASE t \notin o.books BY <1>2, <2>2 DEF ShelfInv, CartAddsUp
  <2> QED BY <2>1, <2>2
<1>8. swept' \subseteq Titles BY <1>1, <1>2
<1> QED BY <1>1, <1>2, <1>3, <1>4, <1>5, <1>6, <1>7, <1>8, ShelfChanges

\* What an admin leaves in the cart is what is owed.
LEMMA CartEdited ==
    ASSUME ShelfInv, EditCart
    PROVE  ShelfInv'
<1> DEFINE changed == {t \in Titles : items'[t] # items[t]}
           Corrected(f) == [t \in Titles |-> IF t \in changed THEN items'[t] ELSE f[t]]
           B == IF hasCart' THEN changed ELSE Titles
<1>1. /\ items \in [Titles -> 0..MaxQuantity] /\ owed \in [Titles -> 0..MaxQuantity]
      /\ orders \subseteq [books : SUBSET Titles, since : [Titles -> Nat]]
      /\ stock \in [Titles -> 0..MaxQuantity] /\ wished \subseteq Titles
      /\ mixed \subseteq Titles /\ swept \subseteq Titles /\ deeds \in 0..MaxDeeds
      /\ MaxQuantity \in Nat
  BY ShelfTypes, ShelfNames DEF ShelfInv
<1>2. /\ \/ /\ \E t \in Titles, n \in 0..MaxQuantity : n # items[t] /\ items' = [items EXCEPT ![t] = n]
            /\ hasCart' = TRUE
         \/ items' = [t \in Titles |-> 0] /\ hasCart' = FALSE
      /\ owed' = Corrected(owed)
      /\ orders' = {[o EXCEPT !.since = Corrected(@)] : o \in orders}
      /\ click' = [c \in Clicks |-> Overtaken(click[c], B)]
      /\ UNCHANGED <<mixed, swept, wished, stock>> /\ Noticed
  BY DEF EditCart
<1>3. deeds' \in 0..MaxDeeds BY <1>1, ShelfNames DEF EditCart, Deed
<1>4. items' \in [Titles -> 0..MaxQuantity] BY <1>1, <1>2
<1>5. hasCart' \in BOOLEAN /\ (InCart' # {} => hasCart')
  <2>1. CASE hasCart' = TRUE BY <2>1
  <2>2. CASE items' = [t \in Titles |-> 0] /\ hasCart' = FALSE
    <3>1. \A t \in Titles : ~(items'[t] > 0) BY <2>2
    <3>2. InCart' = {} BY <3>1 DEF InCart
    <3> QED BY <2>2, <3>2
  <2> QED BY <1>2, <2>1, <2>2
<1>6. owed' \in [Titles -> 0..MaxQuantity] BY <1>1, <1>2, <1>4
<1>7. orders' \subseteq [books : SUBSET Titles, since : [Titles -> Nat]]
  <2> SUFFICES ASSUME NEW o \in orders
               PROVE  [o EXCEPT !.since = Corrected(@)] \in [books : SUBSET Titles, since : [Titles -> Nat]]
    BY <1>2
  <2>1. o \in [books : SUBSET Titles, since : [Titles -> Nat]] BY <1>1
  <2>2. Corrected(o.since) \in [Titles -> Nat] BY <1>1, <1>4, <2>1
  <2> HIDE DEF Corrected
  <2> QED BY <2>1, <2>2
<1>8. CartAddsUp' BY <1>2, <1>4 DEF ShelfInv, CartAddsUp
<1>9. (\A t \in Titles : items'[t] # items[t] => t \in B) /\ ((hasCart => hasCart') \/ Titles \subseteq B)
  BY <1>5
<1>10. /\ click' = [c \in Clicks |-> Overtaken(click[c], B)] /\ Noticed
       /\ mixed' \subseteq Titles /\ swept' \subseteq Titles /\ wished' \subseteq Titles
       /\ stock' \in [Titles -> 0..MaxQuantity]
  BY <1>1, <1>2
<1> HIDE DEF B, Corrected, changed
<1>11. PICK D : D = B OBVIOUS
<1>12. /\ click' = [c \in Clicks |-> Overtaken(click[c], D)]
       /\ \A t \in Titles : items'[t] # items[t] => t \in D
       /\ (hasCart => hasCart') \/ Titles \subseteq D
  BY <1>9, <1>10, <1>11
<1> QED BY <1>3, <1>4, <1>5, <1>6, <1>7, <1>8, <1>10, <1>12, ShelfChanges

LEMMA ShelfStep == ShelfInv /\ [ShelfNext]_shelfVars => ShelfInv'
<1> SUFFICES ASSUME ShelfInv, [ShelfNext]_shelfVars PROVE ShelfInv' OBVIOUS
<1>0. /\ stock \in [Titles -> 0..MaxQuantity] /\ wished \subseteq Titles /\ deeds \in 0..MaxDeeds
      /\ orders \subseteq [books : SUBSET Titles, since : [Titles -> Nat]]
      /\ Deed => deeds' \in 0..MaxDeeds
  BY ShelfTypes, ShelfNames DEF ShelfInv, Deed
<1>1. ASSUME NEW c \in Clicks, NEW b \in Tabs, Click(c, b) PROVE ShelfInv'
  BY <1>1, Clicked
<1>2. ASSUME NEW c \in Clicks, ReadShelf(c) PROVE ShelfInv' BY <1>2, ShelfRead
<1>3. ASSUME NEW c \in Clicks, WriteCart(c) PROVE ShelfInv' BY <1>3, CartWritten
<1>4. ASSUME NEW c \in Clicks, AddWish(c) PROVE ShelfInv'
  <2>1. wished \subseteq Titles /\ click[c].title \in Titles
    BY <1>4, ShelfTypes DEF ShelfInv, AddWish, Wish, ClickSet
  <2> QED BY <1>4, <2>1, WishWritten DEF AddWish
<1>5. ASSUME NEW c \in Clicks, RemoveWish(c) PROVE ShelfInv'
  BY <1>0, <1>5, WishWritten DEF RemoveWish
<1>6. ASSUME NEW c \in Clicks, ClickFails(c) PROVE ShelfInv' BY <1>6, Dropped DEF ClickFails
<1>7. ASSUME NEW c \in Clicks, Reply(c) PROVE ShelfInv' BY <1>7, Replied
<1>8. ASSUME NEW b \in Tabs, LoadPage(b) PROVE ShelfInv' BY <1>8, PageLoaded
<1>9. ASSUME NEW b \in Tabs, ShowLists(b) PROVE ShelfInv' BY <1>9, ListsShown
<1>10. ASSUME NEW b \in Tabs, NEW l \in Lists, ReadList(b, l) PROVE ShelfInv' BY <1>10, ListRead
<1>11. CASE Buy
  <2>1. PICK S \in SUBSET Titles \ {{}} :
          /\ stock' \in [Titles -> 0..MaxQuantity]
          /\ orders' = orders \cup {[books |-> S, since |-> [t \in Titles |-> 0]]}
    BY <1>11 DEF Buy
  <2>2. [books |-> S, since |-> [t \in Titles |-> 0]] \in [books : SUBSET Titles, since : [Titles -> Nat]]
    OBVIOUS
  <2> QED BY <1>0, <1>11, <2>1, <2>2, CartStays DEF Buy
<1>12. ASSUME NEW o \in orders, Confirm(o) PROVE ShelfInv' BY <1>12, OrderConfirmed
<1>13. CASE EditCart BY <1>13, CartEdited
<1>14. ASSUME NEW t \in Titles, EditWishes(t) PROVE ShelfInv'
  <2>1. wished' \subseteq Titles BY <1>0, <1>14 DEF EditWishes
  <2>2. UNCHANGED <<hasCart, items, owed, mixed, swept, click, orders, stock>> /\ Noticed /\ Deed
    BY <1>14 DEF EditWishes, cartVars
  <2>3. /\ stock' \in [Titles -> 0..MaxQuantity] /\ deeds' \in 0..MaxDeeds
        /\ orders' \subseteq [books : SUBSET Titles, since : [Titles -> Nat]]
    BY <1>0, <2>2
  <2> QED BY <2>1, <2>2, <2>3, CartStays
<1>15. ASSUME NEW t \in Titles, MoveStock(t) PROVE ShelfInv'
  <2>1. PICK n \in {0, MaxQuantity - 1} : stock' = [stock EXCEPT ![t] = n] BY <1>15 DEF MoveStock
  <2>2. n \in 0..MaxQuantity BY ShelfNames
  <2>3. stock' \in [Titles -> 0..MaxQuantity] BY <1>0, <2>1, <2>2
  <2> QED BY <1>0, <1>15, <2>3, CartStays DEF MoveStock, cartVars
<1>16. CASE UNCHANGED shelfVars BY <1>0, <1>16, CartStays DEF shelfVars, cartVars
<1> QED
  BY <1>1, <1>2, <1>3, <1>4, <1>5, <1>6, <1>7, <1>8, <1>9, <1>10, <1>11, <1>12, <1>13, <1>14, <1>15, <1>16
  DEF ShelfNext

LEMMA ShelfAlways == ShelfSpec => []ShelfInv
BY ShelfStart, ShelfStep, PTL DEF ShelfSpec

\* The cart, the wishlist, the requests and the pages have their types; an item
\* has a cart (add_item.py, set_quantity.py, models/cart.py).
THEOREM ShelfTypeCorrect == ShelfSpec => []ShelfTypeOK
<1>1. ShelfInv => ShelfTypeOK BY DEF ShelfInv
<1> QED BY <1>1, ShelfAlways, PTL

\* However requests, payments and admins' edits of one cart interleave: a quantity that
\* no late request wrote, and no payment swept away with copies asked for after the
\* purchase, is what they add up to; and what the cart holds has been asked for.
THEOREM TheCartIsWhatWasAskedFor == ShelfSpec => []CartAddsUp
<1>1. ShelfInv => CartAddsUp BY DEF ShelfInv
<1> QED BY <1>1, ShelfAlways, PTL

\* However answers, lists and page loads interleave: a page never marks a book
\* that was on the shelf only before it was opened, or never, and it loses a mark
\* put there through it only to the lists it was waiting for.
THEOREM MarksAreTrue == ShelfSpec => []MarksFollowTheShelf
<1>1. ShelfInv => MarksFollowTheShelf BY DEF ShelfInv
<1> QED BY <1>1, ShelfAlways, PTL

-----------------------------------------------------------------------------
(* Search indexes *)

SyncSet == [pc : {"idle", "read", "elastic", "qdrant"}, book : BookIds,
            row : Row \cup {Gone}, try : 1..MaxTries]
ReconSet == [pc : {"idle", "rows", "hashes", "embed", "overwrite", "remove", "unlock"},
             rows : Rows, embed : SUBSET BookIds, overwrite : SUBSET BookIds, remove : SUBSET BookIds]

LEMMA IndexNames ==
    /\ \A r \in Row : PointOf(r) \in Point
    /\ NoRows \in Rows /\ IdleSync \in SyncSet /\ IdleRecon \in ReconSet
    /\ [pc |-> "idle", rows |-> NoRows] \in [pc : {"idle", "write", "prune"}, rows : Rows]
    /\ MaxChanges \in Nat /\ MaxSlips \in Nat /\ MaxTries \in Nat \ {0}
<1>1. \A r \in Row : PointOf(r) \in Point BY DEF Row, Point, PointOf
<1>2. NoRows \in Rows BY DEF NoRows, Rows
<1>3. MaxChanges \in Nat /\ MaxSlips \in Nat /\ MaxTries \in Nat \ {0}
  BY IndexAssumption DEF IndexAssumption
<1>4. (CHOOSE b \in BookIds : TRUE) \in BookIds BY IndexAssumption DEF IndexAssumption
<1>5. 1 \in 1..MaxTries BY <1>3
<1>6. IdleSync \in SyncSet BY <1>4, <1>5 DEF IdleSync, SyncSet
<1>7. IdleRecon \in ReconSet BY <1>2 DEF IdleRecon, ReconSet
<1> QED BY <1>1, <1>2, <1>3, <1>6, <1>7

\* What a reconcile writes it has rows for.
Planned ==
    \A r \in Reindexers : recon[r].pc \in {"embed", "overwrite"} =>
        recon[r].embed \cup recon[r].overwrite \subseteq ForSale(recon[r].rows)

IndexInv == IndexTypeOK /\ Planned

LEMMA IndexStart == IndexInit => IndexInv
<1> SUFFICES ASSUME IndexInit PROVE IndexInv OBVIOUS
<1>1. (CHOOSE t \in Texts : TRUE) \in Texts /\ (CHOOSE m \in Metas : TRUE) \in Metas
  BY IndexAssumption DEF IndexAssumption
<1>2. row \in Rows
  <2> DEFINE t == CHOOSE x \in Texts : TRUE
             m == CHOOSE x \in Metas : TRUE
             E == [text : {t}, meta : {m}, avail : {TRUE}]
  <2>1. E \subseteq Row BY <1>1 DEF Row
  <2>2. row \in [BookIds -> {Gone} \cup E] BY DEF IndexInit
  <2> HIDE DEF E
  <2> QED BY <2>1, <2>2 DEF Rows
<1>3. \A b \in ForSale(row) : row[b] \in Row BY <1>2 DEF ForSale, Rows
<1>4. point \in [BookIds -> Point \cup {Gone}]
  BY <1>3, IndexNames DEF IndexInit
<1>5. due \in [BookIds -> [1..MaxTries -> Nat]]
  BY DEF IndexInit
<1>6. 0 \in 0..MaxChanges /\ 0 \in 0..MaxSlips BY IndexNames
<1>7. IndexTypeOK
  BY <1>2, <1>4, <1>5, <1>6, IndexNames DEF IndexInit, IndexTypeOK, SyncSet, ReconSet, IdleBulk
<1>8. Planned BY DEF IndexInit, IdleRecon, Planned
<1> QED BY <1>7, <1>8 DEF IndexInv

LEMMA IndexTypesStep == IndexInv /\ [IndexNext]_indexVars => IndexTypeOK'
<1> SUFFICES ASSUME IndexInv, [IndexNext]_indexVars PROVE IndexTypeOK' OBVIOUS
<1>0. /\ row \in Rows /\ doc \in Rows
      /\ point \in [BookIds -> Point \cup {Gone}]
      /\ due \in [BookIds -> [1..MaxTries -> Nat]]
      /\ sync \in [SyncWorkers -> SyncSet]
      /\ reindexing \in BOOLEAN
      /\ recon \in [Reindexers -> ReconSet]
      /\ bulk \in [pc : {"idle", "write", "prune"}, rows : Rows]
      /\ changes \in 0..MaxChanges /\ slips \in 0..MaxSlips
  BY DEF IndexInv, IndexTypeOK, SyncSet, ReconSet
\* What may be queued, and what slips.
<1>1. ASSUME NEW b \in BookIds, NEW n \in 1..MaxTries, QueueSync(b, n)
      PROVE  due' \in [BookIds -> [1..MaxTries -> Nat]]
  <2>1. due' = [due EXCEPT ![b] = [due[b] EXCEPT ![n] = due[b][n] + 1]] BY <1>1 DEF QueueSync
  <2>2. due[b] \in [1..MaxTries -> Nat] /\ due[b][n] \in Nat BY <1>0
  <2>3. due[b][n] + 1 \in Nat BY <2>2
  <2>4. [due[b] EXCEPT ![n] = due[b][n] + 1] \in [1..MaxTries -> Nat] BY <2>2, <2>3
  <2> QED BY <1>0, <2>1, <2>4
<1>2. Slip => slips' \in 0..MaxSlips BY <1>0, IndexNames DEF Slip
<1>3. ASSUME NEW b \in BookIds, ChangeBook(b) PROVE IndexTypeOK'
  <2>1. PICK r \in Edits : row' = [row EXCEPT ![b] = r] BY <1>3 DEF ChangeBook
  <2>2. r \in Row \cup {Gone} BY IndexAssumption DEF IndexAssumption, Row
  <2>3. row' \in Rows BY <1>0, <2>1, <2>2 DEF Rows
  <2>4. 1 \in 1..MaxTries BY IndexNames
  <2>5. due' \in [BookIds -> [1..MaxTries -> Nat]] BY <1>0, <1>1, <1>3, <2>4 DEF ChangeBook
  <2>6. changes' \in 0..MaxChanges BY <1>0, <1>3, IndexNames DEF ChangeBook
  <2> QED BY <1>0, <1>3, <2>3, <2>5, <2>6 DEF ChangeBook, IndexTypeOK, SyncSet, ReconSet
\* The sync task.
<1>4. ASSUME NEW w \in SyncWorkers, NEW b \in BookIds, NEW n \in 1..MaxTries, TakeSync(w, b, n)
      PROVE  IndexTypeOK'
  <2>1. due[b] \in [1..MaxTries -> Nat] /\ due[b][n] \in Nat BY <1>0
  <2>2. due[b][n] - 1 \in Nat BY <1>4, <2>1 DEF TakeSync
  <2>3. [due[b] EXCEPT ![n] = due[b][n] - 1] \in [1..MaxTries -> Nat] BY <2>1, <2>2
  <2>4. due' = [due EXCEPT ![b] = [due[b] EXCEPT ![n] = due[b][n] - 1]] BY <1>4 DEF TakeSync
  <2>5. due' \in [BookIds -> [1..MaxTries -> Nat]] BY <1>0, <2>3, <2>4
  <2> DEFINE k == [IdleSync EXCEPT !.pc = "read", !.book = b, !.try = n]
  <2>6. k \in SyncSet BY IndexNames DEF SyncSet
  <2>7. sync' = [sync EXCEPT ![w] = k] BY <1>4 DEF TakeSync
  <2> HIDE DEF k
  <2>8. sync' \in [SyncWorkers -> SyncSet] BY <1>0, <2>6, <2>7
  <2> QED BY <1>0, <1>4, <2>5, <2>8 DEF TakeSync, IndexTypeOK, SyncSet, ReconSet
<1>5. ASSUME NEW w \in SyncWorkers PROVE sync[w] \in SyncSet /\ sync[w].book \in BookIds
                                         /\ sync[w].row \in Row \cup {Gone} /\ sync[w].try \in 1..MaxTries
  BY <1>0 DEF SyncSet
<1>6. ASSUME NEW w \in SyncWorkers, ReadBook(w) PROVE IndexTypeOK'
  <2> DEFINE r == row[sync[w].book]
             k == [sync[w] EXCEPT !.pc = "elastic", !.row = r]
  <2>1. r \in Row \cup {Gone} BY <1>0, <1>5 DEF Rows
  <2>2. k \in SyncSet BY <1>5, <2>1 DEF SyncSet
  <2>3. sync' = [sync EXCEPT ![w] = k] BY <1>0, <1>6 DEF ReadBook
  <2> HIDE DEF k
  <2>4. sync' \in [SyncWorkers -> SyncSet] BY <1>0, <2>2, <2>3
  <2> QED BY <1>0, <1>6, <2>4 DEF ReadBook, IndexTypeOK, SyncSet, ReconSet
<1>7. ASSUME NEW w \in SyncWorkers, SyncElastic(w) PROVE IndexTypeOK'
  <2> DEFINE k == [sync[w] EXCEPT !.pc = "qdrant"]
  <2>1. k \in SyncSet BY <1>5 DEF SyncSet
  <2>2. sync' = [sync EXCEPT ![w] = k] BY <1>7 DEF SyncElastic
  <2> HIDE DEF k
  <2>3. sync' \in [SyncWorkers -> SyncSet] BY <1>0, <2>1, <2>2
  <2>4. doc' = [doc EXCEPT ![sync[w].book] = sync[w].row] BY <1>7 DEF SyncElastic
  <2>5. doc' \in Rows BY <1>0, <1>5, <2>4 DEF Rows
  <2> QED BY <1>0, <1>7, <2>3, <2>5 DEF SyncElastic, IndexTypeOK, SyncSet, ReconSet
<1>8. ASSUME NEW w \in SyncWorkers, SyncQdrant(w) PROVE IndexTypeOK'
  <2>1. sync' \in [SyncWorkers -> SyncSet] BY <1>0, <1>8, IndexNames DEF SyncQdrant
  <2> DEFINE p == IF sync[w].row # Gone /\ sync[w].row.avail THEN PointOf(sync[w].row) ELSE Gone
  <2>2. p \in Point \cup {Gone} BY <1>5, IndexNames
  <2>3. point' = [point EXCEPT ![sync[w].book] = p] BY <1>8 DEF SyncQdrant
  <2> HIDE DEF p
  <2>4. point' \in [BookIds -> Point \cup {Gone}] BY <1>0, <2>2, <2>3
  <2> QED BY <1>0, <1>8, <2>1, <2>4 DEF SyncQdrant, IndexTypeOK, SyncSet, ReconSet
<1>9. ASSUME NEW w \in SyncWorkers, SyncFails(w) PROVE IndexTypeOK'
  <2>1. sync' \in [SyncWorkers -> SyncSet] BY <1>0, <1>9, IndexNames DEF SyncFails
  <2>2. slips' \in 0..MaxSlips BY <1>2, <1>9 DEF SyncFails
  <2>3. sync[w].try < MaxTries => sync[w].try + 1 \in 1..MaxTries BY <1>5, IndexNames
  <2>4. due' \in [BookIds -> [1..MaxTries -> Nat]] BY <1>0, <1>1, <1>5, <1>9, <2>3 DEF SyncFails
  <2> QED BY <1>0, <1>9, <2>1, <2>2, <2>4 DEF SyncFails, IndexTypeOK, SyncSet, ReconSet
\* The reconcile.
<1>10. ASSUME NEW r \in Reindexers PROVE recon[r] \in ReconSet /\ recon[r].rows \in Rows
                                         /\ recon[r].overwrite \subseteq BookIds
  BY <1>0 DEF ReconSet
<1>11. ASSUME NEW r \in Reindexers, NEW k \in ReconSet, recon' = [recon EXCEPT ![r] = k]
       PROVE  recon' \in [Reindexers -> ReconSet]
  BY <1>0, <1>11
<1>12. ASSUME NEW r \in Reindexers, StartReconcile(r) PROVE IndexTypeOK'
  <2> DEFINE k == [recon[r] EXCEPT !.pc = "rows"]
  <2>1. k \in ReconSet BY <1>10 DEF ReconSet
  <2>2. recon' = [recon EXCEPT ![r] = k] BY <1>12 DEF StartReconcile
  <2> HIDE DEF k
  <2>3. recon' \in [Reindexers -> ReconSet] BY <1>11, <2>1, <2>2
  <2> QED BY <1>0, <1>12, <2>3 DEF StartReconcile, IndexTypeOK, SyncSet, ReconSet
<1>13. ASSUME NEW r \in Reindexers, ReadRows(r) PROVE IndexTypeOK'
  <2> DEFINE m == [b \in BookIds |-> IF b \in ForSale(row) THEN row[b] ELSE Gone]
             k == [recon[r] EXCEPT !.pc = "hashes", !.rows = m]
  <2>1. m \in Rows BY <1>0 DEF Rows
  <2>2. recon' = [recon EXCEPT ![r] = k] BY <1>0, <1>13 DEF ReadRows
  <2> HIDE DEF m
  <2>3. k \in ReconSet BY <1>10, <2>1 DEF ReconSet
  <2> HIDE DEF k
  <2>4. recon' \in [Reindexers -> ReconSet] BY <1>11, <2>2, <2>3
  <2> QED BY <1>0, <1>13, <2>4 DEF ReadRows, IndexTypeOK, SyncSet, ReconSet
<1>14. ASSUME NEW r \in Reindexers, ReadHashes(r) PROVE IndexTypeOK'
  <2> DEFINE m == recon[r].rows
             e == {b \in ForSale(m) : point[b] = Gone \/ point[b].text # m[b].text}
             o == {b \in ForSale(m) \ e : point[b].meta # m[b].meta}
             d == {b \in BookIds \ ForSale(m) : point[b] # Gone}
             k == [pc |-> "embed", rows |-> m, embed |-> e, overwrite |-> o, remove |-> d]
  <2>1. ForSale(m) \subseteq BookIds BY DEF ForSale
  <2>2. m \in Rows /\ e \subseteq BookIds /\ o \subseteq BookIds /\ d \subseteq BookIds
    BY <1>10, <2>1
  <2>3. recon' = [recon EXCEPT ![r] = k] BY <1>14 DEF ReadHashes
  <2> HIDE DEF m, e, o, d
  <2>4. k \in ReconSet BY <2>2 DEF ReconSet
  <2> HIDE DEF k
  <2>5. recon' \in [Reindexers -> ReconSet] BY <1>11, <2>3, <2>4
  <2> QED BY <1>0, <1>14, <2>5 DEF ReadHashes, IndexTypeOK, SyncSet, ReconSet
<1>15. ASSUME NEW r \in Reindexers, EmbedAndUpsert(r) PROVE IndexTypeOK'
  <2> DEFINE k == [recon[r] EXCEPT !.pc = "overwrite", !.embed = {}]
  <2>1. k \in ReconSet BY <1>10 DEF ReconSet
  <2>2. recon' = [recon EXCEPT ![r] = k] BY <1>0, <1>15 DEF EmbedAndUpsert
  <2> HIDE DEF k
  <2>3. recon' \in [Reindexers -> ReconSet] BY <1>11, <2>1, <2>2
  <2>4. \A b \in recon[r].embed : recon[r].rows[b] \in Row
    BY <1>10, <1>15 DEF IndexInv, Planned, EmbedAndUpsert, ForSale, Rows
  <2>5. point' = [b \in BookIds |->
                       IF b \in recon[r].embed THEN PointOf(recon[r].rows[b]) ELSE point[b]]
    BY <1>15 DEF EmbedAndUpsert
  <2>6. point' \in [BookIds -> Point \cup {Gone}] BY <1>0, <2>4, <2>5, IndexNames
  <2> QED BY <1>0, <1>15, <2>3, <2>6 DEF EmbedAndUpsert, IndexTypeOK, SyncSet, ReconSet
<1>16. ASSUME NEW r \in Reindexers, NEW D \in SUBSET recon[r].overwrite
       PROVE  [recon EXCEPT ![r].overwrite = @ \ D] \in [Reindexers -> ReconSet]
  <2> DEFINE k == [recon[r] EXCEPT !.overwrite = @ \ D]
  <2>1. k \in ReconSet BY <1>10 DEF ReconSet
  <2>2. [recon EXCEPT ![r].overwrite = @ \ D] = [recon EXCEPT ![r] = k] BY <1>0
  <2> HIDE DEF k
  <2> QED BY <1>0, <2>1, <2>2
<1>17. [IdleRecon EXCEPT !.pc = "unlock"] \in ReconSet BY IndexNames DEF ReconSet
<1>18. ASSUME NEW r \in Reindexers, OverwritePayload(r) PROVE IndexTypeOK'
  <2>1. CASE recon[r].overwrite = {} /\ recon' = [recon EXCEPT ![r].pc = "remove"] /\ UNCHANGED point
    <3> DEFINE k == [recon[r] EXCEPT !.pc = "remove"]
    <3>1. k \in ReconSet BY <1>10 DEF ReconSet
    <3>2. recon' = [recon EXCEPT ![r] = k] BY <2>1
    <3> HIDE DEF k
    <3>3. recon' \in [Reindexers -> ReconSet] BY <1>11, <3>1, <3>2
    <3> QED BY <1>0, <1>18, <2>1, <3>3 DEF OverwritePayload, IndexTypeOK, SyncSet, ReconSet
  <2>2. ASSUME NEW b \in recon[r].overwrite, point[b] # Gone,
               point' = [point EXCEPT ![b].text = recon[r].rows[b].text, ![b].meta = recon[r].rows[b].meta],
               recon' = [recon EXCEPT ![r].overwrite = @ \ {b}]
        PROVE  IndexTypeOK'
    <3>1. b \in BookIds /\ recon[r].rows[b] \in Row
      BY <1>10, <1>18 DEF IndexInv, Planned, OverwritePayload, ForSale, Rows
    <3>2. recon[r].rows[b].text \in Texts /\ recon[r].rows[b].meta \in Metas BY <3>1 DEF Row
    <3>3. point[b] \in Point BY <1>0, <2>2, <3>1
    <3> DEFINE q == [point[b] EXCEPT !.text = recon[r].rows[b].text, !.meta = recon[r].rows[b].meta]
    <3>4. q \in Point BY <3>2, <3>3 DEF Point
    <3>5. point' = [point EXCEPT ![b] = q] BY <1>0, <2>2, <3>1
    <3> HIDE DEF q
    <3>6. point' \in [BookIds -> Point \cup {Gone}] BY <1>0, <3>4, <3>5
    <3>0. {b} \in SUBSET recon[r].overwrite OBVIOUS
    <3>7. recon' \in [Reindexers -> ReconSet] BY <1>16, <2>2, <3>0
    <3> QED BY <1>0, <1>18, <3>6, <3>7 DEF OverwritePayload, IndexTypeOK, SyncSet, ReconSet
  <2>3. ASSUME NEW b \in recon[r].overwrite, UNCHANGED point,
               recon' \in {[recon EXCEPT ![r].overwrite = @ \ {b}],
                           [recon EXCEPT ![r] = [IdleRecon EXCEPT !.pc = "unlock"]]}
        PROVE  IndexTypeOK'
    <3>0. {b} \in SUBSET recon[r].overwrite OBVIOUS
    <3>1. recon' = [recon EXCEPT ![r].overwrite = @ \ {b}] => recon' \in [Reindexers -> ReconSet]
      BY <1>16, <3>0
    <3>2. recon' = [recon EXCEPT ![r] = [IdleRecon EXCEPT !.pc = "unlock"]]
            => recon' \in [Reindexers -> ReconSet]
      BY <1>11, <1>17
    <3>3. recon' \in [Reindexers -> ReconSet] BY <2>3, <3>1, <3>2
    <3> QED BY <1>0, <1>18, <2>3, <3>3 DEF OverwritePayload, IndexTypeOK, SyncSet, ReconSet
  <2> QED BY <1>18, <2>1, <2>2, <2>3 DEF OverwritePayload
<1>19. ASSUME NEW r \in Reindexers, RemovePoints(r) PROVE IndexTypeOK'
  <2>1. recon' \in [Reindexers -> ReconSet] BY <1>11, <1>17, <1>19 DEF RemovePoints
  <2>2. point' \in [BookIds -> Point \cup {Gone}] BY <1>0, <1>19 DEF RemovePoints
  <2> QED BY <1>0, <1>19, <2>1, <2>2 DEF RemovePoints, IndexTypeOK, SyncSet, ReconSet
<1>20. ASSUME NEW r \in Reindexers, Unlock(r) PROVE IndexTypeOK'
  <2>1. recon' \in [Reindexers -> ReconSet] BY <1>11, <1>20, IndexNames DEF Unlock
  <2> QED BY <1>0, <1>20, <2>1 DEF Unlock, IndexTypeOK, SyncSet, ReconSet
<1>21. ASSUME NEW r \in Reindexers, ReconcileFails(r) PROVE IndexTypeOK'
  <2>1. recon' \in [Reindexers -> ReconSet] BY <1>11, <1>17, <1>21, IndexNames DEF ReconcileFails
  <2>2. slips' \in 0..MaxSlips BY <1>2, <1>21 DEF ReconcileFails
  <2> QED BY <1>0, <1>21, <2>1, <2>2 DEF ReconcileFails, IndexTypeOK, SyncSet, ReconSet
<1>22. ASSUME LockExpires PROVE IndexTypeOK'
  BY <1>0, <1>2, <1>22 DEF LockExpires, IndexTypeOK, SyncSet, ReconSet
\* The bulk job.
<1>23. ASSUME StartBulk PROVE IndexTypeOK'
  <2>1. bulk' \in [pc : {"idle", "write", "prune"}, rows : Rows] BY <1>0, <1>23 DEF StartBulk
  <2> QED BY <1>0, <1>23, <2>1 DEF StartBulk, IndexTypeOK, SyncSet, ReconSet
<1>24. bulk.rows \in Rows BY <1>0
<1>25. ASSUME BulkIndex PROVE IndexTypeOK'
  <2>1. bulk' \in [pc : {"idle", "write", "prune"}, rows : Rows] BY <1>0, <1>25 DEF BulkIndex
  <2>2. doc' \in Rows BY <1>0, <1>24, <1>25 DEF BulkIndex, Rows
  <2> QED BY <1>0, <1>25, <2>1, <2>2 DEF BulkIndex, IndexTypeOK, SyncSet, ReconSet
<1>26. IdleBulk \in [pc : {"idle", "write", "prune"}, rows : Rows] BY IndexNames DEF IdleBulk
<1>27. ASSUME DeleteMissing PROVE IndexTypeOK'
  <2>1. doc' \in Rows BY <1>0, <1>24, <1>27 DEF DeleteMissing, Rows
  <2>2. bulk' \in [pc : {"idle", "write", "prune"}, rows : Rows] BY <1>26, <1>27 DEF DeleteMissing
  <2> QED BY <1>0, <1>27, <2>1, <2>2 DEF DeleteMissing, IndexTypeOK, SyncSet, ReconSet
<1>28. ASSUME BulkFails PROVE IndexTypeOK'
  <2>1. slips' \in 0..MaxSlips BY <1>2, <1>28 DEF BulkFails
  <2>2. bulk' \in [pc : {"idle", "write", "prune"}, rows : Rows] BY <1>26, <1>28 DEF BulkFails
  <2> QED BY <1>0, <1>28, <2>1, <2>2 DEF BulkFails, IndexTypeOK, SyncSet, ReconSet
<1>29. CASE UNCHANGED indexVars BY <1>0, <1>29 DEF indexVars, IndexTypeOK, SyncSet, ReconSet
<1> QED
  BY <1>3, <1>4, <1>6, <1>7, <1>8, <1>9, <1>12, <1>13, <1>14, <1>15, <1>18, <1>19, <1>20, <1>21,
     <1>22, <1>23, <1>25, <1>27, <1>28, <1>29 DEF IndexNext, Sync, Reconcile

LEMMA PlannedStep == IndexInv /\ [IndexNext]_indexVars => Planned'
<1> SUFFICES ASSUME IndexInv, [IndexNext]_indexVars PROVE Planned' OBVIOUS
<1>0. recon \in [Reindexers -> ReconSet] BY DEF IndexInv, IndexTypeOK, ReconSet
\* One job moves on.
<1>1. ASSUME NEW r \in Reindexers, NEW k \in ReconSet, recon' = [recon EXCEPT ![r] = k],
             k.pc \in {"embed", "overwrite"} => k.embed \cup k.overwrite \subseteq ForSale(k.rows)
      PROVE  Planned'
  <2>1. recon'[r] = k /\ \A x \in Reindexers : x # r => recon'[x] = recon[x] BY <1>0, <1>1
  <2>2. ASSUME NEW x \in Reindexers, recon'[x].pc \in {"embed", "overwrite"}
        PROVE  recon'[x].embed \cup recon'[x].overwrite \subseteq ForSale(recon'[x].rows)
    <3>1. CASE x = r BY <1>1, <2>1, <2>2, <3>1
    <3>2. CASE x # r BY <2>1, <2>2, <3>2 DEF IndexInv, Planned
    <3> QED BY <3>1, <3>2
  <2> QED BY <2>2 DEF Planned, ForSale
<1>2. ASSUME UNCHANGED recon PROVE Planned' BY <1>2 DEF IndexInv, Planned, ForSale
<1>3. IdleRecon \in ReconSet /\ IdleRecon.pc = "idle" BY IndexNames DEF IdleRecon
<1>4. /\ [IdleRecon EXCEPT !.pc = "unlock"] \in ReconSet
      /\ [IdleRecon EXCEPT !.pc = "unlock"].pc = "unlock"
  BY <1>3 DEF ReconSet
<1>5. ASSUME NEW r \in Reindexers, NEW q \in {"rows", "remove"}, recon' = [recon EXCEPT ![r].pc = q]
      PROVE  Planned'
  <2> DEFINE k == [recon[r] EXCEPT !.pc = q]
  <2>1. k \in ReconSet /\ k.pc = q BY <1>0 DEF ReconSet
  <2>2. recon' = [recon EXCEPT ![r] = k] BY <1>5
  <2> HIDE DEF k
  <2> QED BY <1>1, <2>1, <2>2
<1>6. ASSUME NEW r \in Reindexers, ReadRows(r) PROVE Planned'
  <2> DEFINE m == [b \in BookIds |-> IF b \in ForSale(row) THEN row[b] ELSE Gone]
             k == [recon[r] EXCEPT !.pc = "hashes", !.rows = m]
  <2>1. m \in Rows BY DEF Rows, ForSale, IndexInv, IndexTypeOK
  <2>2. recon' = [recon EXCEPT ![r] = k] BY <1>0, <1>6 DEF ReadRows
  <2> HIDE DEF m
  <2>3. k \in ReconSet /\ k.pc = "hashes" BY <1>0, <2>1 DEF ReconSet
  <2> HIDE DEF k
  <2> QED BY <1>1, <2>2, <2>3
<1>7. ASSUME NEW r \in Reindexers, ReadHashes(r) PROVE Planned'
  <2> DEFINE m == recon[r].rows
             e == {b \in ForSale(m) : point[b] = Gone \/ point[b].text # m[b].text}
             o == {b \in ForSale(m) \ e : point[b].meta # m[b].meta}
             d == {b \in BookIds \ ForSale(m) : point[b] # Gone}
             k == [pc |-> "embed", rows |-> m, embed |-> e, overwrite |-> o, remove |-> d]
  <2>1. ForSale(m) \subseteq BookIds /\ m \in Rows BY <1>0 DEF ForSale, ReconSet
  <2>2. e \cup o \subseteq ForSale(m) /\ d \subseteq BookIds OBVIOUS
  <2>3. recon' = [recon EXCEPT ![r] = k] BY <1>7 DEF ReadHashes
  <2> HIDE DEF m, e, o, d
  <2>4. k \in ReconSet BY <2>1, <2>2 DEF ReconSet
  <2>5. k.embed = e /\ k.overwrite = o /\ k.rows = m OBVIOUS
  <2> HIDE DEF k
  <2> QED BY <1>1, <2>2, <2>3, <2>4, <2>5
<1>8. ASSUME NEW r \in Reindexers, EmbedAndUpsert(r) PROVE Planned'
  <2> DEFINE k == [recon[r] EXCEPT !.pc = "overwrite", !.embed = {}]
  <2>1. /\ k \in ReconSet /\ k.embed = {} /\ k.overwrite = recon[r].overwrite
        /\ k.rows = recon[r].rows
    BY <1>0 DEF ReconSet
  <2>2. recon' = [recon EXCEPT ![r] = k] BY <1>0, <1>8 DEF EmbedAndUpsert
  <2>3. recon[r].overwrite \subseteq ForSale(recon[r].rows)
    BY <1>8 DEF EmbedAndUpsert, IndexInv, Planned
  <2> HIDE DEF k
  <2> QED BY <1>1, <2>1, <2>2, <2>3
<1>9. ASSUME NEW r \in Reindexers, NEW b \in recon[r].overwrite, recon[r].pc = "overwrite",
             recon' = [recon EXCEPT ![r].overwrite = @ \ {b}]
      PROVE  Planned'
  <2> DEFINE k == [recon[r] EXCEPT !.overwrite = @ \ {b}]
  <2>1. /\ k \in ReconSet /\ k.embed = recon[r].embed /\ k.overwrite \subseteq recon[r].overwrite
        /\ k.rows = recon[r].rows
    BY <1>0 DEF ReconSet
  <2>2. recon' = [recon EXCEPT ![r] = k] BY <1>0, <1>9
  <2>3. recon[r].embed \cup recon[r].overwrite \subseteq ForSale(recon[r].rows)
    BY <1>9 DEF IndexInv, Planned
  <2> HIDE DEF k
  <2> QED BY <1>1, <2>1, <2>2, <2>3
<1>10. ASSUME NEW r \in Reindexers, Reconcile(r) PROVE Planned'
  <2>1. ASSUME OverwritePayload(r) PROVE Planned'
    BY <1>1, <1>4, <1>5, <1>9, <2>1 DEF OverwritePayload
  <2>2. ASSUME RemovePoints(r) PROVE Planned' BY <1>1, <1>4, <2>2 DEF RemovePoints
  <2>3. ASSUME Unlock(r) PROVE Planned' BY <1>1, <1>3, <2>3 DEF Unlock
  <2> QED BY <1>6, <1>7, <1>8, <1>10, <2>1, <2>2, <2>3 DEF Reconcile
<1>11. ASSUME NEW r \in Reindexers, StartReconcile(r) PROVE Planned' BY <1>5, <1>11 DEF StartReconcile
<1>12. ASSUME NEW r \in Reindexers, ReconcileFails(r) PROVE Planned'
  BY <1>1, <1>3, <1>4, <1>12 DEF ReconcileFails
<1>13. ASSUME NEW b \in BookIds, ChangeBook(b) PROVE Planned' BY <1>2, <1>13 DEF ChangeBook
<1>14. ASSUME NEW w \in SyncWorkers, NEW b \in BookIds, NEW n \in 1..MaxTries, TakeSync(w, b, n)
       PROVE  Planned'
  BY <1>2, <1>14 DEF TakeSync
<1>15. ASSUME NEW w \in SyncWorkers, Sync(w) \/ SyncFails(w) PROVE Planned'
  BY <1>2, <1>15 DEF Sync, ReadBook, SyncElastic, SyncQdrant, SyncFails
<1>16. CASE LockExpires \/ StartBulk \/ BulkIndex \/ DeleteMissing \/ BulkFails
  BY <1>2, <1>16 DEF LockExpires, StartBulk, BulkIndex, DeleteMissing, BulkFails
<1>17. CASE UNCHANGED indexVars BY <1>2, <1>17 DEF indexVars
<1> QED BY <1>10, <1>11, <1>12, <1>13, <1>14, <1>15, <1>16, <1>17 DEF IndexNext

\* The rows, points, documents, tasks and jobs have their types; in particular a
\* reconcile overwrites a payload and embeds a text only of a book it has a row
\* of (books.py, reconcile).
THEOREM IndexTypeCorrect == IndexSpec => []IndexTypeOK
<1>1. IndexInv => IndexTypeOK BY DEF IndexInv
<1>2. IndexInv /\ [IndexNext]_indexVars => IndexInv' BY IndexTypesStep, PlannedStep DEF IndexInv
<1> QED BY <1>1, <1>2, IndexStart, PTL DEF IndexSpec
===============================================================================
