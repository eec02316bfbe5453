------------------------------- MODULE Reviews -------------------------------
(***************************************************************************)
(* Reviews of one book (WriteReview.for_book) and the totals the book keeps *)
(* of them.  A request reads the book and the user's review, then inserts   *)
(* and updates in one transaction (READ COMMITTED): SQLAlchemy writes the   *)
(* columns whose value differs from the one it read.  In the admin reviews  *)
(* are added, edited and deleted without a look at the totals.              *)
(***************************************************************************)
EXTENDS Integers, Sequences, FiniteSets, FiniteSetsExt

CONSTANTS
    Readers,        \* users who review the book
    Posts,          \* requests at work at the same time
    Grades,         \* ratings given
    MaxReviews      \* bound: reviews saved, and admin edits

NoOne == "no one"

ASSUME ReviewsAssumption ==
    /\ Grades \subseteq 1..5 /\ MaxReviews \in Nat
    /\ NoOne \notin Readers

VARIABLES
    reviews,        \* in order of their insertion: [user, grade]
    totals,         \* total_ratings, sum_ratings, rating (in tenths) of the book
    post,           \* [pc, user, grade, base]; late: a request that committed
                    \* since the book was read
    raced,          \* some request committed late
    twice,          \* users with two of their requests at work at once
    edited,         \* how often an admin added, edited or removed a review
    given           \* users an admin gave a review

reviewVars == <<reviews, totals, post, raced, twice, edited, given>>

Zero == [count |-> 0, sum |-> 0, rating |-> 0]
NoPost == [pc |-> "idle", user |-> NoOne, grade |-> 1, base |-> Zero, late |-> FALSE]

ReviewsTypeOK ==
    /\ reviews \in Seq([user : Readers \cup {NoOne}, grade : Grades]) /\ Len(reviews) <= MaxReviews
    /\ totals \in [count : Nat, sum : Nat, rating : Nat]
    /\ \A p \in Posts : /\ post[p].pc \in {"idle", "read", "check", "save"}
                        /\ post[p].pc = "idle" <=> post[p].user = NoOne
    /\ raced \in BOOLEAN /\ twice \subseteq Readers
    /\ edited \in Nat /\ given \subseteq Readers \cup {NoOne}

ReviewsInit ==
    /\ reviews = <<>> /\ totals = Zero
    /\ post = [p \in Posts |-> NoPost]
    /\ raced = FALSE /\ twice = {} /\ edited = 0 /\ given = {}

-----------------------------------------------------------------------------
\* round(sum / count, 1), in tenths.  A tie, as of 17 / 4, goes to the even tenth.
\* (From twenty reviews on there are ties, as 4.05, that no float hits: there the
\* float's error decides, and Python may round the other way.)
Rounded(sum, count) ==
    LET up == (20 * sum + count) \div (2 * count)
        tie == (20 * sum + count) % (2 * count) = 0
    IN  IF tie /\ up % 2 = 1 THEN up - 1 ELSE up

\* A rating counts as changed unless the new float equals the Decimal read: of
\* the tenths only .0 and .5 are the same number in both.
SameColumn(new, old) == new = old /\ new % 5 = 0

\* Wrong on purpose: the sum is divided before the review is counted.
WithGradeUncounted(base, now, grade) ==
    [count |-> base.count + 1, sum |-> base.sum + grade,
     rating |-> IF base.count = 0 THEN 10 * grade ELSE Rounded(base.sum + grade, base.count)]

\* book_avg_rating and the UPDATE that follows it.
WithGrade(base, now, grade) ==
    LET sum == base.sum + grade
        count == base.count + 1
        new == Rounded(sum, count)
    IN [count |-> count, sum |-> sum,
        rating |-> IF SameColumn(new, base.rating) THEN now.rating ELSE new]

WritesOf(u) == {i \in DOMAIN reviews : reviews[i].user = u}

-----------------------------------------------------------------------------
\* ReviewWriteREQT has checked the grade.
BeginReview(p, u) ==
    /\ post[p].pc = "idle"
    /\ \E g \in Grades : post' = [post EXCEPT ![p] = [NoPost EXCEPT !.pc = "read", !.user = u, !.grade = g]]
    /\ twice' = IF \E q \in Posts : post[q].user = u THEN twice \cup {u} ELSE twice
    /\ UNCHANGED <<reviews, totals, raced, edited, given>>

ReadTotals(p) ==
    /\ post[p].pc = "read"
    /\ post' = [post EXCEPT ![p].pc = "check", ![p].base = totals]
    /\ UNCHANGED <<reviews, totals, raced, twice, edited, given>>

\* get_by_book_and_user_id: BookReviewAlreadyExistsERR, or an exception when
\* there are several.
FindReview(p) ==
    /\ post[p].pc = "check"
    /\ post' = [post EXCEPT ![p] = IF WritesOf(@.user) = {} THEN [@ EXCEPT !.pc = "save"] ELSE NoPost]
    /\ UNCHANGED <<reviews, totals, raced, twice, edited, given>>

\* save(new_review), save(book), commit.
SaveReview(p) ==
    /\ post[p].pc = "save"
    /\ Len(reviews) + edited < MaxReviews
    /\ reviews' = Append(reviews, [user |-> post[p].user, grade |-> post[p].grade])
    /\ totals' = WithGrade(post[p].base, totals, post[p].grade)
    /\ raced' = (raced \/ post[p].late)
    /\ post' = [q \in Posts |->
                    IF q = p THEN NoPost
                    ELSE [post[q] EXCEPT !.late = @ \/ post[q].pc \in {"check", "save"}]]
    /\ UNCHANGED <<twice, edited, given>>

\* A user or book that is not there, a failing query: nothing is committed.
ReviewFails(p) ==
    /\ post[p].pc # "idle"
    /\ post' = [post EXCEPT ![p] = NoPost]
    /\ UNCHANGED <<reviews, totals, raced, twice, edited, given>>

\* ReviewBookAdmin: the form has the user, the rating and the book of a review; the
\* totals of the book are left alone.  A review may go to a user who has one, or to
\* nobody; only the CHECK on the rating holds.
AddReview(u) ==
    /\ Len(reviews) + edited < MaxReviews
    /\ \E g \in Grades : reviews' = Append(reviews, [user |-> u, grade |-> g])
    /\ edited' = edited + 1 /\ given' = given \cup {u}
    /\ UNCHANGED <<totals, post, raced, twice>>

EditReview(i, u) ==
    /\ i \in DOMAIN reviews /\ Len(reviews) + edited < MaxReviews
    /\ \E g \in Grades : /\ [user |-> u, grade |-> g] # reviews[i]
                         /\ reviews' = [reviews EXCEPT ![i] = [user |-> u, grade |-> g]]
    /\ edited' = edited + 1
    /\ given' = IF u = reviews[i].user THEN given ELSE given \cup {u}
    /\ UNCHANGED <<totals, post, raced, twice>>

\* Deleted, or given to another book.
RemoveReview(i) ==
    /\ i \in DOMAIN reviews
    /\ reviews' = [j \in 1..(Len(reviews) - 1) |-> reviews[IF j < i THEN j ELSE j + 1]]
    /\ edited' = edited + 1
    /\ UNCHANGED <<totals, post, raced, twice, given>>

ReviewsNext ==
    \/ \E p \in Posts : \/ \E u \in Readers : BeginReview(p, u)
                        \/ ReadTotals(p) \/ FindReview(p) \/ SaveReview(p) \/ ReviewFails(p)
    \/ \E u \in Readers \cup {NoOne} : AddReview(u) \/ \E i \in 1..MaxReviews : EditReview(i, u)
    \/ \E i \in 1..MaxReviews : RemoveReview(i)

ReviewsSpec == ReviewsInit /\ [][ReviewsNext]_reviewVars

-----------------------------------------------------------------------------
GradesOf(S) == MapThenSumSet(LAMBDA i : reviews[i].grade, S)
SumOfGrades == GradesOf(DOMAIN reviews)

\* As long as no admin changed a review, the count and the sum are those of some of
\* the reviews, a late commit losing others as a whole; they are those of all, and the
\* rating is theirs, if no request committed between another's read and commit.  A
\* user has one review of the book unless two requests of theirs ran at once or an
\* admin gave them one (write.py:49-66, set_avg_rating.py:3-6).
ReviewsAddUp ==
    /\ edited = 0 => \E S \in SUBSET DOMAIN reviews :
                         totals.count = Cardinality(S) /\ totals.sum = GradesOf(S)
    /\ ~raced /\ edited = 0 =>
         /\ totals.count = Len(reviews) /\ totals.sum = SumOfGrades
         /\ totals.rating = IF reviews = <<>> THEN 0 ELSE Rounded(SumOfGrades, Len(reviews))
    /\ \A u \in Readers \ (twice \cup given) : Cardinality(WritesOf(u)) <= 1
=============================================================================
