---------------------------- MODULE FeedSampling ----------------------------
(***************************************************************************)
(* The pure algorithms of the book feed (main_reco.py): the weighted       *)
(* sample, the picks under diversity caps and the blender.  A random draw  *)
(* is modelled by the set of the results it can have; a result is a        *)
(* sequence of book ids.                                                   *)
(***************************************************************************)
EXTENDS RankedLists

CONSTANTS
    Books,          \* ids; a newer book has a larger id
    Category,       \* [Books -> category or None]
    Author,         \* [Books -> author or None]
    CategoryCap,    \* COLD_DIVERSITY_CATEGORY_CAP, category_cap, NEW_RECO_CATEGORY_CAP
    AuthorCap,      \* COLD_DIVERSITY_AUTHOR_CAP, author_cap
    CandidateMult,  \* CANDIDATE_MULTIPLIER
    Slots,          \* SLOT_COUNTS: how many slots of a page each source has
    Patterns,       \* shuffles of the slots of a page (those explored)
    None

Sources == {"personalized", "popular", "new", "exploration"}

ASSUME SamplingAssumption ==
    /\ Books \subseteq Nat \ {0} /\ IsFiniteSet(Books)
    /\ CategoryCap \in Nat \ {0} /\ AuthorCap \in Nat \ {0}
    /\ CandidateMult \in Nat \ {0}
    /\ Slots \in [Sources -> Nat \ {0}] /\ Patterns \subseteq Seq(Sources)
    /\ \A p \in Patterns, s \in Sources : Cardinality({i \in DOMAIN p : p[i] = s}) = Slots[s]

\* _FALLBACK_ORDER
FallbackOrder == <<"personalized", "popular", "new", "exploration">>

-----------------------------------------------------------------------------
\* _weighted_sample: rng.choices draws limit * 4 times with replacement from the
\* items of positive weight (from all when no weight is positive); the distinct
\* ones are kept in the order of their first draw, up to limit, and the rest is
\* filled from the items in their order.
WeightedSamples(items, heavy, limit) ==
    LET drawable == IF ToSet(items) \cap heavy = {} THEN ToSet(items)
                                                   ELSE ToSet(items) \cap heavy
        draws == {d \in SetToAllKPermutations(drawable) : Len(d) \in 1..limit}
    IN  IF items = <<>> THEN {<<>>}
        ELSE {Upto(d \o Without(items, ToSet(d)), limit) : d \in draws}

-----------------------------------------------------------------------------
\* May book b join the picked ones without exceeding a cap?  A book without a
\* category (author) is not counted.
FitsCaps(picked, b) ==
    /\ Category[b] # None =>
         Cardinality({p \in picked : Category[p] = Category[b]}) < CategoryCap
    /\ Author[b] # None =>
         Cardinality({p \in picked : Author[p] = Author[b]}) < AuthorCap

\* BookMainNewReco counts books without a category as one category, and no authors.
FitsCategory(picked, b) ==
    Cardinality({p \in picked : Category[p] = Category[b]}) < CategoryCap

\* The rule of a pass over the candidates.
Fits(rule, picked, b) ==
    /\ rule = "caps" => FitsCaps(picked, b)
    /\ rule = "category" => FitsCategory(picked, b)

\* try_pick over s until limit books are picked.
PickFrom(s, picked, limit, rule) ==
    LET TryPick(acc, b) ==
          IF /\ Len(acc) < limit
             /\ b \notin ToSet(acc)
             /\ Fits(rule, ToSet(acc), b)
          THEN Append(acc, b) ELSE acc
    IN  FoldLeft(TryPick, picked, s)

\* Wrong on purpose: the pool is not searched under the caps before they are dropped.
DiversifiedPicksHasty(pool, limit) ==
    {PickFrom(pool, PickFrom(sample, <<>>, limit, "caps"), limit, "none") :
        sample \in WeightedSamples(pool, ToSet(pool), limit)}

\* _diversified_pick: the sample under the caps, then the whole pool under the
\* caps, then the pool without caps.
DiversifiedPicks(pool, limit) ==
    {PickFrom(pool, PickFrom(sample \o pool, <<>>, limit, "caps"), limit, "none") :
        sample \in WeightedSamples(pool, ToSet(pool), limit * CandidateMult)}

\* _weighted_diversify: the sample under the caps, then the sample without caps.
WeightedDiversify(points, heavy, limit) ==
    {PickFrom(sample, PickFrom(sample, <<>>, limit, "caps"), limit, "none") :
        sample \in WeightedSamples(points, heavy, limit * CandidateMult)}

\* The choice of BookMainNewReco.get inside its window of fresh books.
NewPicks(window, limit) ==
    {PickFrom(sample, PickFrom(sample, <<>>, limit, "category"), limit, "none") :
        sample \in WeightedSamples(window, ToSet(window), Len(window))}

-----------------------------------------------------------------------------
\* BookMainRecoBlender.mix: each slot takes the first unseen book of its own
\* source, or of the first source of the fallback chain that still has one.
Mix(queues, pattern) ==
    LET PopFrom(page, slot) ==
          LET unseen == [s \in Sources |-> Without(queues[s], ToSet(page))]
              order  == <<slot>> \o Without(FallbackOrder, {slot})
              live   == Among(order, {s \in Sources : unseen[s] # <<>>})
          IN  IF live = <<>> THEN page ELSE Append(page, Head(unseen[Head(live)]))
    IN  FoldLeft(PopFrom, <<>>, pattern)
=============================================================================
