--------------------------- MODULE MCRecoProfile ---------------------------
\* Instances of RecoProfile for TLC.
EXTENDS RecoProfile, TLC

CONSTANTS b1

\* All events are about one book.
OneBook == [e \in Events |-> b1]

\* At most one fault of any kind.
OneMishap == crashes + failures + outages + lapses <= 1

Swaps == Permutations(Consumers) \cup Permutations(Workers) \cup Permutations(Views)
=============================================================================
