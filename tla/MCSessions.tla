----------------------------- MODULE MCSessions -----------------------------
EXTENDS Sessions, TLC
Swaps == Permutations(Browsers) \cup Permutations(Requests) \cup Permutations(Tokens)
=============================================================================
