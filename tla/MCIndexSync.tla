----------------------------- MODULE MCIndexSync -----------------------------
\* An instance of IndexSync for the run about the vectors.
EXTENDS IndexSync

CONSTANTS t1, t2, m1, m2
\* Another rating, another text, and the first text again.
Rewrites == {[text |-> t, meta |-> m2, avail |-> TRUE] : t \in {t1, t2}}
=============================================================================
