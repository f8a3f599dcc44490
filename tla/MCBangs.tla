------------------------------ MODULE MCBangs ------------------------------
EXTENDS Bangs
CONSTANTS p, m1, m2, w, n1, n2
\* A threaded module, replaced by a plain and a threaded one in a recycle.
TwoGenerations == <<{m1, p}, {m2}>>
=============================================================================
