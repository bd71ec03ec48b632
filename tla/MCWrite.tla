------------------------------ MODULE MCWrite -------------------------------
\* An instance of WriteHistory.
EXTENDS WriteHistory

\* While a byte has changed without an entry, or file.undowrite is off, a
\* history of two entries goes on only if both entries are of one byte.
Bounded ==
  \/ lost = {} /\ undowrite
  \/ Len(w) < 2
  \/ \A i \in DOMAIN w : Cardinality(DOMAIN w[i].n) = 1
=============================================================================
