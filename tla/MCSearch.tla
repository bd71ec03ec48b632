------------------------------ MODULE MCSearch ------------------------------
\* An instance of Search: two byte values, of which 1 is also the padding,
\* keywords with and without overlaps and with a token for any byte.
EXTENDS Search

Keywords == {<<{0}, {1}>>, <<{1}>>, <<{0}, {0, 1}, {1}>>}

Whole == [from |-> 0, to |-> 0]
Plans == {<<Whole>>, <<[from |-> 0, to |-> 2], [from |-> 2, to |-> 5]>>}
=============================================================================
