---------------------------- MODULE SearchProofs ----------------------------
(***************************************************************************)
(* Proofs about Search: what is said of the hits and of the missed         *)
(* occurrences holds for every file, every set of keywords, every size of  *)
(* block and every plan of ranges.                                         *)
(*                                                                         *)
(* The notions of Search that look at the hits (which bytes a list saw,    *)
(* how far a match is) are restated with the keywords ls, the hits hs, the *)
(* bytes fl and the start a of the range as parameters, so that a lemma    *)
(* speaks of the state before a byte and of the state after it alike.      *)
(***************************************************************************)
EXTENDS Search, FiniteSetTheorems, TLAPS

LEnd(ls, h) == h.at + Len(ls[h.kw]) - 1

Saw(ls, hs, k, p) == ~ \E h \in hs : h.kw < k /\ LEnd(ls, h) = p

SawIn(ls, hs, k, q, s) == {r \in q .. s - 1 : Saw(ls, hs, k, r)}

\* How many of the bytes from q up to, but not including, s list k saw.
Cnt(ls, hs, k, q, s) == Cardinality(SawIn(ls, hs, k, q, s))

Rd(fl, p) == IF p < Size THEN fl[p] ELSE Pad

\* List k had a hit, and saw n bytes between it and p.
After(ls, hs, k, p, n) ==
  \E h \in hs : h.kw = k /\ LEnd(ls, h) < p /\ Cnt(ls, hs, k, LEnd(ls, h) + 1, p) = n

\* The last m bytes that list k saw before p match its first m tokens.
Going(fl, a, ls, hs, k, p, m) ==
  /\ Cnt(ls, hs, k, a, p) >= m
  /\ \A q \in a .. p - 1 : Saw(ls, hs, k, q) =>
       /\ Cnt(ls, hs, k, q, p) = m => Rd(fl, q) \in ls[k][1] \/ After(ls, hs, k, q, 1)
       /\ Cnt(ls, hs, k, q, p) < m => Rd(fl, q) \in ls[k][m - Cnt(ls, hs, k, q, p) + 1]

\* What the state e of list k says of the bytes before s.
Means(fl, a, ls, hs, k, s, e) ==
  /\ e \in 1 .. Len(ls[k]) - 1 => Going(fl, a, ls, hs, k, s, e)
  /\ e = Len(ls[k]) => After(ls, hs, k, s, 0)
  /\ e = Len(ls[k]) + 1 => After(ls, hs, k, s, 1)

-----------------------------------------------------------------------------
(***************************************************************************)
(* Counting the bytes a list saw.                                          *)
(***************************************************************************)
\* The bytes seen are finitely many, and no more than there are.
LEMMA CntBound ==
  ASSUME NEW ls, NEW hs, NEW k, NEW q \in Int, NEW s \in Int
  PROVE  /\ IsFiniteSet(SawIn(ls, hs, k, q, s))
         /\ Cnt(ls, hs, k, q, s) \in Nat
         /\ q >= s => Cnt(ls, hs, k, q, s) = 0
         /\ q <= s => Cnt(ls, hs, k, q, s) <= s - q
<1> DEFINE S == SawIn(ls, hs, k, q, s)
<1>1. S \subseteq q .. s - 1
  BY DEF SawIn
<1>2. /\ IsFiniteSet(q .. s - 1)
      /\ Cardinality(q .. s - 1) = IF q > s - 1 THEN 0 ELSE (s - 1) - q + 1
  BY FS_Interval
<1>3. /\ IsFiniteSet(S) /\ Cardinality(S) <= Cardinality(q .. s - 1)
  BY <1>1, <1>2, FS_Subset
<1>4. Cardinality(S) \in Nat
  BY <1>3, FS_CardinalityType
<1>. HIDE DEF S
<1>5. q >= s => Cardinality(S) = 0
  BY <1>2, <1>3, <1>4
<1>6. q <= s => Cardinality(S) <= s - q
  BY <1>2, <1>3, <1>4
<1>. QED
  BY <1>3, <1>4, <1>5, <1>6 DEF Cnt, S

\* One more byte counts when it is seen.
LEMMA CntStep ==
  ASSUME NEW ls, NEW hs, NEW k, NEW q \in Int, NEW s \in Int, q <= s
  PROVE  Cnt(ls, hs, k, q, s + 1) = Cnt(ls, hs, k, q, s) + (IF Saw(ls, hs, k, s) THEN 1 ELSE 0)
<1> DEFINE S == SawIn(ls, hs, k, q, s)
<1>1. IsFiniteSet(S) /\ Cardinality(S) \in Nat
  BY CntBound DEF Cnt
<1>2. s \notin S
  BY DEF SawIn
<1>3. CASE Saw(ls, hs, k, s)
  <2>1. SawIn(ls, hs, k, q, s + 1) = S \union {s}
    BY <1>3 DEF SawIn
  <2>. QED
    BY <1>1, <1>2, <1>3, <2>1, FS_AddElement DEF Cnt
<1>4. CASE ~Saw(ls, hs, k, s)
  <2>1. SawIn(ls, hs, k, q, s + 1) = S
    BY <1>4 DEF SawIn
  <2>. QED
    BY <1>1, <1>4, <2>1 DEF Cnt
<1>. QED
  BY <1>3, <1>4

\* A byte that is seen counts, and a stretch without gaps counts in full.
LEMMA CntSeen ==
  ASSUME NEW ls, NEW hs, NEW k, NEW q \in Int, NEW s \in Int, q < s
  PROVE  /\ Saw(ls, hs, k, q) => Cnt(ls, hs, k, q, s) >= 1
         /\ (\A r \in q .. s - 1 : Saw(ls, hs, k, r)) => Cnt(ls, hs, k, q, s) = s - q
<1> DEFINE S == SawIn(ls, hs, k, q, s)
<1>1. ASSUME Saw(ls, hs, k, q) PROVE Cnt(ls, hs, k, q, s) >= 1
  <2>1. {q} \subseteq S
    BY <1>1 DEF SawIn
  <2>2. IsFiniteSet(S) /\ Cardinality(S) \in Nat
    BY CntBound DEF Cnt
  <2>3. Cardinality({q}) <= Cardinality(S)
    BY <2>1, <2>2, FS_Subset
  <2>4. Cardinality({q}) = 1
    BY FS_Singleton
  <2>. QED
    BY <2>2, <2>3, <2>4 DEF Cnt
<1>2. ASSUME \A r \in q .. s - 1 : Saw(ls, hs, k, r) PROVE Cnt(ls, hs, k, q, s) = s - q
  <2>1. S = q .. s - 1
    BY <1>2 DEF SawIn
  <2>2. Cardinality(q .. s - 1) = IF q > s - 1 THEN 0 ELSE (s - 1) - q + 1
    BY FS_Interval
  <2>. QED
    BY <2>1, <2>2 DEF Cnt
<1>. QED
  BY <1>1, <1>2

\* hs2 are the hits hs, and perhaps hits whose last byte is at s.
Grown(ls, hs, hs2, s) ==
  /\ hs \subseteq hs2
  /\ \A h \in hs2 : h \notin hs => LEnd(ls, h) = s

\* What was seen before s stays seen, and so do the counts and the notions
\* that rest on them.
LEMMA SawStable ==
  ASSUME NEW ls, NEW hs, NEW hs2, NEW s \in Int, Grown(ls, hs, hs2, s),
         NEW k, NEW p \in Int, p < s
  PROVE  Saw(ls, hs2, k, p) <=> Saw(ls, hs, k, p)
  BY DEF Saw, Grown

LEMMA CntStable ==
  ASSUME NEW ls, NEW hs, NEW hs2, NEW s \in Int, Grown(ls, hs, hs2, s),
         NEW k, NEW q \in Int, NEW p \in Int, p <= s
  PROVE  Cnt(ls, hs2, k, q, p) = Cnt(ls, hs, k, q, p)
<1>1. \A r \in q .. p - 1 : Saw(ls, hs2, k, r) <=> Saw(ls, hs, k, r)
  BY SawStable
<1>2. SawIn(ls, hs2, k, q, p) = SawIn(ls, hs, k, q, p)
  BY <1>1 DEF SawIn
<1>. QED
  BY <1>2 DEF Cnt

LEMMA AfterStable ==
  ASSUME NEW ls, NEW hs, NEW hs2, NEW s \in Int, Grown(ls, hs, hs2, s),
         \A h \in hs : LEnd(ls, h) \in Int,
         NEW k, NEW n, NEW p \in Int, p <= s, After(ls, hs, k, p, n)
  PROVE  After(ls, hs2, k, p, n)
<1>1. PICK h \in hs : h.kw = k /\ LEnd(ls, h) < p /\ Cnt(ls, hs, k, LEnd(ls, h) + 1, p) = n
  BY DEF After
<1>2. Cnt(ls, hs2, k, LEnd(ls, h) + 1, p) = n
  BY <1>1, CntStable
<1>. QED
  BY <1>1, <1>2 DEF After, Grown

LEMMA GoingStable ==
  ASSUME NEW fl, NEW a \in Int, NEW ls, NEW hs, NEW hs2, NEW s \in Int, Grown(ls, hs, hs2, s),
         \A h \in hs : LEnd(ls, h) \in Int,
         NEW k, NEW m, NEW p \in Int, p <= s, Going(fl, a, ls, hs, k, p, m)
  PROVE  Going(fl, a, ls, hs2, k, p, m)
<1>1. Cnt(ls, hs2, k, a, p) = Cnt(ls, hs, k, a, p)
  BY CntStable
<1>2. ASSUME NEW q \in a .. p - 1, Saw(ls, hs2, k, q)
      PROVE  /\ Cnt(ls, hs2, k, q, p) = m => Rd(fl, q) \in ls[k][1] \/ After(ls, hs2, k, q, 1)
             /\ Cnt(ls, hs2, k, q, p) < m => Rd(fl, q) \in ls[k][m - Cnt(ls, hs2, k, q, p) + 1]
  <2>1. Saw(ls, hs, k, q)
    BY <1>2, SawStable
  <2>2. Cnt(ls, hs2, k, q, p) = Cnt(ls, hs, k, q, p)
    BY CntStable
  <2>3. After(ls, hs, k, q, 1) => After(ls, hs2, k, q, 1)
    BY AfterStable
  <2>. QED
    BY <2>1, <2>2, <2>3 DEF Going
<1>. QED
  BY <1>1, <1>2 DEF Going
-----------------------------------------------------------------------------
(***************************************************************************)
(* One byte, at s, seen or not by list k.                                  *)
(***************************************************************************)
\* How the counts up to s and up to s + 1 differ.
LEMMA CntNext ==
  ASSUME NEW ls, NEW hs, NEW hs2, NEW s \in Int, Grown(ls, hs, hs2, s), NEW k, NEW q \in Int, q <= s
  PROVE  Cnt(ls, hs2, k, q, s + 1) = Cnt(ls, hs, k, q, s) + (IF Saw(ls, hs2, k, s) THEN 1 ELSE 0)
  BY CntStep, CntStable

\* The bytes after a hit.
LEMMA AfterNext ==
  ASSUME NEW ls, NEW hs, NEW hs2, NEW s \in Int, Grown(ls, hs, hs2, s),
         \A h \in hs : LEnd(ls, h) \in Int,
         NEW k, NEW n \in Nat, After(ls, hs, k, s, n)
  PROVE  After(ls, hs2, k, s + 1, n + (IF Saw(ls, hs2, k, s) THEN 1 ELSE 0))
<1>1. PICK h \in hs : h.kw = k /\ LEnd(ls, h) < s /\ Cnt(ls, hs, k, LEnd(ls, h) + 1, s) = n
  BY DEF After
<1>2. Cnt(ls, hs2, k, LEnd(ls, h) + 1, s + 1) = n + (IF Saw(ls, hs2, k, s) THEN 1 ELSE 0)
  BY <1>1, CntNext
<1>. QED
  BY <1>1, <1>2 DEF After, Grown

\* A match that is under way is so still after a byte the list does not see.
LEMMA GoingSkips ==
  ASSUME NEW fl, NEW a \in Int, NEW ls, NEW hs, NEW hs2, NEW s \in Int, a <= s,
         Grown(ls, hs, hs2, s), \A h \in hs : LEnd(ls, h) \in Int,
         NEW k, NEW m \in Nat, Going(fl, a, ls, hs, k, s, m), ~Saw(ls, hs2, k, s)
  PROVE  Going(fl, a, ls, hs2, k, s + 1, m)
<1>1. Going(fl, a, ls, hs2, k, s, m)
  BY GoingStable
<1>2. \A q \in a .. s : Cnt(ls, hs2, k, q, s + 1) = Cnt(ls, hs2, k, q, s)
  BY CntStep, CntBound
<1>3. \A q \in a .. (s + 1) - 1 : Saw(ls, hs2, k, q) => q \in a .. s - 1
  OBVIOUS
<1>. QED
  BY <1>1, <1>2, <1>3 DEF Going

\* A byte that fits the first token, or is the second after a hit, starts one.
LEMMA GoingStarts ==
  ASSUME NEW fl, NEW a \in Int, NEW ls, NEW hs, NEW hs2, NEW s \in Int, a <= s,
         Grown(ls, hs, hs2, s), \A h \in hs : LEnd(ls, h) \in Int,
         NEW k, Saw(ls, hs2, k, s),
         Rd(fl, s) \in ls[k][1] \/ After(ls, hs, k, s, 1)
  PROVE  Going(fl, a, ls, hs2, k, s + 1, 1)
<1>1. \A q \in a .. s : /\ Cnt(ls, hs2, k, q, s + 1) = Cnt(ls, hs2, k, q, s) + 1
                        /\ Cnt(ls, hs2, k, q, s) \in Nat
  BY CntStep, CntBound
<1>2. After(ls, hs, k, s, 1) => After(ls, hs2, k, s, 1)
  BY AfterStable
<1>3. \A q \in a .. s - 1 : Saw(ls, hs2, k, q) => Cnt(ls, hs2, k, q, s) >= 1
  BY CntSeen
<1>4. ASSUME NEW q \in a .. (s + 1) - 1, Saw(ls, hs2, k, q)
      PROVE  /\ Cnt(ls, hs2, k, q, s + 1) = 1 => Rd(fl, q) \in ls[k][1] \/ After(ls, hs2, k, q, 1)
             /\ Cnt(ls, hs2, k, q, s + 1) < 1 => Rd(fl, q) \in ls[k][1 - Cnt(ls, hs2, k, q, s + 1) + 1]
  <2>1. CASE q = s
    BY <1>1, <1>2, <2>1
  <2>2. CASE q \in a .. s - 1
    BY <1>1, <1>3, <1>4, <2>2
  <2>. QED
    BY <2>1, <2>2
<1>5. Cnt(ls, hs2, k, a, s + 1) >= 1
  BY <1>1
<1>. QED
  BY <1>4, <1>5 DEF Going

\* A byte that fits the next token carries it on.
LEMMA GoingOn ==
  ASSUME NEW fl, NEW a \in Int, NEW ls, NEW hs, NEW hs2, NEW s \in Int, a <= s,
         Grown(ls, hs, hs2, s), \A h \in hs : LEnd(ls, h) \in Int,
         NEW k, NEW m \in Nat \ {0}, Going(fl, a, ls, hs, k, s, m),
         Saw(ls, hs2, k, s), Rd(fl, s) \in ls[k][m + 1]
  PROVE  Going(fl, a, ls, hs2, k, s + 1, m + 1)
<1>1. Going(fl, a, ls, hs2, k, s, m)
  BY GoingStable
<1>2. \A q \in a .. s : /\ Cnt(ls, hs2, k, q, s + 1) = Cnt(ls, hs2, k, q, s) + 1
                        /\ Cnt(ls, hs2, k, q, s) \in Nat
  BY CntStep, CntBound
<1>3. Cnt(ls, hs2, k, s, s) = 0
  BY CntBound
<1>4. ASSUME NEW q \in a .. (s + 1) - 1, Saw(ls, hs2, k, q)
      PROVE  /\ Cnt(ls, hs2, k, q, s + 1) = m + 1 => Rd(fl, q) \in ls[k][1] \/ After(ls, hs2, k, q, 1)
             /\ Cnt(ls, hs2, k, q, s + 1) < m + 1 =>
                  Rd(fl, q) \in ls[k][(m + 1) - Cnt(ls, hs2, k, q, s + 1) + 1]
  <2>1. CASE q = s
    BY <1>2, <1>3, <2>1
  <2>2. CASE q \in a .. s - 1
    <3>1. (m + 1) - (Cnt(ls, hs2, k, q, s) + 1) + 1 = m - Cnt(ls, hs2, k, q, s) + 1
      BY <1>2
    <3>. QED
      BY <1>1, <1>2, <1>4, <2>2, <3>1 DEF Going
  <2>. QED
    BY <2>1, <2>2
<1>5. Cnt(ls, hs2, k, a, s + 1) >= m + 1
  BY <1>1, <1>2 DEF Going
<1>. QED
  BY <1>4, <1>5 DEF Going

\* The state of a list that does not look at the byte.
LEMMA MeansSkips ==
  ASSUME NEW fl, NEW a \in Int, NEW ls, NEW hs, NEW hs2, NEW s \in Int, a <= s,
         Grown(ls, hs, hs2, s), \A h \in hs : LEnd(ls, h) \in Int,
         NEW k, Len(ls[k]) \in Nat, NEW e, Means(fl, a, ls, hs, k, s, e), ~Saw(ls, hs2, k, s)
  PROVE  Means(fl, a, ls, hs2, k, s + 1, e)
<1>1. ASSUME e \in 1 .. Len(ls[k]) - 1 PROVE Going(fl, a, ls, hs2, k, s + 1, e)
  BY <1>1, GoingSkips DEF Means
<1>2. ASSUME NEW n \in {0, 1}, After(ls, hs, k, s, n) PROVE After(ls, hs2, k, s + 1, n)
  <2>1. n \in Nat /\ n + 0 = n
    OBVIOUS
  <2>. QED
    BY <1>2, <2>1, AfterNext
<1>. QED
  BY <1>1, <1>2 DEF Means

\* The state of a list that looks at the byte and does not come to its end.
LEMMA MeansLooks ==
  ASSUME NEW fl, NEW a \in Int, NEW hs, NEW hs2, NEW s \in Int, a <= s,
         Grown(lists, hs, hs2, s), \A h \in hs : LEnd(lists, h) \in Int,
         NEW k, Len(lists[k]) \in Nat \ {0}, NEW e \in 0 .. Len(lists[k]) + 1,
         Means(fl, a, lists, hs, k, s, e), Saw(lists, hs2, k, s),
         NEW e2 \in Matched(k, e, Rd(fl, s)), e2 # Len(lists[k])
  PROVE  Means(fl, a, lists, hs2, k, s + 1, e2)
<1> DEFINE n == Len(lists[k])
<1>1. CASE e2 = 0
  BY <1>1 DEF Means
<1>2. CASE e2 # 0 /\ e = 0
  <2>1. e2 = 1 /\ Rd(fl, s) \in lists[k][1]
    BY <1>2 DEF Matched
  <2>2. Going(fl, a, lists, hs2, k, s + 1, 1)
    BY <2>1, GoingStarts
  <2>. QED
    BY <2>1, <2>2 DEF Means
<1>3. CASE e2 # 0 /\ e \in 1 .. n - 1
  <2>1. e2 = e + 1 /\ Rd(fl, s) \in lists[k][e + 1]
    BY <1>3 DEF Matched
  <2>2. Going(fl, a, lists, hs, k, s, e) /\ e \in Nat \ {0}
    BY <1>3 DEF Means
  <2>3. Going(fl, a, lists, hs2, k, s + 1, e + 1)
    BY <2>1, <2>2, GoingOn
  <2>. QED
    BY <1>3, <2>1, <2>3 DEF Means
<1>4. CASE e2 # 0 /\ e = n
  <2>1. e2 = n + 1
    BY <1>4 DEF Matched
  <2>2. After(lists, hs, k, s, 0) /\ 0 \in Nat /\ 0 + 1 = 1
    BY <1>4 DEF Means
  <2>3. After(lists, hs2, k, s + 1, 1)
    BY <2>2, AfterNext
  <2>. QED
    BY <2>1, <2>3 DEF Means
<1>5. CASE e2 # 0 /\ e = n + 1
  <2>1. Matched(k, e, Rd(fl, s)) = {0, 1}
    <3>1. ~(e < n) /\ e # n
      BY <1>5
    <3>. QED
      BY <1>5, <3>1 DEF Matched
  <2>4. e2 = 1 /\ n # 1
    BY <1>5, <2>1
  <2>2. After(lists, hs, k, s, 1)
    BY <1>5 DEF Means
  <2>3. Going(fl, a, lists, hs2, k, s + 1, 1)
    BY <2>2, GoingStarts
  <2>. QED
    BY <2>3, <2>4 DEF Means
<1>. QED
  BY <1>1, <1>2, <1>3, <1>4, <1>5

\* The state of a list that reports a hit.
LEMMA MeansReports ==
  ASSUME NEW fl, NEW a \in Int, NEW ls, NEW hs2, NEW s \in Int,
         NEW k, Len(ls[k]) \in Nat \ {0}, NEW h \in hs2, h.kw = k, LEnd(ls, h) = s
  PROVE  Means(fl, a, ls, hs2, k, s + 1, Len(ls[k]))
<1>1. Cnt(ls, hs2, k, s + 1, s + 1) = 0
  BY CntBound
<1>2. After(ls, hs2, k, s + 1, 0)
  BY <1>1 DEF After
<1>. QED
  BY <1>2 DEF Means

\* A hit of list k at the address at is an occurrence, when the list saw all
\* its bytes and its first is not the second one after another hit.
Genuine(fl, ls, hs, k, at) ==
  (\A r \in at .. at + Len(ls[k]) - 1 : Saw(ls, hs, k, r)) =>
    /\ Rd(fl, at) \in ls[k][1] \/ After(ls, hs, k, at, 1)
    /\ \A j \in 2 .. Len(ls[k]) : Rd(fl, at + j - 1) \in ls[k][j]

\* A list that comes to its end with the byte at s.
LEMMA EndIsGenuine ==
  ASSUME NEW fl, NEW a \in Int, NEW hs, NEW hs2, NEW s \in Int, a <= s,
         Grown(lists, hs, hs2, s), \A h \in hs : LEnd(lists, h) \in Int,
         NEW k, Len(lists[k]) \in Nat \ {0}, NEW e \in 0 .. Len(lists[k]) + 1,
         Means(fl, a, lists, hs, k, s, e),
         Len(lists[k]) \in Matched(k, e, Rd(fl, s))
  PROVE  /\ a <= s - (Len(lists[k]) - 1)
         /\ Genuine(fl, lists, hs2, k, s - (Len(lists[k]) - 1))
<1> DEFINE n == Len(lists[k])
           at == s - (n - 1)
<1>1. CASE n = 1 /\ e = 0
  <2>1. Rd(fl, s) \in lists[k][1]
    BY <1>1 DEF Matched
  <2>. QED
    BY <1>1, <2>1 DEF Genuine
<1>2. CASE n = 1 /\ e = 1
  BY <1>2 DEF Matched
<1>3. CASE n = 1 /\ e = 2
  <2>1. After(lists, hs, k, s, 1)
    BY <1>3 DEF Means
  <2>2. After(lists, hs2, k, s, 1)
    BY <2>1, AfterStable
  <2>. QED
    BY <1>3, <2>2 DEF Genuine
<1>4. CASE n > 1
  <2>1. e = n - 1 /\ Rd(fl, s) \in lists[k][n]
    BY <1>4 DEF Matched
  <2>2. Going(fl, a, lists, hs, k, s, n - 1)
    BY <1>4, <2>1 DEF Means
  <2>3. Going(fl, a, lists, hs2, k, s, n - 1)
    BY <2>2, GoingStable
  <2>4. a <= at
    BY <2>3, CntBound DEF Going
  <2>5. ASSUME \A r \in at .. at + n - 1 : Saw(lists, hs2, k, r)
        PROVE  /\ Rd(fl, at) \in lists[k][1] \/ After(lists, hs2, k, at, 1)
               /\ \A j \in 2 .. n : Rd(fl, at + j - 1) \in lists[k][j]
    <3>1. \A q \in at .. s - 1 : /\ q \in a .. s - 1 /\ Saw(lists, hs2, k, q)
                                 /\ Cnt(lists, hs2, k, q, s) = s - q
      BY <2>4, <2>5, CntSeen
    <3>2. Rd(fl, at) \in lists[k][1] \/ After(lists, hs2, k, at, 1)
      <4>1. at \in at .. s - 1 /\ s - at = n - 1
        BY <1>4
      <4>. QED
        BY <2>3, <3>1, <4>1 DEF Going
    <3>3. ASSUME NEW j \in 2 .. n PROVE Rd(fl, at + j - 1) \in lists[k][j]
      <4>1. CASE j = n
        BY <2>1, <4>1
      <4>2. CASE j < n
        <5> DEFINE q == at + j - 1
        <5>1. q \in at .. s - 1 /\ s - q = n - j /\ s - q < n - 1 /\ (n - 1) - (s - q) + 1 = j
          BY <4>2
        <5>. HIDE DEF q, at
        <5>2. Rd(fl, q) \in lists[k][(n - 1) - (s - q) + 1]
          BY <2>3, <3>1, <5>1 DEF Going
        <5>. QED
          BY <5>1, <5>2 DEF q
      <4>3. j = n \/ j < n
        OBVIOUS
      <4>. QED
        BY <4>1, <4>2, <4>3
    <3>. QED
      BY <3>2, <3>3
  <2>. QED
    BY <2>4, <2>5 DEF Genuine
<1>5. n > 1 \/ (n = 1 /\ (e = 0 \/ e = 1 \/ e = 2))
  <2>1. n \in Nat /\ n # 0
    OBVIOUS
  <2>2. e \in Int /\ 0 <= e /\ e <= n + 1
    OBVIOUS
  <2>. HIDE DEF n
  <2>. QED
    BY <2>1, <2>2
<1>. QED
  BY <1>1, <1>2, <1>3, <1>4, <1>5

\* A hit stays genuine.
LEMMA GenuineStable ==
  ASSUME NEW fl, NEW ls, NEW hs, NEW hs2, NEW s \in Int, Grown(ls, hs, hs2, s),
         \A h \in hs : LEnd(ls, h) \in Int, NEW k, Len(ls[k]) \in Nat \ {0},
         NEW at \in Int, at + Len(ls[k]) - 1 < s, Genuine(fl, ls, hs, k, at)
  PROVE  Genuine(fl, ls, hs2, k, at)
<1>1. \A r \in at .. at + Len(ls[k]) - 1 : Saw(ls, hs2, k, r) <=> Saw(ls, hs, k, r)
  BY SawStable
<1>2. After(ls, hs, k, at, 1) => After(ls, hs2, k, at, 1)
  BY AfterStable
<1>. QED
  BY <1>1, <1>2 DEF Genuine

-----------------------------------------------------------------------------
(***************************************************************************)
(* The inductive invariant.                                                *)
(***************************************************************************)
Typed ==
  /\ TypeOK
  /\ cur \in [from : Nat, to : Nat] /\ todo \in Seq([from : Nat, to : Nat])
  /\ tmp \in Nat /\ nhit \in Nat /\ scanned \in Nat /\ count \in Nat

\* Where the search is: the bytes given to the lists end at the byte that is
\* next, or, after ^C, before the end of the block.
Placed ==
  /\ cur.from <= scanned
  /\ pc = "byte" => scanned = seek + i
  /\ pc = "block" => /\ scanned <= seek /\ seek <= scanned + BlockSize
                     /\ ~interrupted => scanned = seek
  /\ pc = "prompt" => scanned = cur.from /\ hits = {} /\ lists = NoLists

HitsPlaced ==
  \A h \in hits : /\ h.kw \in Lists /\ h.at \in Nat /\ cur.from <= h.at
                  /\ LEnd(lists, h) < scanned /\ h.n \in 1 .. nhit

StatesMean == \A k \in Lists : Means(file, cur.from, lists, hits, k, scanned, estat[k])

HitsGenuine == \A h \in hits : Genuine(file, lists, hits, h.kw, h.at)

FlagsLead ==
  \A h \in hits :
    /\ <<h.kw, h.n>> \in DOMAIN flags /\ flags[<<h.kw, h.n>>] = h.at
    /\ \A g \in hits : (g.n < h.n => LEnd(lists, g) < LEnd(lists, h)) /\ (g.n = h.n => g = h)

\* Every hit before the one /n goes to has its flag.
FlagsBefore == \A j \in 1 .. hit_idx - 1 : <<1, j>> \in DOMAIN flags

\* List k was not waiting for the first token when it came to the address at.
Busy(fl, a, ls, hs, k, at) ==
  \/ \E m \in 1 .. Len(ls[k]) - 1 : Going(fl, a, ls, hs, k, at, m)
  \/ After(ls, hs, k, at, 0)
  \/ After(ls, hs, k, at, 1)

\* The bytes from at up to s are seen, and match the keyword as far as it
\* goes.
Fits(fl, ls, hs, k, at, s) ==
  \A j \in 1 .. Len(ls[k]) : at + j - 1 < s =>
    Rd(fl, at + j - 1) \in ls[k][j] /\ Saw(ls, hs, k, at + j - 1)

Answered(k, at) ==
  \/ \E h \in hits : h.kw = k /\ h.at = at
  \/ align # 0 /\ at % align # 0
  \/ count # 0 /\ nhit >= count

\* What fits so far is being matched, or it was reported or refused.
FitsFollowed ==
  \A k \in Lists : \A at \in cur.from .. scanned :
    Fits(file, lists, hits, k, at, scanned) =>
      \/ Busy(file, cur.from, lists, hits, k, at)
      \/ scanned - at < Len(lists[k]) /\ estat[k] = scanned - at
      \/ scanned - at >= Len(lists[k]) /\ Answered(k, at)

IInv ==
  /\ Typed /\ Placed /\ HitsPlaced /\ StatesMean /\ HitsGenuine /\ FlagsLead /\ FlagsBefore
  /\ FitsFollowed

\* The keywords in use.
LEMMA ListsTyped ==
  ASSUME Typed
  PROVE  /\ Lists = 1 .. Len(lists) /\ Len(lists) \in Nat
         /\ \A k \in Lists : Len(lists[k]) \in Nat \ {0} /\ estat[k] \in 0 .. Len(lists[k]) + 1
<1>1. lists \in Seq(Keyword) /\ \A k \in Lists : estat[k] \in 0 .. Len(lists[k]) + 1
  BY DEF Typed, TypeOK
<1>2. \A k \in Lists : lists[k] \in Keyword
  BY <1>1 DEF Lists
<1>3. \A w \in Keyword : Len(w) \in Nat \ {0}
  <2> SUFFICES ASSUME NEW w \in Keyword PROVE Len(w) \in Nat \ {0}
    OBVIOUS
  <2>1. w \in Seq(SUBSET Byte) /\ Len(w) \in 1 .. MaxTokens
    BY SearchAssumption
  <2>2. Len(w) \in Nat
    BY <2>1
  <2>3. Len(w) # 0
    BY <2>1, <2>2
  <2>. QED
    BY <2>2, <2>3
<1>. QED
  BY <1>1, <1>2, <1>3 DEF Lists

LEMMA HitEnds ==
  ASSUME Typed, HitsPlaced
  PROVE  \A h \in hits : LEnd(lists, h) \in Int
  BY ListsTyped DEF HitsPlaced, LEnd

LEMMA SearchInitHolds == Init => IInv
<1> SUFFICES ASSUME Init PROVE IInv
  OBVIOUS
<1>. USE SearchAssumption
<1>1. Typed
  BY DEF Init, Typed, TypeOK, NoLists, NoRange, EmptyFlags, Lists
<1>2. Placed
  BY DEF Init, Placed, NoRange
<1>3. HitsPlaced /\ HitsGenuine /\ FlagsLead
  BY DEF Init, HitsPlaced, HitsGenuine, FlagsLead
<1>4. StatesMean /\ FitsFollowed
  BY DEF Init, StatesMean, FitsFollowed, Lists, NoLists
<1>5. FlagsBefore
  BY DEF Init, FlagsBefore
<1>. QED
  BY <1>1, <1>2, <1>3, <1>4, <1>5 DEF IInv

-----------------------------------------------------------------------------
(***************************************************************************)
(* update_tlist.                                                           *)
(***************************************************************************)
NewHit(k) == [kw |-> k, at |-> Where(k, scanned), n |-> nhit + 1]

\* What the byte at scanned does: no list reports a hit,
Silent == hits' = hits /\ nhit' = nhit /\ flags' = flags

\* or list f does.
Reports(f) ==
  /\ hits' = hits \union {NewHit(f)} /\ nhit' = nhit + 1 /\ flags' = FlagSet(f, Where(f, scanned))

\* List k, which comes to e when it looks at the byte: it does not look, it
\* goes on, it comes to its end and is refused, or it comes to its end and
\* reports.
Treated(k, e) ==
  \/ ~Saw(lists, hits', k, scanned) /\ estat'[k] = estat[k]
  \/ Saw(lists, hits', k, scanned) /\ e # Len(lists[k]) /\ estat'[k] = e
  \/ /\ Saw(lists, hits', k, scanned) /\ e = Len(lists[k]) /\ estat'[k] = 0
     /\ Refused(Where(k, scanned))
  \/ /\ Saw(lists, hits', k, scanned) /\ e = Len(lists[k]) /\ estat'[k] = e
     /\ NewHit(k) \in hits'

LEMMA ByteTreated ==
  ASSUME Typed, Placed, HitsPlaced, update_tlist
  PROVE  \E e \in [Lists -> 0 .. MaxTokens + 2] :
           /\ \A k \in Lists : /\ e[k] \in Matched(k, estat[k], Rd(file, scanned))
                               /\ Treated(k, e[k])
           /\ \/ Silent
              \/ \E f \in Lists : Reports(f) /\ e[f] = Len(lists[f])
<1>1. seek + i = scanned
  BY DEF update_tlist, Placed
<1>2. radare_read(scanned) = Rd(file, scanned)
  BY DEF radare_read, Rd
<1> DEFINE rep(e) == {k \in Lists : e[k] = Len(lists[k]) /\ ~Refused(Where(k, scanned))}
<1>3. PICK e \in Looks(scanned) :
        IF rep(e) = {}
        THEN /\ estat' = [k \in Lists |-> Settled(k, e[k])] /\ UNCHANGED <<nhit, hits, flags>>
        ELSE \E f \in rep(e) :
               /\ \A l \in rep(e) : f <= l
               /\ estat' = [k \in Lists |-> IF k < f THEN Settled(k, e[k])
                                            ELSE IF k = f THEN e[k] ELSE estat[k]]
               /\ nhit' = nhit + 1
               /\ hits' = hits \union {[kw |-> f, at |-> Where(f, scanned), n |-> nhit + 1]}
               /\ flags' = FlagSet(f, Where(f, scanned))
  <2>1. update_tlist => \E e \in Looks(seek + i) :
              LET reporting == {k \in Lists : e[k] = Len(lists[k]) /\ ~Refused(Where(k, seek + i))}
              IN  IF reporting = {}
                  THEN /\ estat' = [k \in Lists |-> Settled(k, e[k])]
                       /\ UNCHANGED <<nhit, hits, flags>>
                  ELSE \E f \in reporting :
                         /\ \A l \in reporting : f <= l
                         /\ estat' = [k \in Lists |-> IF k < f THEN Settled(k, e[k])
                                                      ELSE IF k = f THEN e[k] ELSE estat[k]]
                         /\ nhit' = nhit + 1
                         /\ hits' = hits \union {[kw |-> f, at |-> Where(f, seek + i), n |-> nhit + 1]}
                         /\ flags' = FlagSet(f, Where(f, seek + i))
    BY DEF update_tlist
  <2>. QED
    BY <2>1, <1>1
<1>4. e \in [Lists -> 0 .. MaxTokens + 2]
      /\ \A k \in Lists : e[k] \in Matched(k, estat[k], Rd(file, scanned))
  BY <1>2 DEF Looks
<1>5. \A k \in Lists : k \in Int
  BY ListsTyped
<1>6. \A h \in hits : LEnd(lists, h) \in Int /\ LEnd(lists, h) < scanned /\ scanned \in Int
  BY HitEnds DEF HitsPlaced, Typed
<1>7. \A k : Saw(lists, hits, k, scanned)
  BY <1>6 DEF Saw
<1>8. CASE rep(e) = {}
  <2>1. Silent /\ estat' = [k \in Lists |-> Settled(k, e[k])]
    BY <1>3, <1>8 DEF Silent
  <2>2. ASSUME NEW k \in Lists PROVE Treated(k, e[k])
    <3>1. Saw(lists, hits', k, scanned)
      BY <1>7, <2>1 DEF Silent
    <3>2. estat'[k] = Settled(k, e[k])
      BY <2>1
    <3>3. CASE e[k] = Len(lists[k])
      <4>1. Refused(Where(k, scanned))
        BY <1>8, <3>3
      <4>. QED
        BY <3>1, <3>2, <3>3, <4>1 DEF Treated, Settled
    <3>4. CASE e[k] # Len(lists[k])
      BY <3>1, <3>2, <3>4 DEF Treated, Settled
    <3>. QED
      BY <3>3, <3>4
  <2>. QED
    BY <1>4, <2>1, <2>2
<1>9. CASE rep(e) # {}
  <2>1. PICK f \in rep(e) :
               /\ \A l \in rep(e) : f <= l
               /\ estat' = [k \in Lists |-> IF k < f THEN Settled(k, e[k])
                                            ELSE IF k = f THEN e[k] ELSE estat[k]]
               /\ nhit' = nhit + 1
               /\ hits' = hits \union {[kw |-> f, at |-> Where(f, scanned), n |-> nhit + 1]}
               /\ flags' = FlagSet(f, Where(f, scanned))
    BY <1>3, <1>9
  <2>2. f \in Lists /\ Reports(f) /\ e[f] = Len(lists[f])
    BY <2>1 DEF Reports, NewHit
  <2>3. LEnd(lists, NewHit(f)) = scanned /\ NewHit(f).kw = f
    <3>1. Len(lists[f]) \in Nat /\ scanned \in Int
      BY <2>2, ListsTyped DEF Typed
    <3>2. NewHit(f).kw = f /\ NewHit(f).at = scanned - (Len(lists[f]) - 1)
      BY DEF NewHit, Where
    <3>. QED
      BY <3>1, <3>2 DEF LEnd
  <2>4. \A k \in Lists : Saw(lists, hits', k, scanned) <=> ~(f < k)
    BY <1>7, <2>2, <2>3 DEF Saw, Reports
  <2>5. ASSUME NEW k \in Lists PROVE Treated(k, e[k])
    <3>1. estat'[k] = IF k < f THEN Settled(k, e[k]) ELSE IF k = f THEN e[k] ELSE estat[k]
      BY <2>1
    <3>2. CASE k < f
      <4>1. Saw(lists, hits', k, scanned) /\ estat'[k] = Settled(k, e[k])
        BY <1>5, <2>2, <2>4, <3>1, <3>2
      <4>2. k \notin rep(e)
        BY <1>5, <2>1, <2>2, <3>2
      <4>3. e[k] = Len(lists[k]) => Refused(Where(k, scanned))
        BY <4>2
      <4>. QED
        BY <4>1, <4>3 DEF Treated, Settled
    <3>3. CASE k = f
      <4>1. Saw(lists, hits', k, scanned) /\ estat'[k] = e[k]
        BY <1>5, <2>2, <2>4, <3>1, <3>3
      <4>2. NewHit(k) \in hits'
        BY <2>2, <3>3 DEF Reports
      <4>. QED
        BY <2>2, <3>3, <4>1, <4>2 DEF Treated
    <3>4. CASE f < k
      BY <1>5, <2>2, <2>4, <3>1, <3>4 DEF Treated
    <3>. QED
      BY <1>5, <2>2, <3>2, <3>3, <3>4
  <2>. QED
    BY <1>4, <2>2, <2>5
<1>. QED
  BY <1>8, <1>9

LEMMA MatchedTyped ==
  ASSUME NEW k, Len(lists[k]) \in Nat \ {0}, NEW e \in 0 .. Len(lists[k]) + 1, NEW c,
         NEW e2 \in Matched(k, e, c)
  PROVE  e2 \in 0 .. Len(lists[k]) + 1
<1> DEFINE n == Len(lists[k])
<1>1. n \in Nat /\ n # 0 /\ e \in Int /\ 0 <= e /\ e <= n + 1
  OBVIOUS
<1>2. CASE e < n
  BY <1>1, <1>2 DEF Matched
<1>3. CASE e = n
  BY <1>1, <1>3 DEF Matched
<1>4. CASE e = n + 1
  <2>1. ~(e < n) /\ e # n
    BY <1>1, <1>4
  <2>2. Matched(k, e, c) = {0, 1}
    BY <1>4, <2>1 DEF Matched
  <2>. QED
    BY <1>1, <2>2
<1>. QED
  BY <1>1, <1>2, <1>3, <1>4

LEMMA BusyStable ==
  ASSUME NEW fl, NEW a \in Int, NEW ls, NEW hs, NEW hs2, NEW s \in Int, Grown(ls, hs, hs2, s),
         \A h \in hs : LEnd(ls, h) \in Int,
         NEW k, NEW at \in Int, at <= s, Busy(fl, a, ls, hs, k, at)
  PROVE  Busy(fl, a, ls, hs2, k, at)
<1>1. \A m \in 1 .. Len(ls[k]) - 1 : Going(fl, a, ls, hs, k, at, m) => Going(fl, a, ls, hs2, k, at, m)
  BY GoingStable
<1>2. \A n : After(ls, hs, k, at, n) => After(ls, hs2, k, at, n)
  BY AfterStable
<1>. QED
  BY <1>1, <1>2 DEF Busy

\* The state of a list says whether it is busy with the next byte.
LEMMA MeansBusy ==
  ASSUME NEW fl, NEW a, NEW ls, NEW hs, NEW s, NEW k, Len(ls[k]) \in Nat \ {0},
         NEW e \in 0 .. Len(ls[k]) + 1, Means(fl, a, ls, hs, k, s, e)
  PROVE  e = 0 \/ Busy(fl, a, ls, hs, k, s)
<1> DEFINE n == Len(ls[k])
<1>1. n \in Nat /\ n # 0 /\ e \in Int /\ 0 <= e /\ e <= n + 1
  OBVIOUS
<1>2. CASE e \in 1 .. n - 1
  BY <1>2 DEF Means, Busy
<1>3. CASE e = n
  BY <1>3 DEF Means, Busy
<1>4. CASE e = n + 1
  BY <1>4 DEF Means, Busy
<1>. HIDE DEF n
<1>5. e = 0 \/ e \in 1 .. n - 1 \/ e = n \/ e = n + 1
  BY <1>1
<1>. QED
  BY <1>2, <1>3, <1>4, <1>5

\* What the byte does to the numbers, the flags and the states.
LEMMA ByteFacts ==
  ASSUME IInv, update_tlist
  PROVE  /\ pc = "byte" /\ ~interrupted /\ i < BlockSize /\ scanned = seek + i
         /\ scanned' = scanned + 1 /\ i' = i + 1
         /\ pc' = pc /\ lists' = lists /\ align' = align /\ count' = count /\ todo' = todo
         /\ cur' = cur /\ file' = file /\ tmp' = tmp /\ hit_idx' = hit_idx /\ seek' = seek
         /\ interrupted' = interrupted
         /\ scanned \in Int /\ cur.from \in Int /\ cur.from <= scanned
         /\ \A h \in hits : LEnd(lists, h) \in Int
<1>1. Typed /\ Placed /\ HitsPlaced
  BY DEF IInv
<1>2. /\ pc = "byte" /\ ~interrupted /\ i < BlockSize
      /\ scanned' = (seek + i) + 1 /\ i' = i + 1
      /\ pc' = pc /\ lists' = lists /\ align' = align /\ count' = count /\ todo' = todo
      /\ cur' = cur /\ file' = file /\ tmp' = tmp /\ hit_idx' = hit_idx /\ seek' = seek
      /\ interrupted' = interrupted
  BY DEF update_tlist, range, session
<1>3. scanned = seek + i /\ cur.from <= scanned
  BY <1>1, <1>2 DEF Placed
<1>4. scanned \in Int /\ cur.from \in Int
  BY <1>1 DEF Typed
<1>5. \A h \in hits : LEnd(lists, h) \in Int
  BY <1>1, HitEnds
<1>. QED
  BY <1>2, <1>3, <1>4, <1>5

LEMMA NewHitFacts ==
  ASSUME IInv, update_tlist, NEW f \in Lists, Reports(f),
         Len(lists[f]) \in Matched(f, estat[f], Rd(file, scanned))
  PROVE  /\ Grown(lists, hits, hits', scanned)
         /\ NewHit(f).kw = f /\ NewHit(f).n = nhit + 1
         /\ NewHit(f).at = Where(f, scanned)
         /\ Where(f, scanned) \in Nat /\ cur.from <= Where(f, scanned)
         /\ LEnd(lists, NewHit(f)) = scanned
         /\ Genuine(file, lists, hits', f, Where(f, scanned))
<1>1. Typed /\ StatesMean
  BY DEF IInv
<1>2. Len(lists[f]) \in Nat \ {0} /\ estat[f] \in 0 .. Len(lists[f]) + 1
  BY <1>1, ListsTyped
<1>3. NewHit(f).kw = f /\ NewHit(f).at = Where(f, scanned) /\ NewHit(f).n = nhit + 1
  BY DEF NewHit
<1>4. Where(f, scanned) = scanned - (Len(lists[f]) - 1)
  BY DEF Where
<1>5. LEnd(lists, NewHit(f)) = scanned
  BY <1>2, <1>3, <1>4, ByteFacts DEF LEnd
<1>6. Grown(lists, hits, hits', scanned)
  BY <1>5 DEF Grown, Reports
<1>7. Means(file, cur.from, lists, hits, f, scanned, estat[f])
  BY <1>1 DEF StatesMean
<1>8. /\ cur.from <= scanned - (Len(lists[f]) - 1)
      /\ Genuine(file, lists, hits', f, scanned - (Len(lists[f]) - 1))
  BY <1>2, <1>6, <1>7, ByteFacts, EndIsGenuine
<1>9. Where(f, scanned) \in Nat
  <2>1. cur.from \in Nat /\ scanned \in Nat
    BY <1>1 DEF Typed
  <2> DEFINE n == Len(lists[f])
  <2>2. n \in Nat /\ cur.from <= scanned - (n - 1)
    BY <1>2, <1>8
  <2>. HIDE DEF n
  <2>3. scanned - (n - 1) \in Nat
    BY <2>1, <2>2
  <2>. QED
    BY <1>4, <2>3 DEF n
<1>. QED
  BY <1>3, <1>4, <1>5, <1>6, <1>8, <1>9

LEMMA ByteKeepsHits ==
  ASSUME IInv, update_tlist
  PROVE  /\ Typed' /\ Placed' /\ HitsPlaced' /\ HitsGenuine' /\ FlagsLead' /\ FlagsBefore'
<1>1. Typed /\ Placed /\ HitsPlaced /\ HitsGenuine /\ FlagsLead /\ FlagsBefore
  BY DEF IInv
<1>2. PICK e \in [Lists -> 0 .. MaxTokens + 2] :
           /\ \A k \in Lists : /\ e[k] \in Matched(k, estat[k], Rd(file, scanned))
                               /\ Treated(k, e[k])
           /\ \/ Silent
              \/ \E f \in Lists : Reports(f) /\ e[f] = Len(lists[f])
  BY <1>1, ByteTreated
<1>3. /\ scanned' = scanned + 1 /\ i' = i + 1 /\ i < BlockSize
      /\ pc' = pc /\ lists' = lists /\ todo' = todo /\ pc = "byte" /\ ~interrupted
      /\ cur' = cur /\ file' = file /\ tmp' = tmp /\ hit_idx' = hit_idx /\ seek' = seek
      /\ count' = count /\ interrupted' = interrupted /\ scanned = seek + i
      /\ scanned \in Int /\ cur.from \in Int /\ cur.from <= scanned
      /\ \A h \in hits : LEnd(lists, h) \in Int
  BY ByteFacts
<1>4. \A k \in Lists : estat'[k] \in 0 .. Len(lists[k]) + 1
  <2> SUFFICES ASSUME NEW k \in Lists PROVE estat'[k] \in 0 .. Len(lists[k]) + 1
    OBVIOUS
  <2>1. Len(lists[k]) \in Nat \ {0} /\ estat[k] \in 0 .. Len(lists[k]) + 1
    BY <1>1, ListsTyped
  <2>2. e[k] \in 0 .. Len(lists[k]) + 1
    BY <1>2, <2>1, MatchedTyped
  <2>3. estat'[k] \in {estat[k], e[k], 0}
    BY <1>2 DEF Treated
  <2>. QED
    BY <2>1, <2>2, <2>3
<1>5. Placed'
  <2>1. seek \in Nat /\ i \in Nat /\ scanned \in Nat
    BY <1>1, SearchAssumption DEF Typed, TypeOK
  <2>. QED
    BY <1>1, <1>3, <2>1 DEF Placed
<1>6. FlagsBefore /\ DOMAIN flags \subseteq DOMAIN flags' => FlagsBefore'
  BY <1>3 DEF FlagsBefore
<1>7. ASSUME /\ DOMAIN flags' \subseteq (1 .. MaxLists) \X (Nat \ {0})
             /\ \A x \in DOMAIN flags' : flags'[x] \in Nat
             /\ nhit' \in Nat
      PROVE  Typed'
  <2>1. i' \in 0 .. BlockSize
    BY <1>1, <1>3, SearchAssumption DEF Typed, TypeOK
  <2>2. scanned' \in Nat
    BY <1>1, <1>3 DEF Typed
  <2>3. TypeOK'
    BY <1>1, <1>3, <1>4, <1>7, <2>1 DEF Typed, TypeOK, Lists
  <2>. QED
    BY <1>1, <1>3, <1>7, <2>2, <2>3 DEF Typed
<1>8. CASE Silent
  <2>1. hits' = hits /\ nhit' = nhit /\ flags' = flags
    BY <1>8 DEF Silent
  <2>2. Typed'
    BY <1>1, <1>7, <2>1 DEF Typed, TypeOK
  <2>3. HitsPlaced'
    BY <1>1, <1>3, <2>1 DEF HitsPlaced, Lists
  <2>4. HitsGenuine'
    BY <1>1, <1>3, <2>1 DEF HitsGenuine
  <2>5. FlagsLead'
    BY <1>1, <1>3, <2>1 DEF FlagsLead
  <2>. QED
    BY <1>1, <1>5, <1>6, <2>1, <2>2, <2>3, <2>4, <2>5
<1>9. CASE \E f \in Lists : Reports(f) /\ e[f] = Len(lists[f])
  <2>1. PICK f \in Lists : Reports(f) /\ e[f] = Len(lists[f])
    BY <1>9
  <2> DEFINE w == Where(f, scanned)
             new == NewHit(f)
  <2>2. /\ Grown(lists, hits, hits', scanned)
        /\ new.kw = f /\ new.n = nhit + 1 /\ new.at = w
        /\ w \in Nat /\ cur.from <= w /\ LEnd(lists, new) = scanned
        /\ Genuine(file, lists, hits', f, w)
    BY <1>2, <2>1, NewHitFacts
  <2>3. hits' = hits \union {new} /\ nhit' = nhit + 1 /\ flags' = With(<<f, nhit + 1>>, w)
    BY <2>1 DEF Reports, FlagSet
  <2>. HIDE DEF w, new
  <2>4. /\ DOMAIN flags' = DOMAIN flags \union {<<f, nhit + 1>>} /\ flags'[<<f, nhit + 1>>] = w
        /\ \A x \in DOMAIN flags : x # <<f, nhit + 1>> => flags'[x] = flags[x]
    BY <2>3 DEF With
  <2>5. nhit \in Nat /\ f \in 1 .. MaxLists
    <3>1. f \in 1 .. Len(lists) /\ Len(lists) \in Nat
      BY <1>1, ListsTyped
    <3>2. Len(lists) <= MaxLists /\ nhit \in Nat
      BY <1>1 DEF Typed, TypeOK
    <3>. QED
      BY <3>1, <3>2, SearchAssumption
  <2>6. Typed'
    <3>1. DOMAIN flags' \subseteq (1 .. MaxLists) \X (Nat \ {0})
      BY <1>1, <2>4, <2>5 DEF Typed, TypeOK
    <3>2. \A x \in DOMAIN flags' : flags'[x] \in Nat
      BY <1>1, <2>2, <2>4 DEF Typed, TypeOK
    <3>. QED
      BY <1>7, <2>3, <2>5, <3>1, <3>2
  <2>7. HitsPlaced'
    BY <1>1, <1>3, <2>2, <2>3, <2>5 DEF HitsPlaced, Lists
  <2>8. HitsGenuine'
    <3> SUFFICES ASSUME NEW h \in hits' PROVE Genuine(file, lists, hits', h.kw, h.at)
      BY <1>3 DEF HitsGenuine
    <3>1. CASE h = new
      BY <2>2, <3>1
    <3>2. CASE h \in hits
      <4>1. /\ h.kw \in Lists /\ h.at \in Int /\ LEnd(lists, h) < scanned
            /\ Genuine(file, lists, hits, h.kw, h.at)
        BY <1>1, <3>2 DEF HitsPlaced, HitsGenuine
      <4>2. Len(lists[h.kw]) \in Nat \ {0}
        BY <1>1, <4>1, ListsTyped
      <4>. QED
        BY <1>3, <2>2, <4>1, <4>2, GenuineStable DEF LEnd
    <3>. QED
      BY <2>3, <3>1, <3>2
  <2>9. FlagsLead'
    <3>1. ASSUME NEW h \in hits' PROVE <<h.kw, h.n>> \in DOMAIN flags' /\ flags'[<<h.kw, h.n>>] = h.at
      <4>1. CASE h = new
        BY <2>2, <2>4, <4>1
      <4>2. CASE h \in hits
        <5>1. h.n # nhit + 1
          BY <1>1, <2>5, <4>2 DEF HitsPlaced
        <5>2. <<h.kw, h.n>> # <<f, nhit + 1>>
          BY <5>1
        <5>. QED
          BY <1>1, <2>4, <4>2, <5>2 DEF FlagsLead
      <4>. QED
        BY <2>3, <4>1, <4>2
    <3>2. ASSUME NEW h \in hits', NEW g \in hits'
          PROVE  (g.n < h.n => LEnd(lists, g) < LEnd(lists, h)) /\ (g.n = h.n => g = h)
      <4>1. \A x \in hits : x.n \in Nat /\ x.n <= nhit /\ LEnd(lists, x) < scanned
        BY <1>1 DEF HitsPlaced
      <4>2. CASE h \in hits /\ g \in hits
        BY <1>1, <4>2 DEF FlagsLead
      <4>3. CASE h = new /\ g \in hits
        BY <2>2, <2>5, <4>1, <4>3
      <4>4. CASE h \in hits /\ g = new
        BY <2>2, <2>5, <4>1, <4>4
      <4>5. CASE h = new /\ g = new
        BY <2>2, <2>5, <4>5
      <4>. QED
        BY <2>3, <4>2, <4>3, <4>4, <4>5
    <3>. QED
      BY <1>3, <3>1, <3>2 DEF FlagsLead
  <2>. QED
    BY <1>1, <1>5, <1>6, <2>4, <2>6, <2>7, <2>8, <2>9
<1>. QED
  BY <1>2, <1>8, <1>9

LEMMA ByteKeepsStates ==
  ASSUME IInv, update_tlist
  PROVE  /\ Grown(lists, hits, hits', scanned)
         /\ StatesMean'
<1>1. Typed /\ Placed /\ HitsPlaced /\ StatesMean
  BY DEF IInv
<1>2. PICK e \in [Lists -> 0 .. MaxTokens + 2] :
           /\ \A k \in Lists : /\ e[k] \in Matched(k, estat[k], Rd(file, scanned))
                               /\ Treated(k, e[k])
           /\ \/ Silent
              \/ \E f \in Lists : Reports(f) /\ e[f] = Len(lists[f])
  BY <1>1, ByteTreated
<1>3. /\ scanned' = scanned + 1 /\ lists' = lists /\ cur' = cur /\ file' = file
      /\ scanned \in Int /\ cur.from \in Int /\ cur.from <= scanned
      /\ \A h \in hits : LEnd(lists, h) \in Int
  BY ByteFacts
<1>4. Grown(lists, hits, hits', scanned)
  <2>1. Silent => Grown(lists, hits, hits', scanned)
    BY DEF Silent, Grown
  <2>2. ASSUME NEW f \in Lists, Reports(f), e[f] = Len(lists[f])
        PROVE  Grown(lists, hits, hits', scanned)
    BY <1>2, <2>2, NewHitFacts
  <2>. QED
    BY <1>2, <2>1, <2>2
<1>5. ASSUME NEW k \in Lists PROVE Means(file, cur.from, lists, hits', k, scanned + 1, estat'[k])
  <2>1. Len(lists[k]) \in Nat \ {0} /\ estat[k] \in 0 .. Len(lists[k]) + 1
    BY <1>1, ListsTyped
  <2>2. Means(file, cur.from, lists, hits, k, scanned, estat[k])
    BY <1>1 DEF StatesMean
  <2>3. e[k] \in Matched(k, estat[k], Rd(file, scanned)) /\ Treated(k, e[k])
    BY <1>2
  <2>4. CASE ~Saw(lists, hits', k, scanned) /\ estat'[k] = estat[k]
    BY <1>3, <1>4, <2>1, <2>2, <2>4, MeansSkips
  <2>5. CASE Saw(lists, hits', k, scanned) /\ e[k] # Len(lists[k]) /\ estat'[k] = e[k]
    BY <1>3, <1>4, <2>1, <2>2, <2>3, <2>5, MeansLooks
  <2>6. CASE estat'[k] = 0
    BY <2>1, <2>6 DEF Means
  <2>7. CASE e[k] = Len(lists[k]) /\ estat'[k] = e[k] /\ NewHit(k) \in hits'
    <3>1. NewHit(k).kw = k /\ NewHit(k).at = scanned - (Len(lists[k]) - 1)
      BY DEF NewHit, Where
    <3>2. LEnd(lists, NewHit(k)) = scanned
      BY <1>3, <2>1, <3>1 DEF LEnd
    <3>. QED
      BY <1>3, <2>1, <2>7, <3>1, <3>2, MeansReports
  <2>. QED
    BY <2>3, <2>4, <2>5, <2>6, <2>7 DEF Treated
<1>. QED
  BY <1>3, <1>4, <1>5 DEF StatesMean, Lists

LEMMA ByteKeepsFits ==
  ASSUME IInv, update_tlist, Typed', StatesMean'
  PROVE  FitsFollowed'
<1>1. Typed /\ Placed /\ HitsPlaced /\ FitsFollowed
  BY DEF IInv
<1>2. PICK e \in [Lists -> 0 .. MaxTokens + 2] :
           /\ \A k \in Lists : /\ e[k] \in Matched(k, estat[k], Rd(file, scanned))
                               /\ Treated(k, e[k])
           /\ \/ Silent
              \/ \E f \in Lists : Reports(f) /\ e[f] = Len(lists[f])
  BY <1>1, ByteTreated
<1>3. /\ scanned' = scanned + 1 /\ lists' = lists /\ cur' = cur /\ file' = file
      /\ align' = align /\ count' = count
      /\ scanned \in Int /\ cur.from \in Int /\ cur.from <= scanned
      /\ \A h \in hits : LEnd(lists, h) \in Int
  BY ByteFacts
<1>4. Grown(lists, hits, hits', scanned)
  BY ByteKeepsStates
<1>5. nhit \in Nat /\ nhit' \in Nat /\ nhit' >= nhit
  BY <1>1, <1>2 DEF Typed, Silent, Reports
<1> DEFINE s == scanned
           Ans(k, at) == \/ \E h \in hits' : h.kw = k /\ h.at = at
                         \/ align # 0 /\ at % align # 0
                         \/ count # 0 /\ nhit' >= count
<1>6. \A k, at : Answered(k, at) => Ans(k, at)
  <2>1. count \in Nat
    BY <1>1 DEF Typed
  <2>. QED
    BY <1>4, <1>5, <2>1 DEF Answered, Grown
<1>7. ASSUME NEW k \in Lists, NEW at \in cur.from .. s + 1,
             Fits(file, lists, hits', k, at, s + 1)
      PROVE  \/ Busy(file, cur.from, lists, hits', k, at)
             \/ (s + 1) - at < Len(lists[k]) /\ estat'[k] = (s + 1) - at
             \/ (s + 1) - at >= Len(lists[k]) /\ Ans(k, at)
  <2> DEFINE n == Len(lists[k])
  <2>1. n \in Nat \ {0} /\ estat[k] \in 0 .. n + 1
    BY <1>1, ListsTyped
  <2>2. estat'[k] \in 0 .. n + 1
    BY <1>3 DEF Typed, TypeOK, Lists
  <2>3. Means(file, cur.from, lists, hits', k, s + 1, estat'[k])
    BY <1>3 DEF StatesMean, Lists
  <2>4. CASE at = s + 1
    <3>1. estat'[k] = 0 \/ Busy(file, cur.from, lists, hits', k, s + 1)
      BY <2>1, <2>2, <2>3, MeansBusy
    <3>. QED
      BY <1>3, <2>1, <2>4, <3>1
  <2>5. CASE at \in cur.from .. s
    <3>1. Fits(file, lists, hits, k, at, s)
      <4> SUFFICES ASSUME NEW j \in 1 .. Len(lists[k]), at + j - 1 < s
                   PROVE  Rd(file, at + j - 1) \in lists[k][j] /\ Saw(lists, hits, k, at + j - 1)
        BY DEF Fits
      <4>1. at + j - 1 \in Int /\ at + j - 1 < s + 1
        BY <1>3, <2>5
      <4>2. Rd(file, at + j - 1) \in lists[k][j] /\ Saw(lists, hits', k, at + j - 1)
        BY <1>7, <4>1 DEF Fits
      <4>. QED
        BY <1>3, <1>4, <4>1, <4>2, SawStable
    <3>2. CASE Busy(file, cur.from, lists, hits, k, at)
      BY <1>3, <1>4, <2>5, <3>2, BusyStable
    <3>3. CASE s - at >= n /\ Answered(k, at)
      BY <1>3, <1>6, <2>1, <2>5, <3>3
    <3>4. CASE s - at < n /\ estat[k] = s - at
      <4>1. /\ (s - at) + 1 \in 1 .. n /\ at + ((s - at) + 1) - 1 = s /\ s < s + 1
        BY <1>3, <2>1, <2>5, <3>4
      <4>2. Rd(file, s) \in lists[k][(s - at) + 1] /\ Saw(lists, hits', k, s)
        BY <1>7, <4>1 DEF Fits
      <4>3. e[k] = (s - at) + 1
        BY <1>2, <2>1, <3>4, <4>2 DEF Matched
      <4>4. CASE e[k] # n /\ estat'[k] = e[k]
        BY <1>3, <2>1, <2>5, <3>4, <4>3, <4>4
      <4>5. CASE e[k] = n /\ Refused(Where(k, s))
        <5>1. Where(k, s) = at /\ (s + 1) - at >= n
          BY <1>3, <2>1, <2>5, <4>3, <4>5 DEF Where
        <5>2. Answered(k, at)
          <6>1. Refused(at)
            BY <4>5, <5>1
          <6>. QED
            BY <6>1 DEF Refused, Answered
        <5>. QED
          BY <1>6, <5>1, <5>2
      <4>6. CASE e[k] = n /\ NewHit(k) \in hits'
        <5>1. Where(k, s) = at /\ (s + 1) - at >= n
          BY <1>3, <2>1, <2>5, <4>3, <4>6 DEF Where
        <5>2. NewHit(k).kw = k /\ NewHit(k).at = at
          BY <5>1 DEF NewHit
        <5>. QED
          BY <4>6, <5>1, <5>2
      <4>. QED
        BY <1>2, <4>2, <4>4, <4>5, <4>6 DEF Treated
    <3>. QED
      BY <1>1, <2>5, <3>1, <3>2, <3>3, <3>4 DEF FitsFollowed
  <2>. QED
    BY <1>3, <2>4, <2>5
<1>. QED
  BY <1>3, <1>7 DEF FitsFollowed, Answered, Lists

LEMMA ByteKeeps == IInv /\ update_tlist => IInv'
  BY ByteKeepsHits, ByteKeepsStates, ByteKeepsFits DEF IInv

-----------------------------------------------------------------------------
(***************************************************************************)
(* The other actions.                                                      *)
(***************************************************************************)
\* When nothing was searched yet, there is nothing to say of the bytes.
LEMMA NothingYet ==
  ASSUME Typed, hits = {}, scanned = cur.from, \A k \in Lists : estat[k] = 0
  PROVE  HitsPlaced /\ StatesMean /\ HitsGenuine /\ FlagsLead /\ FitsFollowed
<1>1. HitsPlaced /\ HitsGenuine /\ FlagsLead
  BY DEF HitsPlaced, HitsGenuine, FlagsLead
<1>2. \A k \in Lists : Len(lists[k]) \in Nat \ {0}
  BY ListsTyped
<1>3. StatesMean
  <2> SUFFICES ASSUME NEW k \in Lists
               PROVE  Means(file, cur.from, lists, hits, k, scanned, 0)
    BY DEF StatesMean
  <2>. QED
    BY <1>2 DEF Means
<1>4. FitsFollowed
  <2>1. scanned \in Int
    BY DEF Typed
  <2>. QED
    BY <1>2, <2>1 DEF FitsFollowed
<1>. QED
  BY <1>1, <1>3, <1>4

\* What a step leaves alone when it gives no byte to the lists.
Searched == <<file, cur, lists, estat, align, count, scanned, nhit, hits>>

LEMMA SearchedKept ==
  ASSUME IInv, UNCHANGED Searched, UNCHANGED flags
  PROVE  HitsPlaced' /\ StatesMean' /\ HitsGenuine' /\ FlagsLead' /\ FitsFollowed'
<1>1. HitsPlaced /\ StatesMean /\ HitsGenuine /\ FlagsLead /\ FitsFollowed
  BY DEF IInv
<1>2. /\ file' = file /\ cur' = cur /\ lists' = lists /\ estat' = estat /\ align' = align
      /\ count' = count /\ scanned' = scanned /\ nhit' = nhit /\ hits' = hits /\ flags' = flags
  BY DEF Searched
<1>3. HitsPlaced' /\ FlagsLead'
  BY <1>1, <1>2 DEF HitsPlaced, FlagsLead, Lists
<1>4. StatesMean' /\ HitsGenuine'
  BY <1>1, <1>2 DEF StatesMean, HitsGenuine, Lists
<1>5. FitsFollowed'
  BY <1>1, <1>2 DEF FitsFollowed, Answered, Lists
<1>. QED
  BY <1>3, <1>4, <1>5

LEMMA NothingYetNext ==
  (Typed /\ hits = {} /\ scanned = cur.from /\ (\A k \in Lists : estat[k] = 0))' =>
     (HitsPlaced /\ StatesMean /\ HitsGenuine /\ FlagsLead /\ FitsFollowed)'
<1>1. Typed /\ hits = {} /\ scanned = cur.from /\ (\A k \in Lists : estat[k] = 0) =>
        HitsPlaced /\ StatesMean /\ HitsGenuine /\ FlagsLead /\ FitsFollowed
  BY NothingYet
<1>. QED
  BY <1>1, PTL

\* The start of a search, and of each of its ranges.
LEMMA SearchKeeps ==
  ASSUME IInv, NEW m \in 1 .. MaxLists, NEW ls \in [1 .. m -> Keyword], NEW plan \in Plan,
         NEW a \in Aligns, NEW c \in Counts, search_range(ls, plan, a, c)
  PROVE  IInv'
<1>1. Typed /\ Placed
  BY DEF IInv
<1>2. /\ pc = "prompt" /\ pc' = "range" /\ lists' = ls /\ todo' = plan /\ count' = c
      /\ flags' = [f \in DOMAIN flags \ OldHits |-> flags[f]] /\ hit_idx' = 1 /\ tmp' = seek
      /\ estat' = [k \in DOMAIN ls |-> 0] /\ hits' = {} /\ file' = file /\ cur' = cur
      /\ seek' = seek /\ i' = i /\ nhit' = nhit /\ scanned' = scanned
  BY DEF search_range
<1>3. m \in Nat /\ m <= MaxLists /\ ls \in Seq(Keyword) /\ Len(ls) = m /\ DOMAIN ls = 1 .. m
  <2>1. m \in Nat /\ m <= MaxLists
    BY SearchAssumption
  <2>. QED
    BY <2>1
<1>4. plan \in Seq([from : Nat, to : Nat]) /\ c \in Nat
  BY SearchAssumption
<1>5. \A k \in DOMAIN ls : 0 \in 0 .. Len(ls[k]) + 1
  <2> SUFFICES ASSUME NEW k \in DOMAIN ls PROVE 0 \in 0 .. Len(ls[k]) + 1
    OBVIOUS
  <2>1. ls[k] \in Keyword
    BY <1>3
  <2>2. ls[k] \in Seq(SUBSET Byte)
    BY <2>1, SearchAssumption
  <2>3. Len(ls[k]) \in Nat
    BY <2>2
  <2>. QED
    BY <2>3
<1>6. Typed'
  <2>1. TypeOK'
    BY <1>1, <1>2, <1>3, <1>5 DEF Typed, TypeOK, Lists
  <2>. QED
    BY <1>1, <1>2, <1>4, <2>1 DEF Typed, TypeOK
<1>7. scanned = cur.from
  BY <1>1, <1>2 DEF Placed
<1>8. Placed'
  BY <1>1, <1>2, <1>7 DEF Placed
<1>9. (HitsPlaced /\ StatesMean /\ HitsGenuine /\ FlagsLead /\ FitsFollowed)'
  BY <1>2, <1>6, <1>7, NothingYetNext DEF Lists
<1>10. FlagsBefore'
  BY <1>2 DEF FlagsBefore
<1>. QED
  BY <1>6, <1>8, <1>9, <1>10 DEF IInv

LEMMA RangeKeeps == ASSUME IInv, StartRange PROVE IInv'
<1>1. Typed /\ Placed /\ FlagsBefore
  BY DEF IInv
<1>2. /\ pc' = "block" /\ todo # <<>> /\ cur' = Head(todo) /\ todo' = Tail(todo)
      /\ seek' = Head(todo).from /\ scanned' = Head(todo).from /\ nhit' = 0 /\ hits' = {}
      /\ estat' = [k \in Lists |-> 0] /\ interrupted' = FALSE /\ i' = 0
      /\ file' = file /\ tmp' = tmp /\ hit_idx' = hit_idx /\ lists' = lists /\ count' = count
      /\ flags' = flags
  BY DEF StartRange, session
<1>3. Head(todo) \in [from : Nat, to : Nat] /\ Tail(todo) \in Seq([from : Nat, to : Nat])
  <2> DEFINE R == [from : Nat, to : Nat]
  <2>1. todo \in Seq(R) /\ todo # <<>>
    BY <1>1, <1>2 DEF Typed
  <2>. HIDE DEF R
  <2>2. Head(todo) \in R /\ Tail(todo) \in Seq(R)
    BY <2>1
  <2>. QED
    BY <2>2 DEF R
<1>4. \A k \in Lists : 0 \in 0 .. Len(lists[k]) + 1
  BY <1>1, ListsTyped
<1>5. Typed'
  <2>1. TypeOK'
    BY <1>1, <1>2, <1>3, <1>4, SearchAssumption DEF Typed, TypeOK, Lists
  <2>. QED
    BY <1>1, <1>2, <1>3, <2>1 DEF Typed
<1>6. Placed'
  BY <1>2, <1>3, SearchAssumption DEF Placed
<1>7. (HitsPlaced /\ StatesMean /\ HitsGenuine /\ FlagsLead /\ FitsFollowed)'
  BY <1>2, <1>5, NothingYetNext DEF Lists
<1>8. FlagsBefore'
  BY <1>1, <1>2 DEF FlagsBefore
<1>. QED
  BY <1>5, <1>6, <1>7, <1>8 DEF IInv

LEMMA EndSearchKeeps == ASSUME IInv, EndSearch PROVE IInv'
<1>1. Typed /\ Placed /\ FlagsBefore
  BY DEF IInv
<1>2. /\ pc' = "prompt" /\ seek' = tmp /\ tmp' = 0 /\ lists' = NoLists /\ estat' = NoLists
      /\ hits' = {} /\ i' = 0 /\ cur' = NoRange /\ scanned' = 0
      /\ file' = file /\ hit_idx' = hit_idx /\ count' = count /\ todo' = todo /\ nhit' = nhit
      /\ flags' = flags
  BY DEF EndSearch
<1>3. Typed'
  BY <1>1, <1>2, SearchAssumption DEF Typed, TypeOK, Lists, NoLists, NoRange
<1>4. Placed'
  BY <1>2 DEF Placed, NoRange
<1>5. (HitsPlaced /\ StatesMean /\ HitsGenuine /\ FlagsLead /\ FitsFollowed)'
  BY <1>2, <1>3, NothingYetNext DEF Lists, NoLists, NoRange
<1>6. FlagsBefore'
  BY <1>1, <1>2 DEF FlagsBefore
<1>. QED
  BY <1>3, <1>4, <1>5, <1>6 DEF IInv

\* The steps from block to block, and ^C.
LEMMA BlockKeeps ==
  ASSUME IInv, NextBlock \/ EndRange \/ EndBlock \/ Interrupt
  PROVE  IInv'
<1>1. Typed /\ Placed /\ FlagsBefore
  BY DEF IInv
<1>2. /\ UNCHANGED Searched /\ UNCHANGED flags
      /\ file' = file /\ lists' = lists /\ estat' = estat /\ count' = count /\ todo' = todo
      /\ cur' = cur /\ tmp' = tmp /\ nhit' = nhit /\ scanned' = scanned /\ flags' = flags
      /\ hit_idx' = hit_idx /\ hits' = hits
  BY DEF NextBlock, EndRange, EndBlock, Interrupt, range, found, session, Searched
<1>3. (HitsPlaced /\ StatesMean /\ HitsGenuine /\ FlagsLead /\ FitsFollowed)'
  BY <1>2, SearchedKept
<1>4. FlagsBefore'
  BY <1>1, <1>2 DEF FlagsBefore
<1>5. seek \in Nat /\ i \in 0 .. BlockSize /\ scanned \in Nat /\ cur.from \in Nat
  BY <1>1 DEF Typed, TypeOK
<1>6. /\ seek' \in Nat /\ i' \in 0 .. BlockSize /\ pc' \in {"prompt", "range", "block", "byte"}
      /\ Placed'
  <2>1. CASE NextBlock
    BY <1>1, <1>2, <1>5, <2>1, SearchAssumption DEF NextBlock, Placed, BlockToSearch
  <2>2. CASE EndRange
    BY <1>1, <1>2, <1>5, <2>2 DEF EndRange, Placed
  <2>3. CASE EndBlock
    BY <1>1, <1>2, <1>5, <2>3, SearchAssumption DEF EndBlock, Placed
  <2>4. CASE Interrupt
    BY <1>1, <1>2, <1>5, <2>4, SearchAssumption DEF Interrupt, Placed
  <2>. QED
    BY <2>1, <2>2, <2>3, <2>4
<1>7. Typed'
  <2>1. TypeOK'
    BY <1>1, <1>2, <1>6 DEF Typed, TypeOK, Lists
  <2>. QED
    BY <1>1, <1>2, <2>1 DEF Typed
<1>. QED
  BY <1>3, <1>4, <1>6, <1>7 DEF IInv

\* /n and /n-.
LEMMA SeekHitKeeps ==
  ASSUME IInv, NEW d \in {1, -1}, radare_search_seek_hit(d)
  PROVE  IInv'
<1>1. Typed /\ Placed /\ FlagsBefore
  BY DEF IInv
<1>2. /\ UNCHANGED Searched /\ UNCHANGED flags
      /\ pc' = pc /\ file' = file /\ lists' = lists /\ estat' = estat /\ count' = count
      /\ todo' = todo /\ cur' = cur /\ tmp' = tmp /\ nhit' = nhit /\ scanned' = scanned
      /\ flags' = flags /\ hits' = hits /\ i' = i /\ pc = "prompt"
      /\ seek' = IF <<1, hit_idx>> \in DOMAIN flags THEN flags[<<1, hit_idx>>] ELSE seek
      /\ hit_idx' = Advanced(d)
  BY DEF radare_search_seek_hit, range, found, Searched
<1>3. (HitsPlaced /\ StatesMean /\ HitsGenuine /\ FlagsLead /\ FitsFollowed)'
  BY <1>2, SearchedKept
<1>4. hit_idx \in Nat \ {0}
  BY <1>1 DEF Typed, TypeOK
<1>5. hit_idx' \in Nat \ {0} /\ FlagsBefore'
  <2>1. CASE <<1, hit_idx>> \in DOMAIN flags /\ d = 1
    <3>1. hit_idx' = hit_idx + 1
      BY <1>2, <1>4, <2>1 DEF Advanced
    <3>. QED
      BY <1>1, <1>2, <1>4, <2>1, <3>1 DEF FlagsBefore
  <2>2. CASE ~(<<1, hit_idx>> \in DOMAIN flags /\ d = 1)
    <3>1. hit_idx' \in Nat \ {0} /\ hit_idx' <= hit_idx
      BY <1>2, <1>4, <2>2 DEF Advanced
    <3>. QED
      BY <1>1, <1>2, <1>4, <3>1 DEF FlagsBefore
  <2>. QED
    BY <2>1, <2>2
<1>6. Placed'
  BY <1>1, <1>2 DEF Placed
<1>7. seek' \in Nat
  BY <1>1, <1>2 DEF Typed, TypeOK
<1>8. Typed'
  <2>1. TypeOK'
    BY <1>1, <1>2, <1>5, <1>7 DEF Typed, TypeOK, Lists
  <2>. QED
    BY <1>1, <1>2, <2>1 DEF Typed
<1>. QED
  BY <1>3, <1>5, <1>6, <1>8 DEF IInv

LEMMA SearchStepKeeps == IInv /\ [Next]_vars => IInv'
<1> SUFFICES ASSUME IInv, [Next]_vars PROVE IInv'
  OBVIOUS
<1>1. CASE \E n \in 1 .. MaxLists : \E ls \in [1 .. n -> Keyword], plan \in Plan, a \in Aligns, c \in Counts :
             search_range(ls, plan, a, c)
  BY <1>1, SearchKeeps
<1>2. CASE StartRange
  BY <1>2, RangeKeeps
<1>3. CASE NextBlock \/ EndRange \/ EndBlock \/ Interrupt
  BY <1>3, BlockKeeps
<1>4. CASE EndSearch
  BY <1>4, EndSearchKeeps
<1>5. CASE update_tlist
  BY <1>5, ByteKeeps
<1>6. CASE \E d \in {1, -1} : radare_search_seek_hit(d)
  BY <1>6, SeekHitKeeps
<1>7. CASE UNCHANGED vars
  <2>1. Typed /\ Placed /\ FlagsBefore
    BY DEF IInv
  <2>2. UNCHANGED <<pc, seek, i, interrupted, todo, tmp, hit_idx>> /\ UNCHANGED Searched
        /\ UNCHANGED flags
    BY <1>7 DEF vars, range, found, session, Searched
  <2>3. (HitsPlaced /\ StatesMean /\ HitsGenuine /\ FlagsLead /\ FitsFollowed)'
    BY <2>2, SearchedKept
  <2>4. Typed' /\ Placed' /\ FlagsBefore'
    BY <2>1, <2>2 DEF Typed, TypeOK, Placed, FlagsBefore, Lists, Searched
  <2>. QED
    BY <2>3, <2>4 DEF IInv
<1>. QED
  BY <1>1, <1>2, <1>3, <1>4, <1>5, <1>6, <1>7 DEF Next

-----------------------------------------------------------------------------
(***************************************************************************)
(* What the invariant says in the terms of Search.                         *)
(***************************************************************************)
LEMMA SameNotions ==
  ASSUME IInv, NEW k \in Lists
  PROVE  /\ \A p \in Int : Sees(k, p) <=> Saw(lists, hits, k, p)
         /\ \A q, p \in Int : SeenIn(k, q .. p - 1) = SawIn(lists, hits, k, q, p)
         /\ \A p \in Int : SecondAfterHit(k, p) <=> After(lists, hits, k, p, 1)
         /\ \A p \in Int : radare_read(p) = Rd(file, p)
         /\ \A p \in Int, m \in Nat :
              Underway(k, p, m) <=> Going(file, cur.from, lists, hits, k, p, m)
<1>1. Typed /\ HitsPlaced
  BY DEF IInv
<1>2. \A h \in hits : LEnd(lists, h) \in Int /\ End(h) = LEnd(lists, h)
  BY <1>1, HitEnds DEF End, LEnd
<1>3. \A p \in Int : Sees(k, p) <=> Saw(lists, hits, k, p)
  BY <1>2 DEF Sees, Saw
<1>4. ASSUME NEW q \in Int, NEW p \in Int
      PROVE  SeenIn(k, q .. p - 1) = SawIn(lists, hits, k, q, p)
  BY <1>3 DEF SeenIn, SawIn
<1>5. ASSUME NEW p \in Int PROVE SecondAfterHit(k, p) <=> After(lists, hits, k, p, 1)
  <2>1. \A h \in hits : SeenIn(k, End(h) + 1 .. p - 1) = SawIn(lists, hits, k, LEnd(lists, h) + 1, p)
    BY <1>2, <1>4
  <2>. QED
    BY <1>2, <2>1 DEF SecondAfterHit, After, Cnt
<1>6. \A p \in Int : radare_read(p) = Rd(file, p)
  BY DEF radare_read, Rd
<1>7. ASSUME NEW p \in Int, NEW m \in Nat
      PROVE  Underway(k, p, m) <=> Going(file, cur.from, lists, hits, k, p, m)
  <2> DEFINE seen == SeenIn(k, cur.from .. p - 1)
             age(q) == Cardinality({r \in seen : r >= q})
  <2>1. cur.from \in Int
    BY <1>1 DEF Typed
  <2>2. seen = SawIn(lists, hits, k, cur.from, p)
    BY <1>4, <2>1
  <2>3. ASSUME NEW q \in cur.from .. p - 1
        PROVE  age(q) = Cnt(lists, hits, k, q, p)
    <3>1. {r \in seen : r >= q} = SawIn(lists, hits, k, q, p)
      BY <2>1, <2>2 DEF SawIn
    <3>. QED
      BY <3>1 DEF Cnt
  <2>4. \A q : q \in seen <=> q \in cur.from .. p - 1 /\ Saw(lists, hits, k, q)
    BY <2>2 DEF SawIn
  <2>5. Cardinality(seen) = Cnt(lists, hits, k, cur.from, p)
    BY <2>2 DEF Cnt
  <2>6. \A q \in cur.from .. p - 1 :
          /\ Starts(k, q) <=> Rd(file, q) \in lists[k][1] \/ After(lists, hits, k, q, 1)
          /\ radare_read(q) = Rd(file, q)
    BY <1>5, <1>6, <2>1 DEF Starts
  <2>7. Underway(k, p, m) <=>
          /\ Cardinality(seen) >= m
          /\ \A q \in seen : age(q) = m => Starts(k, q)
          /\ \A q \in seen : age(q) < m => radare_read(q) \in lists[k][m - age(q) + 1]
    BY DEF Underway
  <2>. HIDE DEF seen, age
  <2>. QED
    BY <2>3, <2>4, <2>5, <2>6, <2>7 DEF Going
<1>. QED
  BY <1>3, <1>4, <1>5, <1>6, <1>7

LEMMA WindowSeen ==
  ASSUME IInv, NEW k \in Lists, NEW at \in Int, SeenIn(k, Window(k, at)) = Window(k, at)
  PROVE  /\ \A r \in at .. at + Len(lists[k]) - 1 : Saw(lists, hits, k, r)
         /\ \A j \in 1 .. Len(lists[k]) : Saw(lists, hits, k, at + j - 1)
<1>1. Len(lists[k]) \in Nat \ {0}
  BY ListsTyped DEF IInv
<1>2. \A p \in Int : Sees(k, p) <=> Saw(lists, hits, k, p)
  BY SameNotions
<1>3. \A r \in at .. at + Len(lists[k]) - 1 : Sees(k, r)
  BY DEF SeenIn, Window
<1>4. \A r \in at .. at + Len(lists[k]) - 1 : Saw(lists, hits, k, r)
  BY <1>1, <1>2, <1>3
<1>5. \A j \in 1 .. Len(lists[k]) : at + j - 1 \in at .. at + Len(lists[k]) - 1
  BY <1>1
<1>. QED
  BY <1>4, <1>5

LEMMA InvHits == IInv => HitsTrue
<1> SUFFICES ASSUME IInv PROVE HitsTrue
  OBVIOUS
<1>1. Typed /\ HitsPlaced /\ HitsGenuine /\ FlagsLead /\ FlagsBefore
  BY DEF IInv
<1>2. ASSUME NEW h \in hits, SeenIn(h.kw, Window(h.kw, h.at)) = Window(h.kw, h.at)
      PROVE  \/ Occurs(h.kw, h.at)
             \/ /\ SecondAfterHit(h.kw, h.at)
                /\ \A j \in 2 .. Len(lists[h.kw]) : radare_read(h.at + j - 1) \in lists[h.kw][j]
  <2> DEFINE k == h.kw
             at == h.at
  <2>1. k \in Lists /\ at \in Int
    BY <1>1 DEF HitsPlaced
  <2>2. Len(lists[k]) \in Nat \ {0}
    BY <1>1, <2>1, ListsTyped
  <2>3. \A r \in at .. at + Len(lists[k]) - 1 : Saw(lists, hits, k, r)
    BY <1>2, <2>1, WindowSeen
  <2>4. /\ Rd(file, at) \in lists[k][1] \/ After(lists, hits, k, at, 1)
        /\ \A j \in 2 .. Len(lists[k]) : Rd(file, at + j - 1) \in lists[k][j]
    BY <1>1, <2>3 DEF HitsGenuine, Genuine
  <2>5. /\ After(lists, hits, k, at, 1) => SecondAfterHit(k, at)
        /\ \A p \in Int : radare_read(p) = Rd(file, p)
    BY <2>1, SameNotions
  <2>6. DOMAIN lists[k] = 1 .. Len(lists[k])
    <3>1. lists \in Seq(Keyword)
      BY <1>1 DEF Typed, TypeOK
    <3>2. lists[k] \in Keyword
      BY <2>1, <3>1 DEF Lists
    <3>3. lists[k] \in Seq(SUBSET Byte)
      BY <3>2, SearchAssumption
    <3>. QED
      BY <3>3
  <2>. HIDE DEF k, at
  <2>7. \A j \in 2 .. Len(lists[k]) : radare_read(at + j - 1) \in lists[k][j]
    BY <2>1, <2>2, <2>4, <2>5
  <2>8. CASE Rd(file, at) \in lists[k][1]
    <3>1. at + 1 - 1 = at
      BY <2>1
    <3>2. \A j \in 1 .. Len(lists[k]) : radare_read(at + j - 1) \in lists[k][j]
      BY <2>1, <2>2, <2>5, <2>7, <2>8, <3>1
    <3>3. Occurs(k, at)
      BY <2>6, <3>2 DEF Occurs
    <3>. QED
      BY <3>3 DEF k, at
  <2>9. CASE After(lists, hits, k, at, 1)
    BY <2>5, <2>7, <2>9 DEF k, at
  <2>. QED
    BY <2>4, <2>8, <2>9
<1>3. HitsAreThere
  BY <1>2 DEF HitsAreThere
<1>4. FlagsFollowHits
  BY <1>1 DEF FlagsLead, FlagsFollowHits, LEnd, End
<1>5. HitIndexInReach
  <2>1. hit_idx \in Nat \ {0}
    BY <1>1 DEF Typed, TypeOK
  <2>. QED
    BY <1>1, <2>1 DEF FlagsBefore, HitIndexInReach
<1>. QED
  BY <1>1, <1>3, <1>4, <1>5 DEF Typed, HitsTrue

LEMMA InvMisses == IInv => MissesExplained
<1> SUFFICES ASSUME IInv, NEW k \in Lists, NEW at \in cur.from .. scanned - Len(lists[k]),
                    Occurs(k, at), SeenIn(k, Window(k, at)) = Window(k, at)
             PROVE  \/ \E h \in hits : h.kw = k /\ h.at = at
                    \/ align # 0 /\ at % align # 0
                    \/ count # 0 /\ nhit >= count
                    \/ \E m \in 1 .. Len(lists[k]) - 1 : Underway(k, at, m)
                    \/ \E h \in hits : /\ h.kw = k /\ End(h) < at
                                       /\ Cardinality(SeenIn(k, End(h) + 1 .. at - 1)) <= 1
  BY DEF MissesExplained
<1> DEFINE n == Len(lists[k])
<1>1. Typed /\ HitsPlaced /\ FitsFollowed
  BY DEF IInv
<1>2. n \in Nat \ {0}
  BY <1>1, ListsTyped
<1>3. cur.from \in Int /\ scanned \in Int
  BY <1>1 DEF Typed
<1>4. at \in Int /\ at \in cur.from .. scanned /\ scanned - at >= n
  BY <1>2, <1>3
<1>5. \A j \in 1 .. n : Saw(lists, hits, k, at + j - 1)
  BY <1>4, WindowSeen
<1>6. /\ \A p \in Int : radare_read(p) = Rd(file, p)
      /\ \A q, p \in Int : SeenIn(k, q .. p - 1) = SawIn(lists, hits, k, q, p)
      /\ \A m \in Nat : Going(file, cur.from, lists, hits, k, at, m) => Underway(k, at, m)
  BY <1>4, SameNotions
<1>7. \A j \in 1 .. n : Rd(file, at + j - 1) \in lists[k][j]
  <2>1. DOMAIN lists[k] = 1 .. n
    <3>1. lists \in Seq(Keyword)
      BY <1>1 DEF Typed, TypeOK
    <3>2. lists[k] \in Keyword
      BY <3>1 DEF Lists
    <3>3. lists[k] \in Seq(SUBSET Byte)
      BY <3>2, SearchAssumption
    <3>. QED
      BY <3>3
  <2>2. \A j \in 1 .. n : radare_read(at + j - 1) \in lists[k][j]
    BY <2>1 DEF Occurs
  <2>3. \A j \in 1 .. n : at + j - 1 \in Int
    BY <1>2, <1>4
  <2>. QED
    BY <1>6, <2>2, <2>3
<1>8. Fits(file, lists, hits, k, at, scanned)
  BY <1>5, <1>7 DEF Fits
<1>9. Busy(file, cur.from, lists, hits, k, at) \/ Answered(k, at)
  BY <1>1, <1>2, <1>3, <1>4, <1>8 DEF FitsFollowed
<1>10. ASSUME NEW m \in {0, 1}, After(lists, hits, k, at, m)
       PROVE  \E h \in hits : /\ h.kw = k /\ End(h) < at
                              /\ Cardinality(SeenIn(k, End(h) + 1 .. at - 1)) <= 1
  <2>1. PICK h \in hits : /\ h.kw = k /\ LEnd(lists, h) < at
                          /\ Cnt(lists, hits, k, LEnd(lists, h) + 1, at) = m
    BY <1>10 DEF After
  <2>2. LEnd(lists, h) \in Int /\ End(h) = LEnd(lists, h)
    BY <1>1, HitEnds DEF LEnd, End
  <2>3. SeenIn(k, End(h) + 1 .. at - 1) = SawIn(lists, hits, k, LEnd(lists, h) + 1, at)
    BY <1>4, <1>6, <2>2
  <2>. QED
    BY <2>1, <2>2, <2>3 DEF Cnt
<1>11. ASSUME NEW m \in 1 .. n - 1, Going(file, cur.from, lists, hits, k, at, m)
       PROVE  Underway(k, at, m)
  BY <1>2, <1>6, <1>11
<1>. QED
  BY <1>9, <1>10, <1>11 DEF Busy, Answered

-----------------------------------------------------------------------------
LEMMA SearchInvariant == Spec => []IInv
  BY SearchInitHolds, SearchStepKeeps, PTL DEF Spec

\* A hit that search_range reports is an occurrence of its keyword (or begins
\* with the second byte after another hit, or had a byte hidden), its flag
\* leads to it, the numbers follow the addresses, and /n stays among them:
\* for every file, keywords, ranges and size of block.
THEOREM SearchReportsTruth == Spec => []HitsTrue
  BY SearchInvariant, InvHits, PTL

\* An occurrence among the bytes given to update_tlist is missed only for the
\* causes the automaton admits.
THEOREM SearchMissesExplained == Spec => []MissesExplained
  BY SearchInvariant, InvMisses, PTL

\* The position that is kept for a search stopped by ^C lies after the bytes
\* already searched, and at most a block after them.
THEOREM SearchResumes == Spec => ResumeRepeatsNothing
<1>1. IInv /\ [Next]_vars =>
        [EndSearch /\ interrupted =>
           search_stop' >= scanned /\ search_stop' - scanned <= BlockSize]_vars
  <2> SUFFICES ASSUME IInv, EndSearch, interrupted
               PROVE  search_stop' >= scanned /\ search_stop' - scanned <= BlockSize
    OBVIOUS
  <2>1. search_stop' = seek /\ pc = "block"
    BY DEF EndSearch
  <2>2. scanned <= seek /\ seek <= scanned + BlockSize
    BY <2>1 DEF IInv, Placed
  <2>3. seek \in Nat /\ scanned \in Nat
    BY DEF IInv, Typed, TypeOK
  <2>. QED
    BY <2>1, <2>2, <2>3, SearchAssumption
<1>. QED
  BY <1>1, SearchInvariant, PTL DEF Spec, ResumeRepeatsNothing

=============================================================================
