----------------------------- MODULE RangesProofs -----------------------------
(***************************************************************************)
(* Proofs about Ranges, for every set of addresses and every length of the *)
(* list: what ar+, ar- and arm make the list cover.                        *)
(***************************************************************************)
EXTENDS Ranges, WellFoundedInduction, TLAPS

RunType ==
  [op : {"idle", "sub", "merge", "sort", "list", "bool", "reported"},
   from : Nat, to : Nat, pos : Nat, at : Nat, then : {"idle", "list", "bool"},
   ch : {0, 1}, gaps : SUBSET Nat]

\* While ar- runs, a range that reaches around the subtracted one is still
\* as it was: only such a range loses something above.
AroundIsOld ==
  run.op = "sub" =>
    \A i \in 1 .. Len(ranges) :
      ranges[i].from < run.from /\ ranges[i].to > run.to
        => \E j \in 1 .. Len(before) : before[j] = ranges[i]

ListInv == ranges \in Seq(range_t) /\ Ordered(ranges) /\ before \in Seq(range_t)

WalkInv ==
  /\ run \in RunType
  /\ run.op \in {"sub", "merge", "sort", "bool"} => run.pos >= 1
  /\ run.op = "sub" => run.from \in Addr /\ run.to \in Addr /\ run.from <= run.to

IInv == ListInv /\ WalkInv /\ AroundIsOld /\ SubKeeps /\ MergeKeeps

------------------------------------------------------------------------------
(***************************************************************************)
(* The operations on the list.                                             *)
(***************************************************************************)
\* The ends of a range are natural numbers.
LEMMA RangeType ==
  ASSUME NEW r \in range_t
  PROVE  r.from \in Addr /\ r.to \in Addr /\ r.from \in Nat /\ r.to \in Nat
BY AddrAssumption DEF range_t

\* Joining two ordered ranges gives one; if they touch it covers both and
\* nothing else.
LEMMA JoinedFacts ==
  ASSUME NEW r \in range_t, r.from <= r.to, NEW n \in range_t, n.from <= n.to
  PROVE  /\ Joined(r, n) \in range_t
         /\ Joined(r, n).from <= Joined(r, n).to
         /\ \A x \in Addr : Touches(r, n) =>
              ((Joined(r, n).from <= x /\ x < Joined(r, n).to)
               <=> (r.from <= x /\ x < r.to) \/ (n.from <= x /\ x < n.to))
<1> DEFINE j == Joined(r, n)
<1>1. /\ r.from \in Addr /\ r.to \in Addr /\ r.from \in Nat /\ r.to \in Nat
      /\ n.from \in Addr /\ n.to \in Addr /\ n.from \in Nat /\ n.to \in Nat
  BY RangeType
<1>2. /\ j.from = IF n.from < r.from THEN n.from ELSE r.from
      /\ j.to = IF n.to > r.to THEN n.to ELSE r.to
  BY DEF Joined
<1>3. j \in range_t
  BY <1>1 DEF Joined, range_t
<1> HIDE DEF j
<1>4. j.from <= j.to
  BY <1>1, <1>2
<1>5. ASSUME NEW x \in Addr, Touches(r, n)
      PROVE  (j.from <= x /\ x < j.to) <=> (r.from <= x /\ x < r.to) \/ (n.from <= x /\ x < n.to)
  <2>1. x \in Nat
    BY AddrAssumption
  <2>2. r.from <= n.to /\ r.to >= n.from
    BY <1>5 DEF Touches
  <2>3. QED BY <1>1, <1>2, <2>1, <2>2
<1>6. QED BY <1>3, <1>4, <1>5 DEF j

\* Joining keeps a list of ordered ranges one.
LEMMA JoinAllType ==
  ASSUME NEW s \in Seq(range_t), Ordered(s), NEW n \in range_t, n.from <= n.to
  PROVE  /\ JoinAll(s, n) \in Seq(range_t)
         /\ Len(JoinAll(s, n)) = Len(s)
         /\ \A i \in 1 .. Len(s) :
              JoinAll(s, n)[i] = IF Touches(s[i], n) THEN Joined(s[i], n) ELSE s[i]
         /\ Ordered(JoinAll(s, n))
<1> USE AddrAssumption
<1>1. ASSUME NEW i \in 1 .. Len(s)
      PROVE  /\ s[i] \in range_t
             /\ s[i].from <= s[i].to
             /\ Joined(s[i], n) \in range_t
             /\ Joined(s[i], n).from <= Joined(s[i], n).to
  BY JoinedFacts DEF Ordered
<1>2. JoinAll(s, n) \in [1 .. Len(s) -> range_t]
  BY <1>1 DEF JoinAll
<1>3. JoinAll(s, n) \in Seq(range_t) /\ Len(JoinAll(s, n)) = Len(s)
  BY <1>2
<1>4. \A i \in 1 .. Len(s) :
         JoinAll(s, n)[i] = IF Touches(s[i], n) THEN Joined(s[i], n) ELSE s[i]
  BY DEF JoinAll
<1>5. QED BY <1>1, <1>3, <1>4 DEF Ordered

\* If some range of the list touches n, joining covers the list and n.
LEMMA JoinAllCovers ==
  ASSUME NEW s \in Seq(range_t), Ordered(s), NEW n \in range_t, n.from <= n.to,
         ~Alone(s, n), NEW x \in Addr
  PROVE  Covers(JoinAll(s, n), x) <=> Covers(s, x) \/ (n.from <= x /\ x < n.to)
<1> USE AddrAssumption
<1> DEFINE u == JoinAll(s, n)
<1>1. /\ u \in Seq(range_t) /\ Len(u) = Len(s)
      /\ \A i \in 1 .. Len(s) : u[i] = IF Touches(s[i], n) THEN Joined(s[i], n) ELSE s[i]
  BY JoinAllType
<1>2. \A i \in 1 .. Len(s) : s[i] \in range_t /\ s[i].from <= s[i].to
  BY DEF Ordered
<1> HIDE DEF u
<1>3. ASSUME NEW i \in 1 .. Len(s), Touches(s[i], n)
      PROVE  (u[i].from <= x /\ x < u[i].to)
             <=> (s[i].from <= x /\ x < s[i].to) \/ (n.from <= x /\ x < n.to)
  BY <1>1, <1>2, <1>3, JoinedFacts
<1>4. ASSUME NEW i \in 1 .. Len(s), ~Touches(s[i], n) PROVE u[i] = s[i]
  BY <1>1, <1>4
<1>5. PICK j \in 1 .. Len(s) : Touches(s[j], n)
  BY DEF Alone
<1>6. Covers(u, x) => Covers(s, x) \/ (n.from <= x /\ x < n.to)
  BY <1>1, <1>3, <1>4 DEF Covers
<1>7. Covers(s, x) \/ (n.from <= x /\ x < n.to) => Covers(u, x)
  BY <1>1, <1>3, <1>4, <1>5 DEF Covers
<1>8. QED BY <1>6, <1>7 DEF u

\* ranges_add returns a list of ordered ranges.
LEMMA AddType ==
  ASSUME NEW s \in Seq(range_t), Ordered(s), NEW n \in range_t, n.from <= n.to
  PROVE  ranges_add(s, n) \in Seq(range_t) /\ Ordered(ranges_add(s, n))
<1>1. Append(s, n) \in Seq(range_t) /\ Ordered(Append(s, n))
  BY DEF Ordered
<1>2. QED BY <1>1, JoinAllType DEF ranges_add

\* ranges_add covers exactly the list and the new range.
LEMMA AddCovers ==
  ASSUME NEW s \in Seq(range_t), Ordered(s), NEW n \in range_t, n.from <= n.to, NEW x \in Addr
  PROVE  Covers(ranges_add(s, n), x) <=> Covers(s, x) \/ (n.from <= x /\ x < n.to)
<1>1. CASE Alone(s, n)
  <2> DEFINE u == Append(s, n)
  <2>1. u \in Seq(range_t) /\ Len(u) = Len(s) + 1 /\ u[Len(s) + 1] = n
    OBVIOUS
  <2>2. \A i \in 1 .. Len(s) : u[i] = s[i]
    OBVIOUS
  <2> HIDE DEF u
  <2>3. Covers(u, x) <=> Covers(s, x) \/ (n.from <= x /\ x < n.to)
    BY <2>1, <2>2 DEF Covers
  <2>4. QED BY <1>1, <2>3 DEF ranges_add, u
<1>2. CASE ~Alone(s, n)
  BY <1>2, JoinAllCovers DEF ranges_add
<1>3. QED BY <1>1, <1>2

\* ranges_abs orders its arguments.
LEMMA AbsType ==
  ASSUME NEW f \in Addr, NEW t \in Addr
  PROVE  ranges_abs(f, t) \in range_t /\ ranges_abs(f, t).from <= ranges_abs(f, t).to
BY AddrAssumption DEF ranges_abs, range_t

\* Deleting and moving elements keeps a list of ordered ranges one.
LEMMA WithoutType ==
  ASSUME NEW s \in Seq(range_t), Ordered(s), NEW i \in 1 .. Len(s)
  PROVE  /\ Without(s, i) \in Seq(range_t)
         /\ Len(Without(s, i)) = Len(s) - 1
         /\ Ordered(Without(s, i))
         /\ \A k \in 1 .. Len(s) - 1 : Without(s, i)[k] = IF k < i THEN s[k] ELSE s[k + 1]
<1>1. Without(s, i) \in [1 .. Len(s) - 1 -> range_t] /\ Len(s) - 1 \in Nat
  BY DEF Without
<1>2. Without(s, i) \in Seq(range_t) /\ Len(Without(s, i)) = Len(s) - 1
  BY <1>1
<1>3. \A k \in 1 .. Len(s) - 1 : Without(s, i)[k] = IF k < i THEN s[k] ELSE s[k + 1]
  BY DEF Without
<1>4. QED BY <1>2, <1>3 DEF Ordered

\* The same for moving an element, which the sort does.
LEMMA MovedType ==
  ASSUME NEW s \in Seq(range_t), Ordered(s), NEW i \in 1 .. Len(s), NEW p \in 1 .. Len(s)
  PROVE  Moved(s, i, p) \in Seq(range_t) /\ Ordered(Moved(s, i, p))
<1> DEFINE o == Without(s, i)
<1>1. o \in Seq(range_t) /\ Len(o) = Len(s) - 1 /\ Ordered(o)
  BY WithoutType
<1> HIDE DEF o
<1>2. \A k \in 1 .. Len(s) - 1 : o[k] \in range_t /\ o[k].from <= o[k].to
  BY <1>1 DEF Ordered
<1>3. s[i] \in range_t /\ s[i].from <= s[i].to
  BY DEF Ordered
<1> DEFINE m == [k \in 1 .. Len(s) |-> IF k < p THEN o[k] ELSE IF k = p THEN s[i] ELSE o[k - 1]]
<1>4. \A k \in 1 .. Len(s) : m[k] \in range_t /\ m[k].from <= m[k].to
  BY <1>2, <1>3
<1>5. m \in Seq(range_t) /\ Len(m) = Len(s)
  BY <1>4
<1>6. Ordered(m)
  BY <1>4, <1>5 DEF Ordered
<1>7. QED BY <1>5, <1>6 DEF Moved, o

\* A set of positions has a largest element.
LEMMA Largest ==
  ASSUME NEW n \in Nat, NEW T, T \subseteq 1 .. n, T # {}
  PROVE  \E x \in T : \A y \in T : x >= y
<1> DEFINE R == OpToRel(<, Nat)
<1> DEFINE U == {n - x : x \in T}
<1>1. IsWellFoundedOn(R, Nat)
  BY NatLessThanWellFounded
<1>2. R = {p \in Nat \X Nat : p[1] < p[2]}
  BY Zenon DEF OpToRel
<1>3. ASSUME NEW x \in Nat, NEW y \in Nat, y < x PROVE <<y, x>> \in R
  <2>1. <<y, x>> \in {p \in Nat \X Nat : p[1] < p[2]}
    BY <1>3
  <2>2. QED BY <2>1, <1>2
<1> HIDE DEF R
<1>4. U \subseteq Nat /\ U # {}
  <2>1. \A x \in T : n - x \in Nat
    OBVIOUS
  <2>2. PICK x \in T : TRUE
    OBVIOUS
  <2>3. n - x \in U
    OBVIOUS
  <2>4. QED BY <2>1, <2>3
<1>5. PICK u \in U : \A y \in U : ~(<<y, u>> \in R)
  <2> HIDE DEF U
  <2> QED BY <1>1, <1>4, WFMin, Zenon
<1>6. PICK x \in T : u = n - x
  OBVIOUS
<1>7. ASSUME NEW y \in T PROVE x >= y
  <2>1. n - y \in U /\ n - y \in Nat /\ u \in Nat /\ x \in Nat /\ y \in Nat
    OBVIOUS
  <2>2. ~(n - y < u)
    BY <1>3, <1>5, <2>1
  <2>3. QED BY <1>6, <2>1, <2>2
<1>8. QED BY <1>7

\* The sort moves an element to a place in the list.
LEMMA BehindType ==
  ASSUME NEW s \in Seq(range_t), NEW i \in 1 .. Len(s)
  PROVE  Behind(s, i) \in 1 .. Len(s)
<1> DEFINE T == Smaller(s, i)
<1>1. CASE T = {}
  BY <1>1 DEF Behind
<1>2. CASE T # {}
  <2> DEFINE j == CHOOSE j \in T : \A k \in T : j >= k
  <2>1. T \subseteq 1 .. Len(s)
    BY DEF Smaller
  <2>2. \E x \in T : \A y \in T : x >= y
    <3> HIDE DEF T, j
    <3>1. Len(s) \in Nat
      OBVIOUS
    <3> QED BY <1>2, <2>1, <3>1, Largest, Zenon
  <2>3. j \in T
    BY <2>2
  <2>4. Behind(s, i) = IF j > i THEN j ELSE j + 1
    BY <1>2 DEF Behind
  <2>5. j # i
    <3>1. s[i].from \in Nat
      BY RangeType
    <3>2. ~(s[i].from > s[i].from)
      BY <3>1
    <3>3. QED BY <2>3, <3>2 DEF Smaller
  <2> HIDE DEF j, T
  <2>6. QED BY <2>1, <2>3, <2>4, <2>5
<1>3. QED BY <1>1, <1>2

------------------------------------------------------------------------------
(***************************************************************************)
(* The invariant.                                                          *)
(***************************************************************************)
LEMMA InitInv == Init => IInv
BY DEF Init, IInv, ListInv, Ordered, WalkInv, RunType, Idle, AroundIsOld, SubKeeps, MergeKeeps

\* ar- cuts, deletes or splits the range it visits.
LEMMA SubStepInv == IInv /\ SubStep => IInv'
<1> SUFFICES ASSUME IInv, SubStep PROVE IInv'
  OBVIOUS
<1> DEFINE s == ranges
<1> DEFINE i == run.pos
<1> DEFINE r == Cut(s[i])
<1>1. /\ s \in Seq(range_t) /\ Ordered(s) /\ before \in Seq(range_t)
      /\ run \in RunType /\ run.op = "sub" /\ i \in 1 .. Len(s)
      /\ run.from \in Addr /\ run.to \in Addr /\ run.from <= run.to
      /\ run.from \in Nat /\ run.to \in Nat
  BY AddrAssumption DEF IInv, ListInv, WalkInv, SubStep, Visiting, RunType
<1>2. /\ before' = before
      /\ run' \in RunType /\ run'.op = "sub" /\ run'.pos >= 1
      /\ run'.from = run.from /\ run'.to = run.to
  BY <1>1, SMTT(30) DEF SubStep, RunType
<1>3. /\ s[i] \in range_t /\ s[i].from <= s[i].to
      /\ s[i].from \in Nat /\ s[i].to \in Nat /\ s[i].from \in Addr /\ s[i].to \in Addr
  BY <1>1, RangeType DEF Ordered
<1>4. \A x \in Addr : x \in Nat
  BY AddrAssumption
<1>5. \A k \in 1 .. Len(s) : s[k].from \in Nat /\ s[k].to \in Nat /\ s[k].from <= s[k].to
  BY <1>1, RangeType DEF Ordered
<1>6. r \in range_t /\ r.from <= r.to /\ r.from \in Nat /\ r.to \in Nat
  <2>1. r \in range_t /\ r.from <= r.to
    BY <1>1, <1>3 DEF Cut, range_t
  <2>2. QED BY <2>1, RangeType
\* What is still to be shown of the new list.
<1>7. SUFFICES /\ ranges' \in Seq(range_t) /\ Ordered(ranges')
               /\ \A x \in Addr : Covers(ranges', x) => Covers(s, x)
               /\ \A x \in Addr :
                    Covers(s, x) /\ ~Covers(ranges', x)
                      => /\ x >= run.from
                         /\ x >= run.to => \E j \in 1 .. Len(before) :
                                             /\ before[j].from < run.from
                                             /\ before[j].from <= x /\ x < before[j].to
               /\ \A k \in 1 .. Len(ranges') :
                    ranges'[k].from < run.from /\ ranges'[k].to > run.to
                      => \E j \in 1 .. Len(before) : before[j] = ranges'[k]
  <2>1. SubKeeps'
    <3> SUFFICES ASSUME NEW x \in Addr
                 PROVE  /\ Covers(ranges', x) => Covers(before, x)
                        /\ Covers(before, x) /\ ~Covers(ranges', x) =>
                             /\ x >= run.from
                             /\ x >= run.to => \E j \in 1 .. Len(before) :
                                                 /\ before[j].from < run.from
                                                 /\ before[j].from <= x /\ x < before[j].to
      BY <1>2 DEF SubKeeps
    <3>1. /\ Covers(s, x) => Covers(before, x)
          /\ Covers(before, x) /\ ~Covers(s, x) =>
               /\ x >= run.from
               /\ x >= run.to => \E j \in 1 .. Len(before) :
                                   /\ before[j].from < run.from
                                   /\ before[j].from <= x /\ x < before[j].to
      BY <1>1 DEF IInv, SubKeeps
    <3>2. QED BY <1>7, <3>1
  <2>2. AroundIsOld'
    BY <1>2, <1>7 DEF AroundIsOld
  <2>3. ListInv'
    BY <1>1, <1>2, <1>7 DEF ListInv
  <2>4. WalkInv'
    BY <1>1, <1>2 DEF WalkInv
  <2>5. MergeKeeps'
    BY <1>2 DEF MergeKeeps
  <2>6. QED BY <2>1, <2>2, <2>3, <2>4, <2>5 DEF IInv
<1>8. \A k \in 1 .. Len(s) :
         s[k].from < run.from /\ s[k].to > run.to
           => \E j \in 1 .. Len(before) : before[j] = s[k]
  BY <1>1 DEF IInv, AroundIsOld
\* A range inside the subtracted one is deleted.
<1>9. CASE Inside(r) /\ ranges' = Without(s, i)
  <2>1. r = s[i] /\ s[i].from > run.from /\ s[i].to < run.to
    BY <1>1, <1>3, <1>9 DEF Cut, Inside
  <2>2. /\ ranges' \in Seq(range_t) /\ Len(ranges') = Len(s) - 1 /\ Ordered(ranges')
        /\ \A k \in 1 .. Len(s) - 1 : ranges'[k] = IF k < i THEN s[k] ELSE s[k + 1]
    BY <1>1, <1>9, WithoutType
  <2>3. \A k \in 1 .. Len(ranges') : \E l \in 1 .. Len(s) : ranges'[k] = s[l]
    BY <1>1, <2>2
  <2>4. ASSUME NEW l \in 1 .. Len(s), l # i PROVE \E k \in 1 .. Len(ranges') : ranges'[k] = s[l]
    <3>1. CASE l < i
      BY <1>1, <2>2, <3>1
    <3>2. CASE l > i
      <4>1. l - 1 \in 1 .. Len(ranges') /\ ranges'[l - 1] = s[l]
        BY <1>1, <2>2, <3>2
      <4>2. QED BY <4>1
    <3>3. QED BY <1>1, <2>4, <3>1, <3>2
  <2>5. ASSUME NEW x \in Addr, Covers(s, x), ~Covers(ranges', x)
        PROVE  x >= run.from /\ ~(x >= run.to)
    <3>1. PICK l \in 1 .. Len(s) : s[l].from <= x /\ x < s[l].to
      BY <2>5 DEF Covers
    <3>2. l = i
      BY <2>4, <2>5, <3>1 DEF Covers
    <3>3. QED BY <1>1, <1>3, <1>4, <2>1, <3>1, <3>2
  <2>6. ASSUME NEW x \in Addr, Covers(ranges', x) PROVE Covers(s, x)
    BY <2>3, <2>6 DEF Covers
  <2>7. QED BY <1>8, <2>2, <2>3, <2>5, <2>6
\* A range around it is cut, and the subtracted range added again.
<1>10. CASE Around(r) /\ ranges' = Split(s, i)
  <2> DEFINE u == [s EXCEPT ![i].to = run.from]
  <2> DEFINE n == [from |-> run.from, to |-> run.to]
  <2>1. r = s[i] /\ s[i].from < run.from /\ s[i].to > run.to
    BY <1>1, <1>3, <1>10 DEF Cut, Around
  <2>2. /\ u \in Seq(range_t) /\ Len(u) = Len(s)
        /\ u[i].from = s[i].from /\ u[i].to = run.from
        /\ \A k \in 1 .. Len(s) : k # i => u[k] = s[k]
    BY <1>1, <1>3 DEF range_t
  <2>3. n \in range_t /\ n.from = run.from /\ n.to = run.to /\ n.from <= n.to
    BY <1>1 DEF range_t
  <2>4. ranges_abs(run.to, run.from) = n
    BY <1>1 DEF ranges_abs
  <2>5. ranges' = ranges_add(u, n)
    BY <1>10, <2>4 DEF Split
  <2> HIDE DEF u, n
  <2>6. Ordered(u)
    BY <1>1, <1>3, <1>5, <2>1, <2>2 DEF Ordered
  <2>7. ~Alone(u, n)
    <3>1. Touches(u[i], n)
      BY <1>1, <1>3, <2>1, <2>2, <2>3 DEF Touches
    <3>2. QED BY <1>1, <2>2, <3>1 DEF Alone
  <2>8. ranges' = JoinAll(u, n)
    BY <2>5, <2>7 DEF ranges_add
  <2>9. /\ ranges' \in Seq(range_t) /\ Ordered(ranges') /\ Len(ranges') = Len(s)
        /\ \A k \in 1 .. Len(s) :
             ranges'[k] = IF Touches(u[k], n) THEN Joined(u[k], n) ELSE u[k]
    BY <2>2, <2>3, <2>6, <2>8, JoinAllType
  <2>10. \A x \in Addr : Covers(ranges', x) <=> Covers(u, x) \/ (run.from <= x /\ x < run.to)
    BY <2>2, <2>3, <2>6, <2>7, <2>8, JoinAllCovers
  <2>11. ASSUME NEW x \in Addr, Covers(ranges', x) PROVE Covers(s, x)
    <3>1. x \in Nat
      BY <1>4
    <3>2. CASE run.from <= x /\ x < run.to
      BY <1>1, <1>3, <2>1, <3>1, <3>2 DEF Covers
    <3>3. CASE Covers(u, x)
      <4>1. PICK k \in 1 .. Len(u) : u[k].from <= x /\ x < u[k].to
        BY <3>3 DEF Covers
      <4>2. CASE k = i
        BY <1>1, <1>3, <2>1, <2>2, <3>1, <4>1, <4>2 DEF Covers
      <4>3. CASE k # i
        BY <2>2, <4>1, <4>3 DEF Covers
      <4>4. QED BY <4>2, <4>3
    <3>4. QED BY <2>10, <2>11, <3>2, <3>3
  <2>12. ASSUME NEW x \in Addr, Covers(s, x), ~Covers(ranges', x)
         PROVE  x >= run.to /\ s[i].from <= x /\ x < s[i].to
    <3>1. PICK l \in 1 .. Len(s) : s[l].from <= x /\ x < s[l].to
      BY <2>12 DEF Covers
    <3>2. ~Covers(u, x) /\ ~(run.from <= x /\ x < run.to)
      BY <2>10, <2>12
    <3>3. l = i
      BY <2>2, <3>1, <3>2 DEF Covers
    <3>4. ~(u[i].from <= x /\ x < u[i].to)
      BY <1>1, <2>2, <3>2 DEF Covers
    <3>5. QED BY <1>1, <1>3, <1>4, <2>2, <3>1, <3>2, <3>3, <3>4
  <2>13. PICK j \in 1 .. Len(before) : before[j] = s[i]
    BY <1>1, <1>8, <2>1
  <2>14. ASSUME NEW k \in 1 .. Len(ranges'), ranges'[k].from < run.from, ranges'[k].to > run.to
         PROVE  \E l \in 1 .. Len(before) : before[l] = ranges'[k]
    <3>1. k \in 1 .. Len(s) /\ u[k] \in range_t /\ u[k].from \in Nat /\ u[k].to \in Nat
      BY <2>2, <2>9, RangeType
    <3>2. ranges'[k] = u[k]
      <4>1. CASE Touches(u[k], n)
        <5>1. ranges'[k] = Joined(u[k], n)
          BY <2>9, <3>1, <4>1
        <5>2. u[k].from < run.from /\ u[k].to > run.to
          BY <1>1, <2>3, <2>14, <3>1, <5>1 DEF Joined
        <5>3. ranges'[k] = [from |-> u[k].from, to |-> u[k].to]
          BY <1>1, <2>3, <3>1, <5>1, <5>2 DEF Joined
        <5>4. QED BY <3>1, <5>3 DEF range_t
      <4>2. CASE ~Touches(u[k], n)
        BY <2>9, <3>1, <4>2
      <4>3. QED BY <4>1, <4>2
    <3>3. k # i
      BY <1>1, <2>2, <2>14, <3>2
    <3>4. QED BY <1>8, <2>2, <2>14, <3>1, <3>2, <3>3
  <2>15. QED
    <3>1. ASSUME NEW x \in Addr, Covers(s, x), ~Covers(ranges', x)
          PROVE  /\ x >= run.from
                 /\ before[j].from < run.from /\ before[j].from <= x /\ x < before[j].to
      BY <1>1, <1>4, <2>1, <2>12, <2>13, <3>1
    <3>2. QED BY <2>9, <2>11, <2>13, <2>14, <3>1
\* Any other range is cut at the ends of the subtracted one.
<1>11. CASE ~Around(r) /\ ranges' = [s EXCEPT ![i] = r]
  <2>1. /\ ranges' \in Seq(range_t) /\ Len(ranges') = Len(s)
        /\ ranges'[i] = r
        /\ \A k \in 1 .. Len(s) : k # i => ranges'[k] = s[k]
    BY <1>1, <1>6, <1>11
  <2>2. Ordered(ranges')
    BY <1>5, <1>6, <2>1 DEF Ordered
  <2>3. ASSUME NEW x \in Addr
        PROVE  /\ r.from <= x /\ x < r.to => s[i].from <= x /\ x < s[i].to
               /\ s[i].from <= x /\ x < s[i].to /\ ~(r.from <= x /\ x < r.to)
                    => x >= run.from /\ ~(x >= run.to)
    BY <1>1, <1>3, <1>4, SMTT(30) DEF Cut, range_t
  <2>4. ASSUME NEW x \in Addr, Covers(ranges', x) PROVE Covers(s, x)
    <3>1. PICK k \in 1 .. Len(ranges') : ranges'[k].from <= x /\ x < ranges'[k].to
      BY <2>4 DEF Covers
    <3>2. CASE k = i
      BY <1>1, <2>1, <2>3, <3>1, <3>2 DEF Covers
    <3>3. CASE k # i
      BY <2>1, <3>1, <3>3 DEF Covers
    <3>4. QED BY <3>2, <3>3
  <2>5. ASSUME NEW x \in Addr, Covers(s, x), ~Covers(ranges', x)
        PROVE  x >= run.from /\ ~(x >= run.to)
    <3>1. PICK l \in 1 .. Len(s) : s[l].from <= x /\ x < s[l].to
      BY <2>5 DEF Covers
    <3>2. l = i
      BY <2>1, <2>5, <3>1 DEF Covers
    <3>3. ~(r.from <= x /\ x < r.to)
      BY <1>1, <2>1, <2>5 DEF Covers
    <3>4. QED BY <2>3, <3>1, <3>2, <3>3
  <2>6. ASSUME NEW k \in 1 .. Len(ranges'), ranges'[k].from < run.from, ranges'[k].to > run.to
        PROVE  \E j \in 1 .. Len(before) : before[j] = ranges'[k]
    <3>1. k # i
      BY <1>11, <2>1, <2>6 DEF Around
    <3>2. QED BY <1>8, <2>1, <2>6, <3>1
  <2>7. QED BY <2>1, <2>2, <2>4, <2>5, <2>6
<1>12. QED BY <1>9, <1>10, <1>11 DEF SubStep

\* arm joins a range with the ranges it touches, itself among them.
LEMMA MergeStepInv == IInv /\ MergeStep => IInv'
<1> SUFFICES ASSUME IInv, MergeStep PROVE IInv'
  OBVIOUS
<1> DEFINE n == ranges[run.pos]
<1>1. /\ ranges \in Seq(range_t) /\ Ordered(ranges) /\ before \in Seq(range_t)
      /\ run \in RunType /\ run.op = "merge" /\ run.pos \in 1 .. Len(ranges)
  BY DEF IInv, ListInv, WalkInv, MergeStep, Visiting, RunType
<1>2. /\ before' = before /\ ranges' = JoinAll(ranges, n)
      /\ run' \in RunType /\ run'.op = "merge" /\ run'.pos >= 1
  BY <1>1 DEF MergeStep, RunType
<1>3. n \in range_t /\ n.from <= n.to /\ n.from \in Nat /\ n.to \in Nat
  BY <1>1, RangeType DEF Ordered
<1>4. ~Alone(ranges, n)
  <2>1. Touches(n, n)
    BY <1>3 DEF Touches
  <2>2. QED BY <1>1, <2>1 DEF Alone
<1> HIDE DEF n
<1>5. ASSUME NEW x \in Addr PROVE Covers(ranges', x) <=> Covers(ranges, x)
  <2>1. Covers(ranges', x) <=> Covers(ranges, x) \/ (n.from <= x /\ x < n.to)
    BY <1>1, <1>2, <1>3, <1>4, JoinAllCovers
  <2>2. n.from <= x /\ x < n.to => Covers(ranges, x)
    BY <1>1 DEF n, Covers
  <2>3. QED BY <2>1, <2>2
<1>6. MergeKeeps'
  BY <1>1, <1>2, <1>5 DEF IInv, MergeKeeps
<1>7. ListInv'
  BY <1>1, <1>2, <1>3, JoinAllType DEF ListInv
<1>8. WalkInv'
  BY <1>2 DEF WalkInv
<1>9. AroundIsOld' /\ SubKeeps'
  BY <1>2 DEF AroundIsOld, SubKeeps
<1>10. QED BY <1>6, <1>7, <1>8, <1>9 DEF IInv

\* Every other step leaves the list alone, or changes it while neither ar-
\* nor arm runs.
LEMMA OtherStepInv ==
  ASSUME IInv, run' \in RunType, ranges' \in Seq(range_t), Ordered(ranges'), before' \in Seq(range_t),
         run'.op \in {"idle", "sort", "list", "bool", "reported"},
         run'.op \in {"sort", "bool"} => run'.pos >= 1
  PROVE  IInv'
BY DEF IInv, ListInv, WalkInv, AroundIsOld, SubKeeps, MergeKeeps

\* A command that starts remembers the list and changes nothing yet.
LEMMA StartInv ==
  ASSUME IInv, NEW f \in Nat, NEW t \in Nat,
         NEW op \in {"sub", "merge", "sort", "list", "bool"}, NEW th \in {"idle", "list", "bool"},
         op = "sub" => f \in Addr /\ t \in Addr /\ f <= t,
         Start(op, f, t, th), ranges' = ranges
  PROVE  IInv'
<1>1. /\ run' \in RunType /\ run'.op = op /\ run'.from = f /\ run'.to = t /\ run'.pos = 1
      /\ before' = ranges
  BY DEF Start, Idle, RunType
<1>2. ListInv' /\ WalkInv'
  BY <1>1 DEF IInv, ListInv, WalkInv
<1>3. AroundIsOld'
  BY <1>1 DEF AroundIsOld
<1>4. SubKeeps' /\ MergeKeeps'
  BY <1>1 DEF SubKeeps, MergeKeeps
<1>5. QED BY <1>2, <1>3, <1>4 DEF IInv

\* Every command of the user keeps the invariant.
LEMMA CommandInv == IInv /\ Command => IInv'
<1> SUFFICES ASSUME IInv, Command PROVE IInv'
  OBVIOUS
<1>1. ranges \in Seq(range_t) /\ Ordered(ranges) /\ before \in Seq(range_t) /\ run \in RunType
  BY DEF IInv, ListInv, WalkInv
<1>2. ASSUME NEW f \in Addr, NEW t \in Addr, AddCommand(f, t) PROVE IInv'
  <2>1. /\ run = Idle /\ run' = run /\ before' = before
        /\ ranges' = ranges_add(ranges, ranges_abs(f, t))
    BY <1>2 DEF AddCommand
  <2>2. ranges' \in Seq(range_t) /\ Ordered(ranges')
    BY <1>1, <2>1, AbsType, AddType
  <2>3. run.op = "idle"
    BY <2>1 DEF Idle
  <2>4. QED BY <1>1, <2>1, <2>2, <2>3, OtherStepInv
<1>3. ASSUME NEW f \in Addr, NEW t \in Addr, SubCommand(f, t) PROVE IInv'
  <2> DEFINE n == ranges_abs(f, t)
  <2>1. n \in range_t /\ n.from <= n.to
    BY AbsType
  <2> HIDE DEF n
  <2>2. n.from \in Addr /\ n.to \in Addr /\ n.from \in Nat /\ n.to \in Nat
    BY <2>1, RangeType
  <2>3. Start("sub", n.from, n.to, "idle") /\ ranges' = ranges
    BY <1>3 DEF SubCommand, n
  <2>4. QED BY <2>1, <2>2, <2>3, StartInv
<1>4. ASSUME NEW f \in Nat, NEW t \in Nat, NEW th \in {"list", "bool"}, SortFirst(f, t, th)
      PROVE  IInv'
  <2> DEFINE op == IF ranges_changed THEN "sort" ELSE th
  <2>1. Start(op, f, t, th) /\ ranges' = ranges
    BY <1>4 DEF SortFirst
  <2>2. op \in {"sort", "list", "bool"}
    BY Zenon
  <2> HIDE DEF op
  <2>3. QED BY <2>1, <2>2, StartInv
<1>5. ASSUME NEW f \in Addr, NEW t \in Addr, BooleanCommand(f, t) PROVE IInv'
  <2>1. f \in Nat /\ t \in Nat
    BY AddrAssumption
  <2>2. QED BY <1>4, <1>5, <2>1 DEF BooleanCommand
<1>6. CASE ListCommand
  BY <1>4, <1>6 DEF ListCommand
<1>7. CASE MergeCommand
  BY <1>7, StartInv DEF MergeCommand
<1>8. CASE ranges_free
  <2>1. run = Idle /\ run' = run /\ before' = before /\ ranges' = <<>>
    BY <1>8 DEF ranges_free
  <2>2. run.op = "idle" /\ Ordered(ranges') /\ ranges' \in Seq(range_t)
    BY <2>1 DEF Idle, Ordered
  <2>3. QED BY <1>1, <2>1, <2>2, OtherStepInv
<1>9. QED BY <1>2, <1>3, <1>5, <1>6, <1>7, <1>8 DEF Command

\* Every step keeps the invariant.
LEMMA NextInv == IInv /\ [Next]_vars => IInv'
<1> SUFFICES ASSUME IInv, [Next]_vars PROVE IInv'
  OBVIOUS
<1>1. ranges \in Seq(range_t) /\ Ordered(ranges) /\ before \in Seq(range_t) /\ run \in RunType
  BY DEF IInv, ListInv, WalkInv
<1>2. CASE SortStep
  <2> DEFINE p == Behind(ranges, run.pos)
  <2>1. run.op = "sort" /\ run.pos \in 1 .. Len(ranges)
    BY <1>1, <1>2 DEF IInv, WalkInv, SortStep, Visiting, RunType
  <2>2. p \in 1 .. Len(ranges)
    BY <1>1, <2>1, BehindType
  <2>3. /\ ranges' = Moved(ranges, run.pos, p)
        /\ before' = before
        /\ run' = [run EXCEPT !.pos = IF p > @ THEN @ ELSE @ + 1,
                              !.ch = IF Smaller(ranges, run.pos) # {} THEN 1 ELSE @]
    BY <1>2 DEF SortStep
  <2> HIDE DEF p
  <2>4. ranges' \in Seq(range_t) /\ Ordered(ranges')
    BY <1>1, <2>1, <2>2, <2>3, MovedType
  <2>5. run' \in RunType /\ run'.op = "sort" /\ run'.pos >= 1
    <3> DEFINE q == IF p > run.pos THEN run.pos ELSE run.pos + 1
    <3> DEFINE c == IF Smaller(ranges, run.pos) # {} THEN 1 ELSE run.ch
    <3>1. run.pos \in Nat /\ run.pos >= 1 /\ run.ch \in {0, 1}
      BY <1>1, <2>1 DEF RunType
    <3>2. q \in Nat /\ q >= 1 /\ c \in {0, 1}
      BY <3>1
    <3>3. run' = [run EXCEPT !.pos = q, !.ch = c]
      BY <2>3, Zenon
    <3> HIDE DEF q, c
    <3>4. QED BY <1>1, <2>1, <3>2, <3>3 DEF RunType
  <2>6. QED BY <1>1, <2>3, <2>4, <2>5, OtherStepInv
<1>3. CASE SortEnd
  <2>1. /\ run' \in RunType /\ run'.op \in {"idle", "list", "bool"} /\ run'.pos = 1
        /\ ranges' = ranges /\ before' = before
    BY <1>1, <1>3 DEF SortEnd, RunType
  <2>2. QED BY <1>1, <2>1, OtherStepInv
<1>4. CASE BooleanStep
  <2> DEFINE r == ranges[run.pos]
  <2>1. /\ run.op = "bool" /\ run.pos <= Len(ranges) /\ ranges' = ranges /\ before' = before
        /\ run' = IF r.from > run.at /\ r.from < run.to
                  THEN [run EXCEPT !.pos = @ + 1, !.at = r.to, !.gaps = @ \union (run.at .. r.from - 1)]
                  ELSE [run EXCEPT !.pos = @ + 1]
    BY <1>4 DEF BooleanStep, Visiting
  <2>2. run.pos \in 1 .. Len(ranges)
    BY <1>1, <2>1 DEF IInv, WalkInv, RunType
  <2>3. r.from \in Nat /\ r.to \in Nat
    BY <1>1, <2>2, RangeType
  <2> HIDE DEF r
  <2>4. (run.at .. r.from - 1) \subseteq Nat
    BY <1>1, <2>3 DEF RunType
  <2>5. run' \in RunType /\ run'.op = "bool" /\ run'.pos >= 1
    <3>1. CASE r.from > run.at /\ r.from < run.to
      <4> DEFINE g == run.gaps \union (run.at .. r.from - 1)
      <4>1. g \in SUBSET Nat
        BY <1>1, <2>4 DEF RunType
      <4>2. run' = [run EXCEPT !.pos = run.pos + 1, !.at = r.to, !.gaps = g]
        BY <2>1, <3>1
      <4> HIDE DEF g
      <4>3. run.pos + 1 \in Nat /\ run.pos + 1 >= 1
        BY <2>2
      <4>4. run' \in RunType
        BY <1>1, <2>3, <4>1, <4>2, <4>3 DEF RunType
      <4>5. run'.op = "bool" /\ run'.pos = run.pos + 1
        BY <1>1, <2>1, <4>2 DEF RunType
      <4>6. QED BY <4>3, <4>4, <4>5
    <3>2. CASE ~(r.from > run.at /\ r.from < run.to)
      BY <1>1, <2>1, <2>2, <3>2, SMTT(30) DEF RunType
    <3>3. QED BY <3>1, <3>2
  <2>6. QED BY <1>1, <2>1, <2>5, OtherStepInv
<1>5. CASE BooleanEnd
  <2>1. (run.at .. run.to - 1) \subseteq Nat
    BY <1>1 DEF RunType
  <2>2. run' \in RunType /\ run'.op = "reported" /\ ranges' = ranges /\ before' = before
    BY <1>1, <1>5, <2>1 DEF BooleanEnd, RunType
  <2>3. QED BY <1>1, <2>2, OtherStepInv
<1>6. CASE Finish
  <2>1. run' = Idle /\ before' = <<>> /\ ranges' = ranges
    BY <1>6 DEF Finish
  <2>2. run' \in RunType /\ run'.op = "idle" /\ before' \in Seq(range_t)
    BY <2>1 DEF Idle, RunType
  <2>3. QED BY <1>1, <2>1, <2>2, OtherStepInv
<1>7. CASE UNCHANGED vars
  <2>1. ranges' = ranges /\ run' = run /\ before' = before
    BY <1>7 DEF vars
  <2>2. QED BY <2>1 DEF IInv, ListInv, WalkInv, AroundIsOld, SubKeeps, MergeKeeps
<1>8. QED BY <1>2, <1>3, <1>4, <1>5, <1>6, <1>7, CommandInv, SubStepInv, MergeStepInv DEF Next, Step

------------------------------------------------------------------------------
(***************************************************************************)
(* The theorems.                                                           *)
(***************************************************************************)
\* The strengthened invariant holds in every reachable state.
THEOREM Invariance == Spec => []IInv
BY InitInv, NextInv, PTL DEF Spec

\* The two flags stay Boolean.
LEMMA FlagsType ==
  ASSUME ranges_changed \in BOOLEAN, cut \in BOOLEAN, [Next]_vars
  PROVE  ranges_changed' \in BOOLEAN /\ cut' \in BOOLEAN
BY Zenon DEF Next, Command, Step, AddCommand, SubCommand, BooleanCommand, MergeCommand, ListCommand,
   SortFirst, ranges_free, SubStep, MergeStep, SortStep, SortEnd, BooleanStep, BooleanEnd, Finish, vars

\* Every reachable state is well typed: whatever is added, cut, split,
\* joined and sorted, the ends of every range of the list stay in order.
THEOREM TypeCorrect == Spec => []TypeOK
<1> DEFINE B == ranges_changed \in BOOLEAN /\ cut \in BOOLEAN
<1>1. Init => B
  BY Zenon DEF Init
<1>2. B /\ [Next]_vars => B'
  BY FlagsType, Zenon
<1>3. IInv /\ B => TypeOK
  BY Zenon DEF IInv, ListInv, WalkInv, RunType, TypeOK
<1> HIDE DEF B
<1>4. QED BY <1>1, <1>2, <1>3, Invariance, PTL DEF Spec

\* arm changes ranges in place while it walks over them, and for every list
\* the addresses it covers stay the same.
THEOREM MergeCorrect == Spec => []MergeKeeps
<1>1. IInv => MergeKeeps
  BY DEF IInv
<1>2. QED BY <1>1, Invariance, PTL

\* ar- never makes the list cover more; what it loses lies in the
\* subtracted range, or above it in a range that reached around it.
THEOREM SubCorrect == Spec => []SubKeeps
<1>1. IInv => SubKeeps
  BY DEF IInv
<1>2. QED BY <1>1, Invariance, PTL

\* ar+ makes the list cover what it covered and the new range.
THEOREM AddCorrect == Spec => AddIsUnion
<1> DEFINE A == run = Idle /\ run' = Idle => \A f, t \in Addr : AddCommand(f, t) =>
                  \A x \in Addr :
                    Covers(ranges', x) <=> Covers(ranges, x) \/ (f <= x /\ x < t) \/ (t <= x /\ x < f)
<1>1. IInv => A
  <2> SUFFICES ASSUME IInv, NEW f \in Addr, NEW t \in Addr, AddCommand(f, t), NEW x \in Addr
               PROVE  Covers(ranges', x) <=> Covers(ranges, x) \/ (f <= x /\ x < t) \/ (t <= x /\ x < f)
    OBVIOUS
  <2> DEFINE n == ranges_abs(f, t)
  <2>1. n \in range_t /\ n.from <= n.to
    BY AbsType
  <2>2. ranges' = ranges_add(ranges, n)
    BY DEF AddCommand
  <2>3. (n.from <= x /\ x < n.to) <=> (f <= x /\ x < t) \/ (t <= x /\ x < f)
    BY AddrAssumption DEF ranges_abs
  <2> HIDE DEF n
  <2>4. ranges \in Seq(range_t) /\ Ordered(ranges)
    BY DEF IInv, ListInv
  <2>5. QED BY <2>1, <2>2, <2>3, <2>4, AddCovers
<1>2. QED BY <1>1, Invariance, PTL DEF AddIsUnion
------------------------------------------------------------------------------
(***************************************************************************)
(* The sort.                                                               *)
(***************************************************************************)
\* Where the element at place k comes from when element i moves to place p.
Source(i, p, k) ==
  IF k = p THEN i
  ELSE IF k < p THEN (IF k < i THEN k ELSE k + 1)
  ELSE (IF k - 1 < i THEN k - 1 ELSE k)

\* Moving an element permutes the list.
LEMMA MovedSource ==
  ASSUME NEW s \in Seq(range_t), Ordered(s), NEW i \in 1 .. Len(s), NEW p \in 1 .. Len(s)
  PROVE  /\ Len(Moved(s, i, p)) = Len(s)
         /\ \A k \in 1 .. Len(s) : /\ Source(i, p, k) \in 1 .. Len(s)
                                   /\ Moved(s, i, p)[k] = s[Source(i, p, k)]
         /\ \A j, k \in 1 .. Len(s) : Source(i, p, j) = Source(i, p, k) => j = k
<1> DEFINE o == Without(s, i)
<1>1. \A k \in 1 .. Len(s) - 1 : o[k] = IF k < i THEN s[k] ELSE s[k + 1]
  BY WithoutType
<1> HIDE DEF o
<1> DEFINE m == [k \in 1 .. Len(s) |-> IF k < p THEN o[k] ELSE IF k = p THEN s[i] ELSE o[k - 1]]
<1>2. Moved(s, i, p) = m
  BY DEF Moved, o
<1>3. Moved(s, i, p) \in Seq(range_t)
  BY MovedType
<1>4. DOMAIN m = 1 .. Len(s)
  OBVIOUS
<1>5. Len(m) = Len(s)
  <2>1. Len(s) \in Nat
    OBVIOUS
  <2>2. m \in Seq(range_t)
    BY <1>2, <1>3
  <2> HIDE DEF m
  <2>3. DOMAIN m = 1 .. Len(m) /\ Len(m) \in Nat
    BY <2>2
  <2>4. QED BY <1>4, <2>1, <2>3
<1>6. ASSUME NEW k \in 1 .. Len(s)
      PROVE  Source(i, p, k) \in 1 .. Len(s) /\ m[k] = s[Source(i, p, k)]
  <2>1. CASE k = p
    BY <2>1 DEF Source
  <2>2. CASE k < p
    BY <2>2, <1>1 DEF Source
  <2>3. CASE k > p
    BY <2>3, <1>1 DEF Source
  <2>4. QED BY <2>1, <2>2, <2>3
<1>7. \A j, k \in 1 .. Len(s) : Source(i, p, j) = Source(i, p, k) => j = k
  BY DEF Source
<1> HIDE DEF m
<1>8. QED BY <1>2, <1>5, <1>6, <1>7

\* The elements before place q are at most the ones behind them: the part of
\* the list the sort has passed.
Passed(s, q) == \A j, k \in 1 .. Len(s) : j < q /\ j < k => s[j].from <= s[k].from

\* The element goes behind the last smaller one, and from there on nothing
\* is smaller.
LEMMA BehindFacts ==
  ASSUME NEW s \in Seq(range_t), NEW i \in 1 .. Len(s), Behind(s, i) <= i
  PROVE  \A x \in 1 .. Len(s) : x >= Behind(s, i) => s[i].from <= s[x].from
<1> DEFINE T == Smaller(s, i)
<1>0. \A x \in 1 .. Len(s) : s[x].from \in Nat
  BY RangeType
<1>1. \A x \in 1 .. Len(s) : x \notin T => s[i].from <= s[x].from
  BY <1>0 DEF Smaller
<1>2. CASE T = {}
  BY <1>1, <1>2
<1>3. CASE T # {}
  <2> DEFINE j == CHOOSE j \in T : \A k \in T : j >= k
  <2>1. T \subseteq 1 .. Len(s)
    BY DEF Smaller
  <2>2. \E x \in T : \A y \in T : x >= y
    <3> HIDE DEF T, j
    <3>1. Len(s) \in Nat
      OBVIOUS
    <3> QED BY <1>3, <2>1, <3>1, Largest, Zenon
  <2>3. j \in T /\ \A k \in T : j >= k
    BY <2>2
  <2>4. Behind(s, i) = IF j > i THEN j ELSE j + 1
    BY <1>3 DEF Behind
  <2> HIDE DEF j, T
  <2>5. Behind(s, i) = j + 1
    BY <2>1, <2>3, <2>4
  <2>6. QED BY <1>1, <2>1, <2>3, <2>5
<1>4. QED BY <1>2, <1>3

\* One step of the sort extends the part it has passed, or leaves it.
LEMMA SortPasses ==
  ASSUME NEW s \in Seq(range_t), Ordered(s), NEW i \in 1 .. Len(s), Passed(s, i)
  PROVE  Passed(Moved(s, i, Behind(s, i)), IF Behind(s, i) > i THEN i ELSE i + 1)
<1>0. PICK p : p = Behind(s, i)
  OBVIOUS
<1>1. p \in 1 .. Len(s)
  BY <1>0, BehindType
<1>2. PICK m : m = Moved(s, i, p)
  OBVIOUS
<1>3. Len(m) = Len(s) /\ \A k \in 1 .. Len(s) : Source(i, p, k) \in 1 .. Len(s) /\ m[k] = s[Source(i, p, k)]
  BY <1>1, <1>2, MovedSource
<1>4. CASE p > i
  <2>1. ASSUME NEW j \in 1 .. Len(s), NEW k \in 1 .. Len(s), j < i, j < k
        PROVE  m[j].from <= m[k].from
    <3>1. Source(i, p, j) = j /\ Source(i, p, k) > j
      BY <1>1, <1>4, <2>1 DEF Source
    <3>2. QED BY <1>3, <2>1, <3>1 DEF Passed
  <2>2. Passed(m, i)
    BY <1>3, <2>1 DEF Passed
  <2>3. QED BY <1>0, <1>2, <1>4, <2>2
<1>5. CASE p <= i
  <2>0. \A x \in 1 .. Len(s) : x >= p => s[i].from <= s[x].from
    BY <1>0, <1>5, BehindFacts
  <2>1. ASSUME NEW j \in 1 .. Len(s), NEW k \in 1 .. Len(s), j < i + 1, j < k
        PROVE  m[j].from <= m[k].from
    <3>1. CASE j = p
      <4>1. Source(i, p, j) = i /\ Source(i, p, k) >= p
        BY <1>1, <1>5, <2>1, <3>1 DEF Source
      <4>2. QED BY <1>3, <2>0, <4>1
    <3>2. CASE j # p
      <4>1. Source(i, p, j) < i /\ Source(i, p, k) > Source(i, p, j)
        BY <1>1, <1>5, <2>1, <3>2 DEF Source
      <4>2. QED BY <1>3, <4>1 DEF Passed
    <3>3. QED BY <3>1, <3>2
  <2>2. Passed(m, i + 1)
    BY <1>3, <2>1 DEF Passed
  <2>3. ~(p > i)
    BY <1>1, <1>5
  <2>4. QED BY <1>0, <1>2, <2>2, <2>3
<1>6. QED BY <1>1, <1>4, <1>5

\* When the sort has passed the whole list, it is sorted.
LEMMA PassedSorted ==
  ASSUME NEW s \in Seq(range_t), NEW q \in Nat, q > Len(s), Passed(s, q)
  PROVE  Sorted(s)
BY DEF Passed, Sorted

\* Joining a range with every range it touches keeps a sorted list sorted: a
\* range that is not joined lies behind all of it or in front.
LEMMA JoinSorted ==
  ASSUME NEW s \in Seq(range_t), Ordered(s), Sorted(s), NEW n \in range_t, n.from <= n.to
  PROVE  Sorted(JoinAll(s, n))
<1>1. /\ Len(JoinAll(s, n)) = Len(s)
      /\ \A i \in 1 .. Len(s) : JoinAll(s, n)[i] = IF Touches(s[i], n) THEN Joined(s[i], n) ELSE s[i]
  BY JoinAllType
<1>2. \A i \in 1 .. Len(s) : /\ s[i].from \in Nat /\ s[i].to \in Nat /\ s[i].from <= s[i].to
                             /\ Joined(s[i], n).from = IF n.from < s[i].from THEN n.from ELSE s[i].from
  BY RangeType DEF Ordered, Joined
<1>3. n.from \in Nat /\ n.to \in Nat
  BY RangeType
<1>4. ASSUME NEW i \in 1 .. Len(s), NEW j \in 1 .. Len(s), i < j
      PROVE  JoinAll(s, n)[i].from <= JoinAll(s, n)[j].from
  <2>1. s[i].from <= s[j].from
    BY <1>4 DEF Sorted
  <2>2. CASE Touches(s[i], n)
    BY <1>1, <1>2, <1>3, <2>1, <2>2
  <2>3. CASE ~Touches(s[i], n) /\ ~Touches(s[j], n)
    BY <1>1, <2>1, <2>3
  <2>4. CASE ~Touches(s[i], n) /\ Touches(s[j], n)
    <3>1. s[j].from <= n.to
      BY <2>4 DEF Touches
    <3>2. ~(s[i].from <= n.to /\ s[i].to >= n.from)
      BY <2>4 DEF Touches
    <3>3. s[i].from <= n.from
      BY <1>2, <1>3, <2>1, <3>1, <3>2
    <3>4. QED BY <1>1, <1>2, <1>3, <2>1, <2>4, <3>3
  <2>5. QED BY <2>2, <2>3, <2>4
<1>5. QED BY <1>1, <1>4 DEF Sorted

\* The list s has the ranges of b, each as often.
Rearranged(s, b) ==
  /\ \E p \in [1 .. Len(s) -> 1 .. Len(b)] :
       /\ \A i, j \in 1 .. Len(s) : p[i] = p[j] => i = j
       /\ \A i \in 1 .. Len(s) : s[i] = b[p[i]]
  /\ Len(s) = Len(b)

\* A list is a rearrangement of itself, and moving an element rearranges it.
LEMMA RearrangedSelf ==
  ASSUME NEW s \in Seq(range_t)
  PROVE  Rearranged(s, s)
<1> DEFINE p == [i \in 1 .. Len(s) |-> i]
<1>1. p \in [1 .. Len(s) -> 1 .. Len(s)]
  OBVIOUS
<1>2. /\ \A i, j \in 1 .. Len(s) : p[i] = p[j] => i = j
      /\ \A i \in 1 .. Len(s) : s[i] = s[p[i]]
  OBVIOUS
<1> HIDE DEF p
<1>3. QED BY <1>1, <1>2 DEF Rearranged

\* Moving an element of a rearranged list keeps it one: the places compose.
LEMMA RearrangedMoved ==
  ASSUME NEW s \in Seq(range_t), Ordered(s), NEW b, Rearranged(s, b),
         NEW i \in 1 .. Len(s), NEW q \in 1 .. Len(s)
  PROVE  Rearranged(Moved(s, i, q), b)
<1>1. PICK p \in [1 .. Len(s) -> 1 .. Len(b)] :
        /\ \A j, k \in 1 .. Len(s) : p[j] = p[k] => j = k
        /\ \A j \in 1 .. Len(s) : s[j] = b[p[j]]
  BY DEF Rearranged
<1>2. PICK m : m = Moved(s, i, q)
  OBVIOUS
<1>3. /\ Len(m) = Len(s)
      /\ \A k \in 1 .. Len(s) : Source(i, q, k) \in 1 .. Len(s) /\ m[k] = s[Source(i, q, k)]
      /\ \A j, k \in 1 .. Len(s) : Source(i, q, j) = Source(i, q, k) => j = k
  BY <1>2, MovedSource, SMTT(30)
<1> DEFINE r == [k \in 1 .. Len(m) |-> p[Source(i, q, k)]]
<1>4. r \in [1 .. Len(m) -> 1 .. Len(b)]
  BY <1>3
<1>5. /\ \A j, k \in 1 .. Len(m) : r[j] = r[k] => j = k
      /\ \A j \in 1 .. Len(m) : m[j] = b[r[j]]
  BY <1>1, <1>3
<1> HIDE DEF r
<1>6. Len(m) = Len(b)
  BY <1>3 DEF Rearranged
<1>7. Rearranged(m, b)
  BY <1>4, <1>5, <1>6 DEF Rearranged
<1>8. QED BY <1>2, <1>7

------------------------------------------------------------------------------
(***************************************************************************)
(* What a listing and arb rely on.  ranges_changed and cut together tell   *)
(* when the list may be out of order, also while a command walks over it.  *)
(***************************************************************************)
\* A sort has its reason, and what it has passed is in order.
SortInv ==
  run.op = "sort" =>
    /\ ranges_changed = TRUE
    /\ Passed(ranges, run.pos)
    /\ run.at = run.from

\* Outside a sort only the two flags allow a list that is not sorted.
OrderKnown ==
  /\ run.op # "sort" => ranges_changed = TRUE \/ cut = TRUE \/ Sorted(ranges)
  /\ run.op \in {"list", "bool", "reported"} => cut = TRUE \/ Sorted(ranges)

\* No range is lost, made or changed by a listing.
SameRanges == run.op \in {"sort", "list", "bool", "reported"} => Rearranged(ranges, before)

\* Up to the place arb has reached, what is not covered is a gap.
GapsSoFar ==
  run.op = "bool" =>
    \A x \in Addr : run.from <= x /\ x < run.at => x \in run.gaps \/ Covers(ranges, x)

\* At the end all of the interval is either covered or a gap.
GapsComplete ==
  run.op = "reported" =>
    \A x \in Addr : run.from <= x /\ x < run.to => x \in run.gaps \/ Covers(ranges, x)

LInv == SortInv /\ OrderKnown /\ SameRanges /\ GapsSoFar /\ GapsComplete

\* Steps outside of listings: only the order of the list matters.
LEMMA OrderOnly ==
  ASSUME run'.op \in {"idle", "sub", "merge"},
         ranges_changed' = TRUE \/ cut' = TRUE \/ Sorted(ranges')
  PROVE  LInv'
BY DEF LInv, SortInv, OrderKnown, SameRanges, GapsSoFar, GapsComplete

\* A command that starts.
LEMMA StartListing ==
  ASSUME IInv, LInv, NEW f, NEW t, NEW op \in {"sub", "merge", "sort", "list", "bool"}, NEW th,
         Start(op, f, t, th), UNCHANGED <<ranges, ranges_changed, cut>>,
         op = "sort" => ranges_changed = TRUE,
         op \in {"list", "bool"} => ranges_changed # TRUE,
         op = "bool" => f \in Nat
  PROVE  LInv'
<1>1. /\ run'.op = op /\ run'.from = f /\ run'.at = f /\ run'.pos = 1 /\ run.op = "idle"
      /\ before' = ranges
  BY DEF Start, Idle
<1>2. ranges \in Seq(range_t)
  BY DEF IInv, ListInv
<1>3. ranges_changed = TRUE \/ cut = TRUE \/ Sorted(ranges)
  BY <1>1 DEF LInv, OrderKnown
<1>4. CASE op \in {"sub", "merge"}
  BY <1>1, <1>3, <1>4, OrderOnly
<1>5. CASE op \in {"sort", "list", "bool"}
  <2>1. SortInv'
    BY <1>1, <1>2 DEF SortInv, Passed
  <2>2. OrderKnown'
    BY <1>1, <1>3, <1>5 DEF OrderKnown
  <2>3. SameRanges'
    BY <1>1, <1>2, RearrangedSelf DEF SameRanges
  <2>4. GapsSoFar' /\ GapsComplete'
    BY <1>1, <1>5, AddrAssumption DEF GapsSoFar, GapsComplete
  <2>5. QED BY <2>1, <2>2, <2>3, <2>4 DEF LInv
<1>6. QED BY <1>4, <1>5

\* ar- leaves the list in order, or one of the flags set.
LEMMA SubStepOrder ==
  ASSUME IInv, LInv, ranges_changed \in BOOLEAN, cut \in BOOLEAN, SubStep
  PROVE  LInv'
<1>1. /\ ranges \in Seq(range_t) /\ Ordered(ranges) /\ run \in RunType
      /\ run.op = "sub" /\ run.pos \in 1 .. Len(ranges)
      /\ run.from \in Addr /\ run.to \in Addr /\ run.from <= run.to
  BY DEF IInv, ListInv, WalkInv, SubStep, Visiting, RunType
<1>2. ranges_changed = TRUE \/ cut = TRUE \/ Sorted(ranges)
  BY <1>1 DEF LInv, OrderKnown
<1>3. PICK old : old = ranges[run.pos]
  OBVIOUS
<1>4. PICK r : r = Cut(old)
  OBVIOUS
<1>5. old \in range_t /\ old.from \in Nat /\ old.to \in Nat /\ old.from <= old.to
  BY <1>1, <1>3, RangeType DEF Ordered
<1>5a. run.from \in Nat /\ run.to \in Nat
  BY <1>1, AddrAssumption
<1>5b. r \in range_t
  BY <1>1, <1>4, <1>5 DEF Cut, range_t
<1>5c. r.from \in Nat /\ r.to \in Nat
  BY <1>5b, RangeType
<1>6. run'.op = "sub"
  BY <1>1 DEF SubStep, RunType
<1>7. (cut = TRUE => cut' = TRUE) /\ (r.from # old.from => cut' = TRUE)
  <2>1. cut' = (cut \/ r.from # old.from)
    BY <1>3, <1>4, Zenon DEF SubStep
  <2>2. QED BY <2>1, Zenon
<1>8. ranges_changed' = TRUE \/ cut' = TRUE \/ Sorted(ranges')
  <2>1. CASE Inside(r)
    <3>1. ~Around(r)
      BY <1>5a, <1>5c, <2>1 DEF Inside, Around
    <3>2. ranges_changed' = TRUE
      BY <1>3, <1>4, <2>1, <3>1 DEF SubStep
    <3>3. QED BY <3>2
  <2>2. CASE Around(r)
    <3>1. ~Inside(r)
      BY <1>5a, <1>5c, <2>2 DEF Inside, Around
    <3>2. ranges_changed' = ranges_changed /\ ranges' = Split(ranges, run.pos)
      BY <1>3, <1>4, <2>2, <3>1 DEF SubStep
    <3>3. r = old
      BY <1>1, <1>4, <1>5, <2>2, AddrAssumption DEF Cut, Around
    <3>4. PICK u : u = [ranges EXCEPT ![run.pos].to = run.from]
      OBVIOUS
    <3>5. PICK n : n = ranges_abs(run.to, run.from)
      OBVIOUS
    <3>6. n \in range_t /\ n.from <= n.to
      BY <1>1, <3>5, AbsType
    <3>7. n.from = run.from /\ n.to = run.to
      BY <1>1, <1>5a, <3>5 DEF ranges_abs
    <3>8. [old EXCEPT !.to = run.from] \in range_t
      BY <1>1, <1>5 DEF range_t
    <3>9. u = [ranges EXCEPT ![run.pos] = [old EXCEPT !.to = run.from]]
      BY <1>3, <3>4
    <3>10. /\ u \in Seq(range_t) /\ Len(u) = Len(ranges)
           /\ \A k \in 1 .. Len(ranges) : u[k] = IF k = run.pos THEN [old EXCEPT !.to = run.from] ELSE ranges[k]
      BY <1>1, <3>8, <3>9
    <3>11. u[run.pos].from = old.from /\ u[run.pos].to = run.from
      BY <1>1, <1>5, <3>10 DEF range_t
    <3>12. Ordered(u)
      BY <1>1, <1>5, <2>2, <3>3, <3>10, <3>11, AddrAssumption DEF Ordered, Around
    <3>13. \A k \in 1 .. Len(ranges) : u[k].from = ranges[k].from
      BY <1>3, <3>10, <3>11
    <3>14. Sorted(ranges) => Sorted(u)
      BY <3>10, <3>13 DEF Sorted
    <3>15. ~Alone(u, n)
      <4>1. Touches(u[run.pos], n)
        BY <1>1, <1>5, <1>5a, <2>2, <3>3, <3>7, <3>11 DEF Touches, Around
      <4>2. QED BY <1>1, <3>10, <4>1 DEF Alone
    <3>16. ranges' = JoinAll(u, n)
      BY <3>2, <3>4, <3>5, <3>15 DEF Split, ranges_add
    <3>17. Sorted(ranges) => Sorted(ranges')
      BY <3>6, <3>10, <3>12, <3>14, <3>16, JoinSorted
    <3>18. QED BY <1>2, <1>7, <3>2, <3>17
  <2>3. CASE ~Inside(r) /\ ~Around(r)
    <3>1. ranges_changed' = ranges_changed /\ ranges' = [ranges EXCEPT ![run.pos] = r]
      BY <1>3, <1>4, <2>3 DEF SubStep
    <3>2. CASE r.from # old.from
      BY <1>7, <3>2
    <3>3. CASE r.from = old.from
      <4>1. \A k \in 1 .. Len(ranges) : ranges'[k].from = ranges[k].from
        BY <1>1, <1>3, <3>1, <3>3
      <4>2. Len(ranges') = Len(ranges)
        BY <1>1, <3>1
      <4>3. Sorted(ranges) => Sorted(ranges')
        BY <4>1, <4>2 DEF Sorted
      <4>4. QED BY <1>2, <1>7, <3>1, <4>3
    <3>4. QED BY <3>2, <3>3
  <2>4. QED BY <2>1, <2>2, <2>3
<1>9. QED BY <1>6, <1>8, OrderOnly

\* arm leaves a sorted list sorted.
LEMMA MergeStepOrder ==
  ASSUME IInv, LInv, MergeStep
  PROVE  LInv'
<1>1. /\ ranges \in Seq(range_t) /\ Ordered(ranges) /\ run \in RunType
      /\ run.op = "merge" /\ run.pos \in 1 .. Len(ranges)
  BY DEF IInv, ListInv, WalkInv, MergeStep, Visiting, RunType
<1>2. ranges[run.pos] \in range_t /\ ranges[run.pos].from <= ranges[run.pos].to
  BY <1>1 DEF Ordered
<1>3. Sorted(ranges) => Sorted(ranges')
  BY <1>1, <1>2, JoinSorted DEF MergeStep
<1>4. run'.op = "merge" /\ ranges_changed' = ranges_changed /\ cut' = cut
  BY <1>1 DEF MergeStep, RunType
<1>5. ranges_changed = TRUE \/ cut = TRUE \/ Sorted(ranges)
  BY <1>1 DEF LInv, OrderKnown
<1>6. QED BY <1>3, <1>4, <1>5, OrderOnly

\* The sort keeps the ranges and ends with a sorted list.
LEMMA SortStepOrder ==
  ASSUME IInv, LInv, SortStep
  PROVE  LInv'
<1>1. /\ ranges \in Seq(range_t) /\ Ordered(ranges) /\ run \in RunType
      /\ run.op = "sort" /\ run.pos \in 1 .. Len(ranges)
  BY DEF IInv, ListInv, WalkInv, SortStep, Visiting, RunType
<1>2. PICK p : p = Behind(ranges, run.pos)
  OBVIOUS
<1>3. p \in 1 .. Len(ranges)
  BY <1>1, <1>2, BehindType
<1>4. PICK c : c = IF Smaller(ranges, run.pos) # {} THEN 1 ELSE run.ch
  OBVIOUS
<1>5. /\ ranges' = Moved(ranges, run.pos, p)
      /\ run' = [run EXCEPT !.pos = IF p > run.pos THEN run.pos ELSE run.pos + 1, !.ch = c]
      /\ UNCHANGED <<ranges_changed, before, cut>>
  BY <1>2, <1>4, Zenon DEF SortStep
<1>6. /\ run'.op = "sort" /\ run'.pos = IF p > run.pos THEN run.pos ELSE run.pos + 1
      /\ run'.at = run.at /\ run'.from = run.from
  BY <1>1, <1>5 DEF RunType
<1>7. Passed(ranges', run'.pos)
  <2>1. Passed(ranges, run.pos)
    BY <1>1 DEF LInv, SortInv
  <2>2. Passed(Moved(ranges, run.pos, p), IF p > run.pos THEN run.pos ELSE run.pos + 1)
    BY <1>1, <1>2, <2>1, SortPasses
  <2>3. QED BY <1>5, <1>6, <2>2
<1>8. Rearranged(ranges', before')
  <2>1. Rearranged(ranges, before)
    BY <1>1 DEF LInv, SameRanges
  <2>2. QED BY <1>1, <1>3, <1>5, <2>1, RearrangedMoved
<1>9. SortInv'
  BY <1>1, <1>5, <1>6, <1>7 DEF LInv, SortInv
<1>10. QED BY <1>6, <1>8, <1>9 DEF LInv, OrderKnown, SameRanges, GapsSoFar, GapsComplete

\* At its end the sort has passed the whole list.
LEMMA SortEndOrder ==
  ASSUME IInv, LInv, SortEnd
  PROVE  LInv'
<1>1. /\ ranges \in Seq(range_t) /\ run \in RunType
      /\ run.op = "sort" /\ run.pos > Len(ranges)
  BY DEF IInv, ListInv, WalkInv, SortEnd, Visited
<1>2. Sorted(ranges)
  BY <1>1, PassedSorted DEF LInv, SortInv, RunType
<1>3. /\ run'.op = run.then /\ run'.at = run'.from /\ run.then \in {"idle", "list", "bool"}
      /\ run'.at \in Nat /\ ranges' = ranges /\ before' = before
  BY <1>1 DEF SortEnd, RunType, LInv, SortInv
<1>4. Rearranged(ranges, before)
  BY <1>1 DEF LInv, SameRanges
<1>5. QED BY <1>2, <1>3, <1>4, AddrAssumption DEF LInv, SortInv, OrderKnown, SameRanges, GapsSoFar, GapsComplete

\* arb notes the addresses between the place it has reached and the next
\* range, and goes on behind the range.
LEMMA BooleanStepOrder ==
  ASSUME IInv, LInv, BooleanStep
  PROVE  LInv'
<1>1. /\ ranges \in Seq(range_t) /\ run \in RunType
      /\ run.op = "bool" /\ run.pos \in 1 .. Len(ranges)
  BY DEF IInv, ListInv, WalkInv, BooleanStep, Visiting, RunType
<1>2. PICK r : r = ranges[run.pos]
  OBVIOUS
<1>3. r.from \in Nat /\ r.to \in Nat
  BY <1>1, <1>2, RangeType
<1>4. UNCHANGED <<ranges, ranges_changed, before, cut>>
  BY DEF BooleanStep
<1>5. /\ run'.op = "bool" /\ run'.from = run.from
      /\ \A x \in Addr : run'.from <= x /\ x < run'.at => x \in run'.gaps \/ Covers(ranges, x)
  <2>0. \A x \in Addr : run.from <= x /\ x < run.at => x \in run.gaps \/ Covers(ranges, x)
    BY <1>1 DEF LInv, GapsSoFar
  <2>1. CASE r.from > run.at /\ r.from < run.to
    <3>1. PICK g : g = run.gaps \union (run.at .. r.from - 1)
      OBVIOUS
    <3>2. run' = [run EXCEPT !.pos = run.pos + 1, !.at = r.to, !.gaps = g]
      BY <1>2, <2>1, <3>1 DEF BooleanStep
    <3>3. run'.op = "bool" /\ run'.from = run.from /\ run'.at = r.to /\ run'.gaps = g
      BY <1>1, <3>2 DEF RunType
    <3>4. ASSUME NEW x \in Addr, run.from <= x, x < r.to PROVE x \in g \/ Covers(ranges, x)
      <4>1. x \in Nat /\ run.at \in Nat
        BY <1>1, AddrAssumption DEF RunType
      <4>2. CASE x < run.at
        BY <2>0, <3>1, <3>4, <4>2
      <4>3. CASE run.at <= x /\ x < r.from
        BY <1>3, <3>1, <4>1, <4>3
      <4>4. CASE r.from <= x
        BY <1>1, <1>2, <3>4, <4>4 DEF Covers
      <4>5. QED BY <1>3, <4>1, <4>2, <4>3, <4>4
    <3>5. QED BY <3>3, <3>4
  <2>2. CASE ~(r.from > run.at /\ r.from < run.to)
    <3>1. run' = [run EXCEPT !.pos = run.pos + 1]
      BY <1>2, <2>2 DEF BooleanStep
    <3>2. run'.op = "bool" /\ run'.from = run.from /\ run'.at = run.at /\ run'.gaps = run.gaps
      BY <1>1, <3>1 DEF RunType
    <3>3. QED BY <2>0, <3>2
  <2>3. QED BY <2>1, <2>2
<1>6. (ranges_changed = TRUE \/ cut = TRUE \/ Sorted(ranges)) /\ (cut = TRUE \/ Sorted(ranges))
      /\ Rearranged(ranges, before)
  BY <1>1 DEF LInv, OrderKnown, SameRanges
<1>7. QED BY <1>4, <1>5, <1>6 DEF LInv, SortInv, OrderKnown, SameRanges, GapsSoFar, GapsComplete

\* At the end of arb the rest of the interval is a gap.
LEMMA BooleanEndOrder ==
  ASSUME IInv, LInv, BooleanEnd
  PROVE  LInv'
<1>1. /\ ranges \in Seq(range_t) /\ run \in RunType /\ run.op = "bool"
  BY DEF IInv, ListInv, WalkInv, BooleanEnd, Visited
<1>2. UNCHANGED <<ranges, ranges_changed, before, cut>>
  BY DEF BooleanEnd
<1>3. PICK g : g = run.gaps \union (run.at .. run.to - 1)
  OBVIOUS
<1>4. run' = [run EXCEPT !.op = "reported", !.gaps = g]
  BY <1>3 DEF BooleanEnd
<1>5. run'.op = "reported" /\ run'.from = run.from /\ run'.to = run.to /\ run'.gaps = g
  BY <1>1, <1>4 DEF RunType
<1>6. ASSUME NEW x \in Addr, run.from <= x, x < run.to PROVE x \in g \/ Covers(ranges, x)
  <2>1. x \in Nat /\ run.at \in Nat /\ run.to \in Nat
    BY <1>1, AddrAssumption DEF RunType
  <2>2. CASE x < run.at
    BY <1>1, <1>3, <1>6, <2>2 DEF LInv, GapsSoFar
  <2>3. CASE run.at <= x
    BY <1>3, <1>6, <2>1, <2>3
  <2>4. QED BY <2>1, <2>2, <2>3
<1>7. (ranges_changed = TRUE \/ cut = TRUE \/ Sorted(ranges)) /\ (cut = TRUE \/ Sorted(ranges))
      /\ Rearranged(ranges, before)
  BY <1>1 DEF LInv, OrderKnown, SameRanges
<1>8. QED BY <1>2, <1>5, <1>6, <1>7 DEF LInv, SortInv, OrderKnown, SameRanges, GapsSoFar, GapsComplete

\* ar+ joins a range in place, or notes that the list has a new one.
LEMMA AddOrder ==
  ASSUME IInv, LInv, NEW f \in Addr, NEW t \in Addr, AddCommand(f, t)
  PROVE  LInv'
<1>1. ranges \in Seq(range_t) /\ Ordered(ranges) /\ run.op = "idle"
  BY DEF IInv, ListInv, AddCommand, Idle
<1>2. PICK n : n = ranges_abs(f, t)
  OBVIOUS
<1>3. n \in range_t /\ n.from <= n.to
  BY <1>2, AbsType
<1>4. /\ ranges' = ranges_add(ranges, n) /\ run' = run /\ cut' = cut
      /\ ranges_changed' = (ranges_changed \/ Alone(ranges, n))
  BY <1>2, Zenon DEF AddCommand
<1>5. (Alone(ranges, n) => ranges_changed' = TRUE) /\ (ranges_changed = TRUE => ranges_changed' = TRUE)
  BY <1>4, Zenon
<1>6. ~Alone(ranges, n) /\ Sorted(ranges) => Sorted(ranges')
  BY <1>1, <1>3, <1>4, JoinSorted DEF ranges_add
<1>7. ranges_changed = TRUE \/ cut = TRUE \/ Sorted(ranges)
  BY <1>1 DEF LInv, OrderKnown
<1>8. ranges_changed' = TRUE \/ cut' = TRUE \/ Sorted(ranges')
  <2>1. cut' = cut
    BY <1>4
  <2>2. QED BY <1>5, <1>6, <1>7, <2>1, Zenon
<1>9. run'.op = "idle"
  BY <1>1, <1>4
<1>10. QED BY <1>8, <1>9, OrderOnly

\* Every step keeps what listings rely on.
LEMMA ListingNext ==
  ASSUME IInv, LInv, ranges_changed \in BOOLEAN, cut \in BOOLEAN, [Next]_vars
  PROVE  LInv'
<1>1. ASSUME NEW f \in Addr, NEW t \in Addr, SubCommand(f, t) PROVE LInv'
  BY <1>1, StartListing DEF SubCommand
<1>2. ASSUME NEW f \in Nat, NEW t \in Nat, NEW th \in {"list", "bool"}, SortFirst(f, t, th) PROVE LInv'
  <2>0. Start(IF ranges_changed THEN "sort" ELSE th, f, t, th) /\ UNCHANGED <<ranges, ranges_changed, cut>>
    BY <1>2 DEF SortFirst
  <2>1. CASE ranges_changed = TRUE
    <3>1. Start("sort", f, t, th)
      BY <2>0, <2>1, Zenon
    <3>2. QED BY <2>0, <2>1, <3>1, StartListing
  <2>2. CASE ranges_changed = FALSE
    <3>1. Start(th, f, t, th)
      BY <2>0, <2>2, Zenon
    <3>2. ranges_changed # TRUE
      BY <2>2
    <3>3. QED BY <2>0, <3>1, <3>2, StartListing
  <2>3. QED BY <2>1, <2>2, Zenon
<1>3. ASSUME NEW f \in Addr, NEW t \in Addr, BooleanCommand(f, t) PROVE LInv'
  <2>1. f \in Nat /\ t \in Nat
    BY AddrAssumption
  <2>2. QED BY <1>2, <1>3, <2>1 DEF BooleanCommand
<1>4. CASE ListCommand
  BY <1>2, <1>4 DEF ListCommand
<1>5. CASE MergeCommand
  BY <1>5, StartListing DEF MergeCommand
<1>6. CASE ranges_free
  <2>1. ranges' = <<>> /\ run'.op = "idle"
    BY <1>6 DEF ranges_free, Idle
  <2>2. Sorted(ranges')
    BY <2>1 DEF Sorted
  <2>3. QED BY <2>1, <2>2, OrderOnly
<1>7. CASE Finish
  <2>1. run'.op = "idle" /\ UNCHANGED <<ranges, ranges_changed, cut>> /\ run.op # "sort"
    BY <1>7 DEF Finish, Idle, Visited
  <2>2. ranges_changed = TRUE \/ cut = TRUE \/ Sorted(ranges)
    BY <2>1 DEF LInv, OrderKnown
  <2>3. QED BY <2>1, <2>2, OrderOnly
<1>8. CASE UNCHANGED vars
  BY <1>8 DEF vars, LInv, SortInv, OrderKnown, SameRanges, GapsSoFar, GapsComplete, Passed, Sorted, Covers, Rearranged
<1>9. CASE Command
  BY <1>9, <1>1, <1>3, <1>4, <1>5, <1>6, AddOrder DEF Command
<1>10. CASE Step
  BY <1>10, <1>7, SubStepOrder, MergeStepOrder, SortStepOrder, SortEndOrder, BooleanStepOrder, BooleanEndOrder DEF Step
<1>11. QED BY <1>8, <1>9, <1>10 DEF Next

------------------------------------------------------------------------------
(***************************************************************************)
(* What arb reports.  It stands at the start of its interval or at the end *)
(* of a range it has passed; a range that it has passed ends before that   *)
(* place, or begins behind the interval, or may be one it does not see.    *)
(***************************************************************************)
Stands ==
  \/ run.at = run.from
  \/ \E j \in 1 .. run.pos - 1 :
       j \in 1 .. Len(ranges) /\ run.from < ranges[j].from /\ run.at = ranges[j].to

Behindhand(i) == ranges[i].to <= run.at \/ ranges[i].from >= run.to \/ PassedOver(i)

GapsOnly ==
  \A x \in run.gaps :
    /\ run.from <= x /\ x < run.to
    /\ \A i \in 1 .. Len(ranges) :
         ranges[i].from <= x /\ x < ranges[i].to => cut = TRUE \/ PassedOver(i)

WalkKnown ==
  /\ run.from <= run.at /\ Stands
  /\ cut = TRUE \/ \A i \in 1 .. Len(ranges) : i < run.pos => Behindhand(i)

GInv ==
  /\ run.op = "sort" => run.gaps = {}
  /\ run.op \in {"bool", "reported"} => GapsOnly
  /\ run.op = "bool" => WalkKnown

\* What lies between the place arb has reached and the next range is covered
\* by ranges it does not see only.
LEMMA GapIsTrue ==
  ASSUME IInv, LInv, GInv, run.op = "bool", cut # TRUE,
         NEW x \in Nat, run.at <= x, x < run.to,
         NEW i \in 1 .. Len(ranges), ranges[i].from <= x, x < ranges[i].to,
         run.pos <= Len(ranges) => x < ranges[run.pos].from
  PROVE  PassedOver(i)
<1>1. /\ ranges \in Seq(range_t) /\ run.pos \in Nat /\ run.at \in Nat /\ run.to \in Nat
      /\ run.pos >= 1
  BY DEF IInv, ListInv, WalkInv, RunType
<1>2. ranges[i].from \in Nat /\ ranges[i].to \in Nat
  BY <1>1, RangeType
<1>3. Sorted(ranges)
  BY DEF LInv, OrderKnown
<1>4. i < run.pos
  <2>1. CASE run.pos > Len(ranges)
    BY <1>1, <2>1
  <2>2. CASE run.pos \in 1 .. Len(ranges) /\ i >= run.pos
    <3>1. ranges[run.pos].from \in Nat
      BY <1>1, <2>2, RangeType
    <3>2. ranges[run.pos].from <= ranges[i].from
      BY <1>2, <1>3, <2>2, <3>1 DEF Sorted
    <3>3. QED BY <1>2, <2>2, <3>1, <3>2
  <2>3. QED BY <1>1, <2>1, <2>2
<1>5. Behindhand(i)
  BY <1>4 DEF GInv, WalkKnown
<1>6. QED BY <1>1, <1>2, <1>5 DEF Behindhand

\* arb passes one range.
LEMMA BooleanStepGaps ==
  ASSUME IInv, LInv, GInv, BooleanStep
  PROVE  GInv'
<1>1. /\ ranges \in Seq(range_t) /\ Ordered(ranges) /\ run \in RunType
      /\ run.op = "bool" /\ run.pos \in 1 .. Len(ranges)
      /\ run.from \in Nat /\ run.to \in Nat /\ run.at \in Nat /\ run.gaps \subseteq Nat
  BY DEF IInv, ListInv, WalkInv, BooleanStep, Visiting, RunType
<1>2. PICK r : r = ranges[run.pos]
  OBVIOUS
<1>3. r.from \in Nat /\ r.to \in Nat /\ r.from <= r.to
  BY <1>1, <1>2, RangeType DEF Ordered
<1>4. ranges' = ranges /\ cut' = cut
  BY DEF BooleanStep
<1>5. run.from <= run.at /\ Stands /\ GapsOnly
      /\ (cut = TRUE \/ \A i \in 1 .. Len(ranges) : i < run.pos => Behindhand(i))
  BY <1>1 DEF GInv, WalkKnown
<1>6. CASE r.from > run.at /\ r.from < run.to
  <2>1. PICK g : g = run.gaps \union (run.at .. r.from - 1)
    OBVIOUS
  <2>2. run' = [run EXCEPT !.pos = run.pos + 1, !.at = r.to, !.gaps = g]
    BY <1>2, <1>6, <2>1 DEF BooleanStep
  <2>3. /\ run'.op = "bool" /\ run'.from = run.from /\ run'.to = run.to /\ run'.at = r.to
        /\ run'.gaps = g /\ run'.pos = run.pos + 1
    BY <1>1, <2>2 DEF RunType
  <2>4. \A i : PassedOver(i)' <=> PassedOver(i)
    BY <1>4, <2>3 DEF PassedOver
  <2>5. ASSUME NEW x \in g PROVE /\ run.from <= x /\ x < run.to
                                 /\ \A i \in 1 .. Len(ranges) :
                                      ranges[i].from <= x /\ x < ranges[i].to => cut = TRUE \/ PassedOver(i)
    <3>1. CASE x \in run.gaps
      BY <1>5, <3>1 DEF GapsOnly
    <3>2. CASE x \in run.at .. r.from - 1
      <4>1. x \in Nat /\ run.at <= x /\ x < r.from /\ x < run.to /\ run.from <= x
        BY <1>1, <1>3, <1>5, <1>6, <3>2
      <4>2. ASSUME NEW i \in 1 .. Len(ranges), ranges[i].from <= x, x < ranges[i].to, cut # TRUE
            PROVE  PassedOver(i)
        BY <1>1, <1>2, <4>1, <4>2, GapIsTrue
      <4>3. QED BY <4>1, <4>2
    <3>3. QED BY <2>1, <2>5, <3>1, <3>2
  <2>6. GapsOnly'
    BY <1>4, <2>3, <2>4, <2>5 DEF GapsOnly
  <2>7. run.from <= r.to /\ Stands'
    <3>1. run.from < r.from /\ run.from <= r.to
      BY <1>1, <1>3, <1>5, <1>6
    <3>2. run.pos \in 1 .. run'.pos - 1
      BY <1>1, <2>3
    <3>3. /\ run.pos \in 1 .. Len(ranges') /\ run'.from < ranges'[run.pos].from
          /\ run'.at = ranges'[run.pos].to
      BY <1>1, <1>2, <1>4, <2>3, <3>1
    <3>4. QED BY <3>1, <3>2, <3>3 DEF Stands
  <2>8. ASSUME NEW i \in 1 .. Len(ranges), i < run.pos + 1, cut # TRUE PROVE Behindhand(i)'
    <3>1. CASE i = run.pos
      BY <1>2, <1>3, <1>4, <2>3, <3>1 DEF Behindhand
    <3>2. CASE i < run.pos
      <4>1. ranges[i].to \in Nat /\ ranges[i].from \in Nat
        BY <1>1, RangeType
      <4>2. Behindhand(i)
        BY <1>5, <2>8, <3>2
      <4>3. run.at <= r.to
        BY <1>1, <1>3, <1>6
      <4>4. ranges[i].to <= r.to \/ ranges[i].from >= run.to \/ PassedOver(i)
        BY <1>1, <1>3, <4>1, <4>2, <4>3 DEF Behindhand
      <4>5. QED BY <1>4, <2>3, <2>4, <4>4 DEF Behindhand
    <3>3. QED BY <1>1, <2>8, <3>1, <3>2
  <2>9. WalkKnown'
    BY <1>4, <2>3, <2>7, <2>8 DEF WalkKnown
  <2>10. QED BY <2>3, <2>6, <2>9 DEF GInv
<1>7. CASE ~(r.from > run.at /\ r.from < run.to)
  <2>1. run' = [run EXCEPT !.pos = run.pos + 1]
    BY <1>2, <1>7 DEF BooleanStep
  <2>2. /\ run'.op = "bool" /\ run'.from = run.from /\ run'.to = run.to /\ run'.at = run.at
        /\ run'.gaps = run.gaps /\ run'.pos = run.pos + 1
    BY <1>1, <2>1 DEF RunType
  <2>3. \A i : PassedOver(i)' <=> PassedOver(i)
    BY <1>4, <2>2 DEF PassedOver
  <2>4. GapsOnly'
    BY <1>4, <1>5, <2>2, <2>3 DEF GapsOnly
  <2>5. Stands'
    BY <1>1, <1>4, <1>5, <2>2 DEF Stands
  <2>6. ASSUME cut # TRUE PROVE r.from >= run.to \/ PassedOver(run.pos)
    <3>1. CASE r.from >= run.to
      BY <3>1
    <3>2. CASE r.from <= run.at /\ run.at = run.from
      BY <1>2, <3>2 DEF PassedOver
    <3>3. CASE r.from <= run.at /\ run.at # run.from
      <4>1. PICK j \in 1 .. run.pos - 1 :
              j \in 1 .. Len(ranges) /\ run.from < ranges[j].from /\ run.at = ranges[j].to
        BY <1>5, <3>3 DEF Stands
      <4>2. Sorted(ranges)
        BY <1>1, <2>6 DEF LInv, OrderKnown
      <4>3. ranges[j].from <= ranges[run.pos].from
        BY <1>1, <4>1, <4>2 DEF Sorted
      <4>4. QED BY <1>2, <3>3, <4>1, <4>3 DEF PassedOver
    <3>4. QED BY <1>1, <1>3, <1>7, <3>1, <3>2, <3>3
  <2>7. ASSUME NEW i \in 1 .. Len(ranges), i < run.pos + 1, cut # TRUE PROVE Behindhand(i)'
    <3>1. CASE i = run.pos
      BY <1>2, <1>4, <2>2, <2>3, <2>6, <2>7, <3>1 DEF Behindhand
    <3>2. CASE i < run.pos
      BY <1>4, <1>5, <2>2, <2>3, <2>7, <3>2 DEF Behindhand
    <3>3. QED BY <1>1, <2>7, <3>1, <3>2
  <2>8. WalkKnown'
    BY <1>4, <1>5, <2>2, <2>5, <2>7 DEF WalkKnown
  <2>9. QED BY <2>2, <2>4, <2>8 DEF GInv
<1>8. QED BY <1>6, <1>7

\* arb ends: every range is behind it.
LEMMA BooleanEndGaps ==
  ASSUME IInv, LInv, GInv, BooleanEnd
  PROVE  GInv'
<1>1. /\ run \in RunType /\ run.op = "bool" /\ run.pos > Len(ranges)
      /\ run.from \in Nat /\ run.to \in Nat /\ run.at \in Nat /\ run.pos \in Nat
      /\ ranges \in Seq(range_t) /\ Len(ranges) \in Nat
  BY DEF IInv, ListInv, WalkInv, BooleanEnd, Visited, RunType
<1>2. ranges' = ranges /\ cut' = cut
  BY DEF BooleanEnd
<1>3. PICK g : g = run.gaps \union (run.at .. run.to - 1)
  OBVIOUS
<1>4. run' = [run EXCEPT !.op = "reported", !.gaps = g]
  BY <1>3 DEF BooleanEnd
<1>5. run'.op = "reported" /\ run'.from = run.from /\ run'.to = run.to /\ run'.gaps = g
  BY <1>1, <1>4 DEF RunType
<1>6. GapsOnly /\ run.from <= run.at
  BY <1>1 DEF GInv, WalkKnown
<1>7. ASSUME NEW x \in g PROVE /\ run.from <= x /\ x < run.to
                               /\ \A i \in 1 .. Len(ranges) :
                                    ranges[i].from <= x /\ x < ranges[i].to => cut = TRUE \/ PassedOver(i)
  <2>1. CASE x \in run.gaps
    BY <1>6, <2>1 DEF GapsOnly
  <2>2. CASE x \in run.at .. run.to - 1
    <3>1. x \in Nat /\ run.at <= x /\ x < run.to /\ run.from <= x
      BY <1>1, <1>6, <2>2
    <3>2. ~(run.pos <= Len(ranges))
      BY <1>1
    <3>3. ASSUME NEW i \in 1 .. Len(ranges), ranges[i].from <= x, x < ranges[i].to, cut # TRUE
          PROVE  PassedOver(i)
      BY <1>1, <3>1, <3>2, <3>3, GapIsTrue
    <3>4. QED BY <3>1, <3>3
  <2>3. QED BY <1>3, <1>7, <2>1, <2>2
<1>8. \A i : PassedOver(i)' <=> PassedOver(i)
  BY <1>2, <1>5 DEF PassedOver
<1>9. GapsOnly'
  BY <1>2, <1>5, <1>7, <1>8 DEF GapsOnly
<1>10. QED BY <1>5, <1>9 DEF GInv

\* A command that starts has reported nothing.
LEMMA StartGaps ==
  ASSUME IInv, NEW f \in Nat, NEW t, NEW op, NEW th, Start(op, f, t, th)
  PROVE  GInv'
<1>1. /\ run'.op = op /\ run'.from = f /\ run'.at = f /\ run'.pos = 1 /\ run'.gaps = {}
  BY DEF Start, Idle
<1>2. QED BY <1>1 DEF GInv, GapsOnly, WalkKnown, Stands

\* Every step keeps what arb knows.
LEMMA GapsNext ==
  ASSUME IInv, LInv, GInv, [Next]_vars
  PROVE  GInv'
<1>1. ASSUME NEW f \in Addr, NEW t \in Addr, SubCommand(f, t) PROVE GInv'
  <2>1. ranges_abs(f, t).from \in Nat
    BY AddrAssumption DEF ranges_abs
  <2>2. QED BY <1>1, <2>1, StartGaps DEF SubCommand
<1>2. ASSUME NEW f \in Addr, NEW t \in Addr, BooleanCommand(f, t) PROVE GInv'
  BY <1>2, StartGaps, AddrAssumption DEF BooleanCommand, SortFirst
<1>3. CASE ListCommand \/ MergeCommand
  BY <1>3, StartGaps DEF ListCommand, MergeCommand, SortFirst
<1>4. CASE ranges_free \/ Finish
  BY <1>4 DEF ranges_free, Finish, Idle, GInv
<1>5. ASSUME NEW f \in Addr, NEW t \in Addr, AddCommand(f, t) PROVE GInv'
  BY <1>5 DEF AddCommand, Idle, GInv
<1>6. CASE SubStep \/ MergeStep \/ SortStep
  <2>1. run \in RunType
    BY DEF IInv, WalkInv
  <2>2. run.op \in {"sub", "merge", "sort"} /\ run'.op = run.op /\ run'.gaps = run.gaps
    BY <1>6, <2>1 DEF SubStep, MergeStep, SortStep, Visiting, RunType
  <2>3. QED BY <2>2 DEF GInv
<1>7. CASE SortEnd
  <2>1. run \in RunType /\ run.op = "sort" /\ run.at = run.from /\ run.gaps = {}
    BY <1>7 DEF IInv, WalkInv, LInv, SortInv, GInv, SortEnd, Visited
  <2>2. /\ run'.op \in {"idle", "list", "bool"} /\ run'.pos = 1 /\ run'.at = run'.from
        /\ run'.gaps = {} /\ run'.at \in Nat
    BY <1>7, <2>1 DEF SortEnd, RunType
  <2>3. QED BY <2>2 DEF GInv, GapsOnly, WalkKnown, Stands
<1>8. CASE UNCHANGED vars
  BY <1>8 DEF vars, GInv, GapsOnly, WalkKnown, Stands, Behindhand, PassedOver
<1>9. CASE Command
  BY <1>9, <1>1, <1>2, <1>3, <1>4, <1>5 DEF Command
<1>10. CASE Step
  BY <1>10, <1>4, <1>6, <1>7, BooleanStepGaps, BooleanEndGaps DEF Step
<1>11. QED BY <1>8, <1>9, <1>10 DEF Next

\* Whatever was added, cut, joined and sorted before, a listing is sorted
\* unless ar- moved a start, it has exactly the ranges of the list, and arb
\* reports each address of its interval that no range covers, and of the others
\* only those of ranges it passes over.
THEOREM ListingsCorrect == Spec => []ListingsTrue
<1> DEFINE B == ranges_changed \in BOOLEAN /\ cut \in BOOLEAN
<1>1. Init => B /\ LInv /\ GInv
  <2>1. Init => B
    BY Zenon DEF Init
  <2>2. Init => LInv
    BY DEF Init, Idle, LInv, SortInv, OrderKnown, SameRanges, GapsSoFar, GapsComplete, Sorted
  <2>3. Init => GInv
    BY DEF Init, Idle, GInv
  <2>4. QED BY <2>1, <2>2, <2>3
<1>2. IInv /\ B /\ LInv /\ GInv /\ [Next]_vars => B' /\ LInv' /\ GInv'
  BY FlagsType, ListingNext, GapsNext, Zenon
<1>3. LInv /\ GInv => ListingsTrue
  <2> SUFFICES ASSUME LInv, GInv PROVE ListingsTrue
    OBVIOUS
  <2>1. ASSUME run.op \in {"list", "bool", "reported"}
        PROVE  (cut \/ Sorted(ranges)) /\ Rearranged(ranges, before)
    <3>1. (cut = TRUE \/ Sorted(ranges)) /\ Rearranged(ranges, before)
      BY <2>1 DEF LInv, OrderKnown, SameRanges
    <3>2. QED BY <3>1, Zenon
  <2>2. SortedWhenUsed
    BY <2>1, Zenon DEF SortedWhenUsed, Rearranged
  <2>3. ASSUME run.op = "reported" PROVE GapsOnly /\ GapsComplete
    BY <2>3 DEF LInv, GInv
  <2>4. GapsTrue
    BY <2>3, Zenon DEF GapsTrue, GapsOnly, GapsComplete
  <2>5. QED BY <2>2, <2>4 DEF ListingsTrue
<1> HIDE DEF B
<1>4. QED BY <1>1, <1>2, <1>3, Invariance, PTL DEF Spec

===============================================================================
