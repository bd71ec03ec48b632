----------------------------- MODULE FlagsProofs -----------------------------
(***************************************************************************)
(* Proofs about Flags, for every set of names, every length of the list    *)
(* and every number of flag spaces.                                        *)
(***************************************************************************)
EXTENDS Flags, WellFoundedInduction, TLAPS

------------------------------------------------------------------------------
(***************************************************************************)
(* Smallest elements, and lists without some of their elements.            *)
(***************************************************************************)
\* A set of natural numbers has a smallest element.
LEMMA Smallest ==
  ASSUME NEW T, T \subseteq Nat, T # {}
  PROVE  \E x \in T : \A y \in T : x <= y
<1> DEFINE R == OpToRel(<, Nat)
<1>1. IsWellFoundedOn(R, Nat)
  BY NatLessThanWellFounded
<1>2. R = {p \in Nat \X Nat : p[1] < p[2]}
  BY Zenon DEF OpToRel
<1>3. ASSUME NEW x \in Nat, NEW y \in Nat, y < x PROVE <<y, x>> \in R
  <2>1. <<y, x>> \in {p \in Nat \X Nat : p[1] < p[2]}
    BY <1>3
  <2>2. QED BY <2>1, <1>2
<1> HIDE DEF R
<1>4. PICK x \in T : \A y \in T : ~(<<y, x>> \in R)
  BY <1>1, WFMin, Zenon
<1>5. ASSUME NEW y \in T PROVE x <= y
  <2>1. x \in Nat /\ y \in Nat
    OBVIOUS
  <2>2. ~(y < x)
    BY <1>3, <1>4, <2>1
  <2>3. QED BY <2>1, <2>2
<1>6. QED BY <1>5

\* First(T) is the smallest element of T.
LEMMA FirstFacts ==
  ASSUME NEW T, T \subseteq Nat, T # {}
  PROVE  First(T) \in T /\ \A y \in T : First(T) <= y
<1>1. \E x \in T : \A y \in T : x <= y
  BY Smallest
<1>2. QED BY <1>1 DEF First

\* Last(T) is the largest element of a bounded T.
LEMMA LastFacts ==
  ASSUME NEW n \in Nat, NEW T, T \subseteq 0 .. n, T # {}
  PROVE  Last(T) \in T /\ \A y \in T : Last(T) >= y
<1> DEFINE U == {n - x : x \in T}
<1>1. U \subseteq Nat /\ U # {}
  OBVIOUS
<1>2. PICK u \in U : \A y \in U : u <= y
  <2> HIDE DEF U
  <2> QED BY <1>1, Smallest
<1>3. PICK x \in T : u = n - x
  OBVIOUS
<1>4. ASSUME NEW y \in T PROVE x >= y
  <2>1. n - x <= n - y
    BY <1>2, <1>3
  <2>2. QED BY <2>1
<1>5. \E i \in T : \A j \in T : i >= j
  BY <1>4
<1>6. QED BY <1>5 DEF Last

\* The list that Without builds is the part of l outside S, in the same order:
\* e says where each element comes from.
Picks(w, l, K, e) ==
  /\ e \in [1 .. Len(w) -> K]
  /\ \A i, j \in 1 .. Len(w) : i < j => e[i] < e[j]
  /\ \A i \in 1 .. Len(w) : w[i] = l[e[i]]
  /\ \A k \in K : \E i \in 1 .. Len(w) : e[i] = k

\* The recursive function in Without exists: it has the value its definition
\* says at every position of the list.
LEMMA WithoutUnfolds ==
  ASSUME NEW T, NEW l \in Seq(T), NEW S
  PROVE  \E f : /\ Without(l, S) = f[Len(l)]
                /\ f \in [0 .. Len(l) -> Seq(T)]
                /\ f[0] = <<>>
                /\ \A k \in 1 .. Len(l) :
                     f[k] = IF k \notin S THEN Append(f[k - 1], l[k]) ELSE f[k - 1]
<1> DEFINE n == Len(l)
           kept == {i \in DOMAIN l : i \notin S}
           Value(g, k) == IF k = 0 THEN <<>>
                          ELSE IF k \in kept THEN Append(g[k - 1], l[k]) ELSE g[k - 1]
           G(m) == {g \in [0 .. m -> Seq(T)] : \A k \in 0 .. m : g[k] = Value(g, k)}
           Bad == {m \in 0 .. n : G(m) = {}}
<1>0. n \in Nat /\ DOMAIN l = 1 .. n /\ \A k \in 1 .. n : l[k] \in T
  OBVIOUS
<1>1. Bad = {}
  <2>1. SUFFICES ASSUME Bad # {} PROVE FALSE
    OBVIOUS
  <2>2. PICK m \in Bad : \A y \in Bad : m <= y
    <3>1. Bad \subseteq Nat
      BY <1>0
    <3> HIDE DEF Bad
    <3>2. QED BY <2>1, <3>1, Smallest
  <2>3. CASE m = 0
    <3> DEFINE z == [k \in 0 .. 0 |-> <<>>]
    <3>1. z \in [0 .. 0 -> Seq(T)] /\ \A k \in 0 .. 0 : z[k] = <<>> /\ k = 0
      BY <1>0
    <3>2. z \in G(0)
      <4> HIDE DEF z, kept
      <4> QED BY <3>1
    <3>3. QED BY <2>2, <2>3, <3>2
  <2>4. CASE m # 0
    <3>0. m \in 0 .. n
      OBVIOUS
    <3>1. m \in 1 .. n /\ m - 1 \in 0 .. n /\ m - 1 \notin Bad
      <4> HIDE DEF Bad, n
      <4> QED BY <2>2, <2>4, <1>0, <3>0
    <3>2. PICK g : g \in G(m - 1)
      BY <3>1
    <3>3. g[m - 1] \in Seq(T) /\ l[m] \in T
      BY <3>1, <3>2, <1>0
    <3> DEFINE v == IF m \in kept THEN Append(g[m - 1], l[m]) ELSE g[m - 1]
               h == [k \in 0 .. m |-> IF k = m THEN v ELSE g[k]]
    <3>4. v \in Seq(T)
      BY <3>3
    <3>5. h \in [0 .. m -> Seq(T)]
      <4> HIDE DEF v
      <4> QED BY <3>1, <3>2, <3>4
    <3>6. ASSUME NEW k \in 0 .. m PROVE h[k] = Value(h, k)
      <4>1. CASE k = m
        <5>1. h[m - 1] = g[m - 1]
          BY <3>1
        <5>2. QED BY <4>1, <5>1, <3>1
      <4>2. CASE k # m
        <5>1. k \in 0 .. m - 1 /\ h[k] = g[k] /\ (k # 0 => h[k - 1] = g[k - 1])
          BY <4>2, <3>1
        <5>2. g[k] = Value(g, k)
          BY <5>1, <3>2
        <5>3. QED BY <5>1, <5>2
      <4>3. QED BY <4>1, <4>2
    <3>7. h \in G(m)
      <4> HIDE DEF h, Value
      <4> QED BY <3>5, <3>6
    <3>8. QED BY <3>7, <2>2
  <2>5. QED BY <2>3, <2>4
<1>2. PICK g : g \in G(n)
  <2>1. n \in 0 .. n /\ n \notin Bad
    <3> HIDE DEF Bad, n
    <3> QED BY <1>1, <1>0
  <2> HIDE DEF G, n
  <2>2. QED BY <2>1
<1>3. g = [k \in 0 .. n |-> Value(g, k)]
  <2>1. g \in [0 .. n -> Seq(T)] /\ \A k \in 0 .. n : g[k] = Value(g, k)
    BY <1>2
  <2> HIDE DEF Value
  <2>2. QED BY <2>1
<1> DEFINE f == CHOOSE f : f = [k \in 0 .. n |-> Value(f, k)]
<1>4. f = [k \in 0 .. n |-> Value(f, k)]
  <2> HIDE DEF Value
  <2> QED BY <1>3
<1>5. Without(l, S) = f[n]
  BY Zenon DEF Without
<1> HIDE DEF f
<1>6. ASSUME NEW k \in 0 .. n PROVE f[k] = Value(f, k) /\ g[k] = Value(g, k)
  <2> HIDE DEF Value
  <2> QED BY <1>3, <1>4
<1>7. \A k \in 0 .. n : f[k] = g[k]
  <2> DEFINE Differ == {k \in 0 .. n : f[k] # g[k]}
  <2>1. SUFFICES ASSUME Differ # {} PROVE FALSE
    OBVIOUS
  <2>2. PICK m \in Differ : \A y \in Differ : m <= y
    <3>1. Differ \subseteq Nat
      BY <1>0
    <3> HIDE DEF Differ
    <3>2. QED BY <2>1, <3>1, Smallest
  <2>3. m \in 0 .. n /\ f[m] = Value(f, m) /\ g[m] = Value(g, m)
    BY <1>6
  <2>4. m # 0
    BY <2>2, <2>3
  <2>5. f[m - 1] = g[m - 1]
    <3>1. m - 1 \in 0 .. n /\ ~(m <= m - 1)
      BY <2>3, <2>4, <1>0
    <3>2. QED BY <3>1, <2>2
  <2>6. QED BY <2>2, <2>3, <2>5
<1>8. f \in [0 .. n -> Seq(T)]
  <2>1. \A k \in 0 .. n : f[k] \in Seq(T)
    BY <1>2, <1>7
  <2> HIDE DEF Value
  <2>2. QED BY <1>4, <2>1
<1>9. f[0] = <<>>
  BY <1>6, <1>0
<1>10. ASSUME NEW k \in 1 .. n
       PROVE  f[k] = IF k \notin S THEN Append(f[k - 1], l[k]) ELSE f[k - 1]
  <2>1. k \in 0 .. n /\ k # 0 /\ (k \in kept <=> k \notin S)
    BY <1>0
  <2>2. f[k] = Value(f, k)
    BY <1>6, <2>1
  <2> HIDE DEF kept
  <2>3. QED BY <2>1, <2>2
<1>11. QED BY <1>5, <1>8, <1>9, <1>10

\* What Without leaves of a list.
LEMMA WithoutFacts ==
  ASSUME NEW T, NEW l \in Seq(T), NEW S
  PROVE  /\ Without(l, S) \in Seq(T)
         /\ Len(Without(l, S)) <= Len(l)
         /\ \E e : Picks(Without(l, S), l, DOMAIN l \ S, e)
<1> DEFINE n == Len(l)
<1>0. n \in Nat /\ DOMAIN l = 1 .. n /\ \A k \in 1 .. n : l[k] \in T
  OBVIOUS
<1>1. PICK f : /\ Without(l, S) = f[n]
               /\ f \in [0 .. n -> Seq(T)]
               /\ f[0] = <<>>
               /\ \A k \in 1 .. n :
                    f[k] = IF k \notin S THEN Append(f[k - 1], l[k]) ELSE f[k - 1]
  BY WithoutUnfolds
<1> DEFINE Good(k) == Len(f[k]) <= k /\ \E e : Picks(f[k], l, (1 .. k) \ S, e)
           Bad == {k \in 0 .. n : ~Good(k)}
<1> HIDE DEF n
<1>2. Good(0)
  <2>1. Picks(f[0], l, (1 .. 0) \ S, [i \in 1 .. 0 |-> 0])
    BY <1>1 DEF Picks
  <2>2. QED BY <2>1, <1>1
<1>3. ASSUME NEW k \in 1 .. n, Good(k - 1) PROVE Good(k)
  <2>1. k - 1 \in 0 .. n /\ k \in Nat /\ k - 1 \in Nat /\ l[k] \in T
    BY <1>0
  <2>2. f[k - 1] \in Seq(T) /\ Len(f[k - 1]) \in Nat /\ Len(f[k - 1]) <= k - 1
    BY <2>1, <1>1, <1>3
  <2>3. PICK e : Picks(f[k - 1], l, (1 .. k - 1) \ S, e)
    BY <1>3
  <2>4. CASE k \in S
    <3>1. f[k] = f[k - 1] /\ (1 .. k) \ S = (1 .. k - 1) \ S
      BY <1>1, <2>4, <2>1
    <3>2. Picks(f[k], l, (1 .. k) \ S, e)
      BY <3>1, <2>3, Zenon
    <3>3. QED BY <3>1, <3>2, <2>1, <2>2
  <2>5. CASE k \notin S
    <3> DEFINE m == Len(f[k - 1])
               w == f[k]
               d == [i \in 1 .. m + 1 |-> IF i = m + 1 THEN k ELSE e[i]]
    <3>1. w = Append(f[k - 1], l[k])
      BY <1>1, <2>5
    <3>2. /\ Len(w) = m + 1 /\ w[m + 1] = l[k] /\ m \in Nat
          /\ \A i \in 1 .. m : w[i] = f[k - 1][i]
      BY <3>1, <2>1, <2>2
    <3>3. /\ e \in [1 .. m -> (1 .. k - 1) \ S]
          /\ \A i, j \in 1 .. m : i < j => e[i] < e[j]
          /\ \A i \in 1 .. m : f[k - 1][i] = l[e[i]]
          /\ \A x \in (1 .. k - 1) \ S : \E i \in 1 .. m : e[i] = x
      BY <2>3 DEF Picks
    <3>4. Len(w) <= k
      BY <3>2, <2>1, <2>2
    <3> HIDE DEF m, w
    <3>5. d \in [1 .. m + 1 -> (1 .. k) \ S]
      BY <3>2, <3>3, <2>1, <2>5
    <3>6. ASSUME NEW i \in 1 .. m + 1, NEW j \in 1 .. m + 1, i < j PROVE d[i] < d[j]
      BY <3>2, <3>3, <3>6, <2>1
    <3>7. ASSUME NEW i \in 1 .. m + 1 PROVE w[i] = l[d[i]]
      BY <3>2, <3>3
    <3>8. ASSUME NEW x \in (1 .. k) \ S PROVE \E i \in 1 .. m + 1 : d[i] = x
      <4>1. CASE x = k
        BY <4>1, <3>2
      <4>2. CASE x # k
        <5>1. PICK i \in 1 .. m : e[i] = x
          BY <3>3, <4>2, <2>1
        <5>2. i \in 1 .. m + 1 /\ d[i] = x
          BY <5>1, <3>2
        <5>3. QED BY <5>2
      <4>3. QED BY <4>1, <4>2
    <3> HIDE DEF d
    <3>9. Picks(w, l, (1 .. k) \ S, d)
      BY <3>2, <3>5, <3>6, <3>7, <3>8 DEF Picks
    <3>10. QED BY <3>4, <3>9 DEF w
  <2>6. QED BY <2>4, <2>5
<1>4. Bad = {}
  <2>1. SUFFICES ASSUME Bad # {} PROVE FALSE
    OBVIOUS
  <2>2. Bad \subseteq 0 .. n /\ Bad \subseteq Nat
    BY <1>0
  <2>3. PICK m \in Bad : \A y \in Bad : m <= y
    <3> HIDE DEF Bad
    <3>2. QED BY <2>1, <2>2, Smallest
  <2>4. m # 0
    <3> HIDE DEF Good
    <3> QED BY <1>2
  <2>5. m \in 1 .. n /\ m - 1 \in 0 .. n /\ m - 1 \notin Bad
    <3> HIDE DEF Bad
    <3> QED BY <2>2, <2>3, <2>4, <1>0
  <2> HIDE DEF Good
  <2>6. Good(m - 1)
    BY <2>5
  <2>7. Good(m)
    BY <2>5, <2>6, <1>3
  <2>8. QED BY <2>7
<1>5. Good(n)
  <2> HIDE DEF Good
  <2> QED BY <1>0, <1>4
<1>6. f[n] \in Seq(T)
  BY <1>0, <1>1
<1>7. QED BY <1>0, <1>1, <1>5, <1>6 DEF n

------------------------------------------------------------------------------
(***************************************************************************)
(* The lists of flags the commands make.                                   *)
(***************************************************************************)
\* What the first and the last flag of a set of positions are.
LEMMA PositionFacts ==
  ASSUME NEW T, NEW l \in Seq(T), NEW P, P \subseteq DOMAIN l, P # {}
  PROVE  /\ First(P) \in P /\ \A j \in P : First(P) <= j
         /\ Last(P) \in P /\ \A j \in P : Last(P) >= j
<1>1. Len(l) \in Nat /\ P \subseteq 0 .. Len(l) /\ P \subseteq Nat
  OBVIOUS
<1>2. QED BY <1>1, FirstFacts, LastFacts

\* A list with the elements of another one changed in place.
LEMMA InPlace ==
  ASSUME NEW T, NEW l \in Seq(T), NEW s \in [DOMAIN l -> T]
  PROVE  s \in Seq(T) /\ Len(s) = Len(l) /\ DOMAIN s = DOMAIN l
<1>1. DOMAIN l = 1 .. Len(l) /\ Len(l) \in Nat
  OBVIOUS
<1>2. s \in [1 .. Len(l) -> T]
  BY <1>1
<1>3. QED BY <1>1, <1>2

\* A flag with another address, space or name is a flag.
LEMMA FlagFacts ==
  ASSUME NEW f \in Flag, NEW a \in Addr, NEW z \in Slot \union {-1}, NEW m \in Name,
         NEW q \in Prefix
  PROVE  /\ f.name \in Name /\ f.offset \in Addr /\ f.space \in Slot \union {-1}
         /\ [f EXCEPT !.offset = a] = [name |-> f.name, offset |-> a, space |-> f.space]
         /\ [f EXCEPT !.space = z] = [name |-> f.name, offset |-> f.offset, space |-> z]
         /\ [f EXCEPT !.name = m] = [name |-> m, offset |-> f.offset, space |-> f.space]
         /\ [f EXCEPT !.name[1] = q] =
              [name |-> <<q, f.name[2]>>, offset |-> f.offset, space |-> f.space]
         /\ <<q, f.name[2]>> \in Name
<1>1. f.name \in Name /\ f.offset \in Addr /\ f.space \in Slot \union {-1}
  BY DEF Flag
<1>2. f.name \in Prefix \X Base
  BY <1>1 DEF Name
<1>3. [f.name EXCEPT ![1] = q] = <<q, f.name[2]>> /\ <<q, f.name[2]>> \in Name
  BY <1>2 DEF Name
<1>4. [f EXCEPT !.name[1] = q] = [name |-> <<q, f.name[2]>>, offset |-> f.offset, space |-> f.space]
  BY <1>3 DEF Flag
<1>5. QED BY <1>1, <1>3, <1>4 DEF Flag

\* The addresses are natural numbers.
LEMMA AddrFacts == Addr \subseteq Nat /\ MaxAddr \in Nat /\ Addr = 0 .. MaxAddr
BY FlagsAssumption DEF Addr

\* A list the commands may put in place of the list of flags: the space of
\* each flag is the selected one, or one that some flag is in.
Follows(l) ==
  /\ l \in Seq(Flag) /\ Len(l) <= MaxFlags
  /\ \A i \in DOMAIN l :
       l[i].space = idx \/ \E j \in DOMAIN flags : l[i].space = flags[j].space

\* Such a list keeps what is remembered true.
LEMMA ChangeKeeps ==
  ASSUME RemembersTrue, NEW l, Follows(l), Change(l), Rest
  PROVE  RemembersTrue'
<1> USE DEF RemembersTrue, SpacesExist, Rest
<1>1. TypeOK'
  BY DEF TypeOK, Follows, Change
<1>2. SpacesExist'
  <2>1. idx' # -1 => spaces'[idx'] # NULL
    OBVIOUS
  <2>2. ASSUME ~orphans', NEW i \in DOMAIN flags', flags'[i].space # -1
        PROVE  spaces'[flags'[i].space] # NULL
    BY <2>2 DEF Follows, Change
  <2>3. QED BY <1>1, <2>1, <2>2
<1>3. CachedNameTrue'
  <2>1. CASE l = flags
    BY <2>1 DEF Change, CachedNameTrue, Cached, Below, Found, Sections
  <2>2. CASE l # flags
    BY <2>2 DEF Change, CachedNameTrue
  <2>3. QED BY <2>1, <2>2
<1>4. QED BY <1>2, <1>3

\* The list of flags follows itself.
LEMMA SameFollows == ASSUME TypeOK PROVE Follows(flags)
BY DEF TypeOK, Follows

\* What is left of a list that follows the list of flags follows it.
LEMMA WithoutFollows ==
  ASSUME NEW l, Follows(l), NEW S
  PROVE  Follows(Without(l, S))
<1> DEFINE w == Without(l, S)
<1>1. l \in Seq(Flag) /\ Len(l) <= MaxFlags /\ Len(l) \in Nat /\ MaxFlags \in Nat
  BY FlagsAssumption DEF Follows
<1>2. w \in Seq(Flag) /\ Len(w) <= Len(l) /\ \E e : Picks(w, l, DOMAIN l \ S, e)
  BY <1>1, WithoutFacts
<1> HIDE DEF w
<1>3. PICK e : Picks(w, l, DOMAIN l \ S, e)
  BY <1>2
<1>4. Len(w) <= MaxFlags /\ DOMAIN w = 1 .. Len(w)
  BY <1>1, <1>2
<1>5. ASSUME NEW i \in DOMAIN w PROVE \E k \in DOMAIN l : w[i] = l[k]
  BY <1>3, <1>4 DEF Picks
<1>6. ASSUME NEW i \in DOMAIN w
      PROVE  w[i].space = idx \/ \E j \in DOMAIN flags : w[i].space = flags[j].space
  BY <1>5 DEF Follows
<1>7. QED BY <1>2, <1>4, <1>6 DEF Follows, w

\* So does a list without the flags at an address.
LEMMA ClearedFollows ==
  ASSUME NEW l, Follows(l), NEW a
  PROVE  Follows(Cleared(l, a))
BY WithoutFollows, Zenon DEF Cleared

\* A new flag is in the selected space.
LEMMA AppendFollows ==
  ASSUME TypeOK, NEW n \in Name, NEW a \in Addr, a + from <= MaxAddr, Len(flags) < MaxFlags
  PROVE  Follows(Append(flags, New(n, a)))
<1> DEFINE l == Append(flags, New(n, a))
<1>1. New(n, a) \in Flag /\ New(n, a).space = idx
  BY AddrFacts DEF New, Flag, TypeOK
<1>2. flags \in Seq(Flag) /\ Len(flags) \in Nat /\ MaxFlags \in Nat
  BY FlagsAssumption DEF TypeOK
<1>3. /\ l \in Seq(Flag) /\ Len(l) = Len(flags) + 1 /\ l[Len(flags) + 1] = New(n, a)
      /\ \A i \in 1 .. Len(flags) : l[i] = flags[i]
  BY <1>1, <1>2
<1> HIDE DEF l
<1>4. DOMAIN l = 1 .. Len(flags) + 1 /\ DOMAIN flags = 1 .. Len(flags)
  BY <1>2, <1>3
<1>5. ASSUME NEW i \in DOMAIN l
      PROVE  l[i].space = idx \/ \E j \in DOMAIN flags : l[i].space = flags[j].space
  BY <1>1, <1>2, <1>3, <1>4
<1>6. Len(l) <= MaxFlags
  BY <1>2, <1>3
<1>7. QED BY <1>3, <1>5, <1>6 DEF Follows, l

\* A list made by changing names and addresses in place.
LEMMA InPlaceFollows ==
  ASSUME TypeOK, NEW l \in [DOMAIN flags -> Flag],
         \A i \in DOMAIN flags : l[i].space = flags[i].space
  PROVE  Follows(l)
<1>1. flags \in Seq(Flag) /\ Len(flags) <= MaxFlags
  BY DEF TypeOK
<1>2. l \in Seq(Flag) /\ Len(l) = Len(flags) /\ DOMAIN l = DOMAIN flags
  BY <1>1, InPlace
<1>3. QED BY <1>1, <1>2 DEF Follows

\* The address of one flag changes.
LEMMA MoveFollows ==
  ASSUME TypeOK, NEW i \in DOMAIN flags, NEW a \in Addr
  PROVE  /\ Follows([flags EXCEPT ![i].offset = a])
         /\ [flags EXCEPT ![i].offset = a] =
              [k \in DOMAIN flags |->
                 IF k = i THEN [name |-> flags[i].name, offset |-> a, space |-> flags[i].space]
                 ELSE flags[k]]
<1> DEFINE l == [k \in DOMAIN flags |->
                   IF k = i THEN [name |-> flags[i].name, offset |-> a, space |-> flags[i].space]
                   ELSE flags[k]]
<1>1. \A k \in DOMAIN flags : flags[k] \in Flag
  BY DEF TypeOK
<1>2. [flags[i] EXCEPT !.offset = a] = [name |-> flags[i].name, offset |-> a, space |-> flags[i].space]
  BY <1>1 DEF Flag
<1>3. [flags EXCEPT ![i].offset = a] = l
  BY <1>2
<1>4. l \in [DOMAIN flags -> Flag] /\ \A k \in DOMAIN flags : l[k].space = flags[k].space
  BY <1>1 DEF Flag
<1> HIDE DEF l
<1>5. Follows(l)
  BY <1>4, InPlaceFollows
<1>6. QED BY <1>3, <1>5 DEF l

\* f name moves the flag or makes a new one.
LEMMA SetFollows ==
  ASSUME TypeOK, NEW n \in Name, NEW a \in Addr, a + from <= MaxAddr,
         Len(flag_set(n, a)) <= MaxFlags
  PROVE  Follows(flag_set(n, a))
<1>1. a + from \in Addr /\ from \in Nat
  BY AddrFacts DEF TypeOK
<1>2. flags \in Seq(Flag) /\ Len(flags) \in Nat /\ MaxFlags \in Nat
  BY FlagsAssumption DEF TypeOK
<1>3. CASE Named(flags, n) # {} /\ ~interrupted
  <2> DEFINE i == First(Named(flags, n))
  <2>1. i \in DOMAIN flags
    BY <1>2, <1>3, PositionFacts DEF Named
  <2>2. flag_set(n, a) = [flags EXCEPT ![i].offset = a + from]
    BY <1>3 DEF flag_set
  <2> HIDE DEF i
  <2> DEFINE z == a + from
  <2>3. z \in Addr
    BY <1>1
  <2>4. flag_set(n, a) = [flags EXCEPT ![i].offset = z]
    BY <2>2
  <2> HIDE DEF z
  <2>5. Follows([flags EXCEPT ![i].offset = z])
    BY <2>1, <2>3, MoveFollows
  <2>6. QED BY <2>4, <2>5
<1>4. CASE ~(Named(flags, n) # {} /\ ~interrupted)
  <2>1. flag_set(n, a) = Append(flags, New(n, a))
    BY <1>4 DEF flag_set
  <2>2. Len(flags) < MaxFlags
    BY <1>2, <2>1
  <2>3. QED BY <2>1, <2>2, AppendFollows
<1>5. QED BY <1>3, <1>4

------------------------------------------------------------------------------
(***************************************************************************)
(* Every command keeps what is remembered beside the list true.            *)
(***************************************************************************)
\* Setting, moving and removing flags, and renaming them.
ListCommand ==
  \/ \E n \in Name, a \in Addr : CmdFlag(n, a) \/ flag_set_undef(n, a) \/ flag_set_dup(n, a)
  \/ \E a \in Addr : flag_clear_by_addr(a) \/ flag_remove_at(a)
  \/ \E a \in Addr, d \in {-1, 1} : flag_rebase(a, d)
  \/ \E n \in Name : flag_remove(n) \/ \E m \in Name : flag_rename(n, m)
  \/ \E p \in Prefix : flag_remove_prefix(p) \/ \E q \in Prefix : flag_rename_prefix(p, q)
  \/ flag_remove_all

\* Each of those commands puts one list in place of another that it follows.
LEMMA ListCommandFollows ==
  ASSUME TypeOK, ListCommand
  PROVE  \E l : Follows(l) /\ Change(l) /\ Rest
<1>0. flags \in Seq(Flag) /\ Follows(flags) /\ \A k \in DOMAIN flags : flags[k] \in Flag
  BY SameFollows DEF TypeOK
<1>1. ASSUME NEW n \in Name, NEW a \in Addr, CmdFlag(n, a)
      PROVE  \E l : Follows(l) /\ Change(l) /\ Rest
  <2>1. Follows(flag_set(n, a))
    BY <1>1, SetFollows DEF CmdFlag
  <2>2. QED BY <1>1, <2>1 DEF CmdFlag
<1>2. ASSUME NEW n \in Name, NEW a \in Addr, flag_set_dup(n, a)
      PROVE  \E l : Follows(l) /\ Change(l) /\ Rest
  <2>1. Follows(Append(flags, New(n, a)))
    BY <1>2, AppendFollows DEF flag_set_dup
  <2>2. QED BY <1>2, <2>1 DEF flag_set_dup
<1>3. ASSUME NEW a \in Addr, flag_clear_by_addr(a)
      PROVE  \E l : Follows(l) /\ Change(l) /\ Rest
  BY <1>0, <1>3, ClearedFollows DEF flag_clear_by_addr
<1>4. ASSUME NEW a \in Addr, flag_remove_at(a)
      PROVE  \E l : Follows(l) /\ Change(l) /\ Rest
  BY <1>0, <1>4, WithoutFollows DEF flag_remove_at
<1>5. ASSUME NEW a \in Addr, NEW d \in {-1, 1}, flag_rebase(a, d)
      PROVE  \E l : Follows(l) /\ Change(l) /\ Rest
  <2>1. First(AtAddr(a)) \in DOMAIN flags
    BY <1>0, <1>5, PositionFacts DEF flag_rebase, AtAddr
  <2>2. Follows([flags EXCEPT ![First(AtAddr(a))].offset = a + d])
    BY <1>5, <2>1, MoveFollows DEF flag_rebase
  <2>3. QED BY <1>5, <2>2 DEF flag_rebase
<1>6. ASSUME NEW n \in Name, flag_remove(n)
      PROVE  \E l : Follows(l) /\ Change(l) /\ Rest
  <2> DEFINE l == IF interrupted THEN flags
                  ELSE IF Named(flags, n) # {} THEN Without(flags, Named(flags, n))
                  ELSE Cleared(flags, 0)
  <2>1. Follows(l)
    BY <1>0, WithoutFollows, ClearedFollows, Zenon
  <2>2. Change(l) /\ Rest
    BY <1>6, Zenon DEF flag_remove
  <2> HIDE DEF l
  <2>3. QED BY <2>1, <2>2
<1>7. ASSUME NEW n \in Name, NEW m \in Name, flag_rename(n, m)
      PROVE  \E l : Follows(l) /\ Change(l) /\ Rest
  <2> DEFINE l == [i \in DOMAIN flags |->
                     IF flags[i].name = n THEN [flags[i] EXCEPT !.name = m] ELSE flags[i]]
  <2>1. l \in [DOMAIN flags -> Flag] /\ \A k \in DOMAIN flags : l[k].space = flags[k].space
    BY <1>0 DEF Flag
  <2>2. Change(l) /\ Rest
    BY <1>7, Zenon DEF flag_rename
  <2> HIDE DEF l
  <2>3. QED BY <2>1, <2>2, InPlaceFollows
<1>8. ASSUME NEW p \in Prefix, flag_remove_prefix(p)
      PROVE  \E l : Follows(l) /\ Change(l) /\ Rest
  <2> DEFINE l == IF interrupted THEN flags ELSE Cleared(Without(flags, Matching(p)), 0)
  <2>1. Follows(l)
    BY <1>0, WithoutFollows, ClearedFollows, Zenon
  <2>2. Change(l) /\ Rest
    BY <1>8, Zenon DEF flag_remove_prefix
  <2> HIDE DEF l
  <2>3. QED BY <2>1, <2>2
<1>9. ASSUME NEW p \in Prefix, NEW q \in Prefix, flag_rename_prefix(p, q)
      PROVE  \E l : Follows(l) /\ Change(l) /\ Rest
  <2> DEFINE l == [i \in DOMAIN flags |->
                     IF flags[i].name[1] = p THEN [flags[i] EXCEPT !.name[1] = q] ELSE flags[i]]
  <2>1. ASSUME NEW k \in DOMAIN flags PROVE l[k] \in Flag /\ l[k].space = flags[k].space
    <3> DEFINE g == [name |-> <<q, flags[k].name[2]>>, offset |-> flags[k].offset,
                     space |-> flags[k].space]
    <3>1. /\ [flags[k] EXCEPT !.name[1] = q] = g
          /\ <<q, flags[k].name[2]>> \in Name
          /\ flags[k].offset \in Addr /\ flags[k].space \in Slot \union {-1}
      <4>1. flags[k] \in Flag
        BY <1>0
      <4>2. flags[k].offset \in Addr /\ flags[k].space \in Slot \union {-1} /\ flags[k].name \in Name
        BY <4>1 DEF Flag
      <4>3. QED BY <4>1, <4>2, FlagFacts
    <3>2. g \in Flag /\ g.space = flags[k].space
      BY <3>1 DEF Flag
    <3> HIDE DEF g
    <3>3. QED BY <1>0, <3>1, <3>2
  <2>2. l \in [DOMAIN flags -> Flag]
    BY <2>1
  <2>3. Change(l) /\ Rest
    BY <1>9, Zenon DEF flag_rename_prefix
  <2> HIDE DEF l
  <2>4. QED BY <2>1, <2>2, <2>3, InPlaceFollows
<1>10. ASSUME flag_remove_all PROVE \E l : Follows(l) /\ Change(l) /\ Rest
  <2>1. Follows(<<>>)
    BY FlagsAssumption DEF Follows
  <2>2. QED BY <1>0, <1>10, <2>1 DEF flag_remove_all
<1>11. ASSUME NEW n \in Name, NEW a \in Addr, flag_set_undef(n, a)
       PROVE  \E l : Follows(l) /\ Change(l) /\ Rest
  BY <1>1, <1>11 DEF flag_set_undef
<1>12. QED
  BY <1>1, <1>2, <1>3, <1>4, <1>5, <1>6, <1>7, <1>8, <1>9, <1>10, <1>11 DEF ListCommand

\* What a search for a section finds: a flag below the address, and none of
\* those has a greater address.
LEMMA FoundFacts ==
  ASSUME TypeOK, NEW at \in Addr, NEW p, Below(at, p) # {}
  PROVE  /\ Found(at, p) \in Below(at, p) /\ Found(at, p) \in DOMAIN flags
         /\ \A j \in Below(at, p) : flags[j].offset <= flags[Found(at, p)].offset
<1> DEFINE B == Below(at, p)
           O == {flags[i].offset : i \in B}
           M == {i \in B : \A j \in B : flags[j].offset <= flags[i].offset}
<1>1. flags \in Seq(Flag) /\ \A k \in DOMAIN flags : flags[k].offset \in Addr
  <2>1. flags \in Seq(Flag) /\ \A k \in DOMAIN flags : flags[k] \in Flag
    BY DEF TypeOK
  <2>2. QED BY <2>1 DEF Flag
<1>2. B \subseteq DOMAIN flags /\ B # {}
  BY DEF Below, Sections
<1> HIDE DEF B
<1>3. O \subseteq 0 .. MaxAddr /\ O # {} /\ MaxAddr \in Nat
  BY <1>1, <1>2, AddrFacts
<1>4. Last(O) \in O /\ \A y \in O : Last(O) >= y
  <2> HIDE DEF O
  <2> QED BY <1>3, LastFacts
<1>5. PICK m \in B : flags[m].offset = Last(O)
  BY <1>4
<1>6. m \in M
  <2>1. ASSUME NEW j \in B PROVE flags[j].offset <= flags[m].offset
    <3>1. flags[j].offset \in O
      OBVIOUS
    <3>2. flags[j].offset \in 0 .. MaxAddr /\ flags[m].offset \in 0 .. MaxAddr
      BY <3>1, <1>3, <1>4, <1>5
    <3> HIDE DEF O
    <3>3. QED BY <3>1, <3>2, <1>3, <1>4, <1>5
  <2>2. QED BY <2>1
<1>7. M # {} /\ M \subseteq DOMAIN flags
  BY <1>2, <1>6
<1>8. First(M) \in M
  <2> HIDE DEF M
  <2> QED BY <1>1, <1>7, PositionFacts
<1>9. Found(at, p) = First(M)
  BY Zenon DEF Found, B
<1>10. QED BY <1>2, <1>8, <1>9 DEF B

\* The search for a section reads the names and the addresses of the flags
\* alone.
LEMMA SearchSame ==
  ASSUME DOMAIN flags' = DOMAIN flags, cache' = cache, filled' = filled,
         \A i \in DOMAIN flags : /\ flags'[i].name = flags[i].name
                                 /\ flags'[i].offset = flags[i].offset,
         CachedNameTrue, TypeOK
  PROVE  CachedNameTrue'
<1> SUFFICES ASSUME filled # NULL, NEW at \in Addr, Cached(at)
             PROVE  (Below(at, filled) # {} /\ flags[Found(at, filled)].name = cache.str)'
  BY DEF CachedNameTrue, Cached
<1> DEFINE M == {i \in Below(at, filled) :
                   \A j \in Below(at, filled) : flags[j].offset <= flags[i].offset}
<1>1. Below(at, filled)' = Below(at, filled) /\ Below(at, filled) \subseteq DOMAIN flags
  BY DEF Below, Sections
<1>2. {i \in Below(at, filled) : \A j \in Below(at, filled) : flags'[j].offset <= flags'[i].offset} = M
  BY <1>1
<1>3. Found(at, filled)' = Found(at, filled)
  BY <1>1, <1>2 DEF Found, First
<1>4. Below(at, filled) # {} /\ flags[Found(at, filled)].name = cache.str
  BY DEF CachedNameTrue
<1>5. Found(at, filled) \in DOMAIN flags
  BY <1>4, FoundFacts
<1>6. QED BY <1>1, <1>3, <1>4, <1>5

\* fs name makes the space when it does not exist.
LEMMA SpaceSetKeeps ==
  ASSUME RemembersTrue, NEW s \in SpaceName, flag_space_set(s)
  PROVE  RemembersTrue'
<1> DEFINE C == IF SlotsOf(s) # {} THEN SlotsOf(s) ELSE SlotsOf(NULL)
           i == First(C)
<1>0. TypeOK /\ SpacesExist /\ CachedNameTrue
  BY DEF RemembersTrue, SpacesExist
<1>1. CachedNameTrue'
  BY <1>0, SearchSame DEF flag_space_set
<1>2. CASE SlotsOf(s) \union SlotsOf(NULL) = {}
  <2>1. SpacesExist'
    BY <1>0, <1>2 DEF flag_space_set, SpacesExist, TypeOK
  <2>2. QED BY <1>1, <2>1 DEF RemembersTrue
<1>3. CASE SlotsOf(s) \union SlotsOf(NULL) # {}
  <2>1. C # {} /\ C \subseteq Slot /\ Slot \subseteq Nat
    BY <1>3, FlagsAssumption DEF SlotsOf, Slot
  <2>2. i \in Slot
    <3> HIDE DEF C
    <3> QED BY <2>1, FirstFacts
  <2>3. spaces' = [spaces EXCEPT ![i] = s] /\ idx' = i
    BY <1>3 DEF flag_space_set
  <2>4. s # NULL
    BY FlagsAssumption
  <2> HIDE DEF i
  <2>5. TypeOK'
    BY <1>0, <2>2, <2>3 DEF flag_space_set, TypeOK
  <2>6. SpacesExist'
    BY <1>0, <2>2, <2>3, <2>4, <2>5 DEF flag_space_set, SpacesExist, TypeOK
  <2>7. QED BY <1>1, <2>6 DEF RemembersTrue
<1>4. QED BY <1>2, <1>3

\* fs -name takes the flags out of the space before the slot can be used
\* again.
LEMMA SpaceRemoveKeeps ==
  ASSUME RemembersTrue, NEW i \in Slot, RemoveSlot(i)
  PROVE  RemembersTrue'
<1>0. TypeOK /\ SpacesExist /\ CachedNameTrue
  BY DEF RemembersTrue, SpacesExist
<1>1. flags \in Seq(Flag) /\ \A k \in DOMAIN flags : flags[k] \in Flag
  BY <1>0 DEF TypeOK
<1> DEFINE l == [k \in DOMAIN flags |->
                   IF flags[k].space = i THEN [flags[k] EXCEPT !.space = -1] ELSE flags[k]]
<1>2. ASSUME NEW k \in DOMAIN flags
      PROVE  /\ l[k] \in Flag /\ l[k].name = flags[k].name /\ l[k].offset = flags[k].offset
             /\ l[k].space = IF flags[k].space = i THEN -1 ELSE flags[k].space
  BY <1>1 DEF Flag
<1>3. l \in [DOMAIN flags -> Flag]
  BY <1>2
<1>4. l \in Seq(Flag) /\ Len(l) = Len(flags) /\ DOMAIN l = DOMAIN flags
  <2> HIDE DEF l
  <2> QED BY <1>1, <1>3, InPlace
<1>5. flags' = IF interrupted THEN flags ELSE l
  BY DEF RemoveSlot, Unlinked
<1> HIDE DEF l
<1>6. flags' \in Seq(Flag) /\ Len(flags') <= MaxFlags /\ DOMAIN flags' = DOMAIN flags
  BY <1>0, <1>1, <1>4, <1>5 DEF TypeOK
<1>7. CachedNameTrue'
  <2>1. \A k \in DOMAIN flags : flags'[k].name = flags[k].name /\ flags'[k].offset = flags[k].offset
    BY <1>2, <1>5
  <2>2. QED BY <1>0, <1>6, <2>1, SearchSame DEF RemoveSlot
<1>8. TypeOK'
  BY <1>0, <1>6 DEF TypeOK, RemoveSlot
<1>9. idx' # -1 => spaces'[idx'] # NULL
  BY <1>0 DEF RemoveSlot, SpacesExist, TypeOK
<1>10. ASSUME ~orphans', NEW k \in DOMAIN flags', flags'[k].space # -1
       PROVE  spaces'[flags'[k].space] # NULL
  <2>1. ~orphans /\ ~interrupted
    BY <1>10 DEF RemoveSlot
  <2>2. k \in DOMAIN flags /\ flags'[k] = l[k]
    BY <1>5, <1>6, <1>10, <2>1
  <2>3. flags[k].space # i /\ flags[k].space # -1 /\ flags'[k].space = flags[k].space
    BY <1>2, <1>10, <2>2
  <2>4. flags[k].space \in Slot /\ spaces[flags[k].space] # NULL
    BY <1>0, <1>1, <2>1, <2>2, <2>3 DEF SpacesExist, Flag
  <2>5. QED BY <1>0, <2>3, <2>4 DEF RemoveSlot, TypeOK
<1>11. QED BY <1>7, <1>8, <1>9, <1>10 DEF RemembersTrue, SpacesExist

\* fm name puts a flag in the selected space.
LEMMA SpaceMoveKeeps ==
  ASSUME RemembersTrue, NEW n \in Name, flag_space_move(n)
  PROVE  RemembersTrue'
<1> DEFINE i == Last(Named(flags, n))
<1>0. TypeOK /\ SpacesExist /\ CachedNameTrue
  BY DEF RemembersTrue, SpacesExist
<1>1. flags \in Seq(Flag) /\ \A k \in DOMAIN flags : flags[k] \in Flag
  BY <1>0 DEF TypeOK
<1>2. i \in DOMAIN flags
  BY <1>1, PositionFacts DEF flag_space_move, Named
<1>3. flags' = [flags EXCEPT ![i].space = idx]
  BY DEF flag_space_move
<1> HIDE DEF i
<1>4. ASSUME NEW k \in DOMAIN flags
      PROVE  /\ flags'[k] \in Flag
             /\ flags'[k].name = flags[k].name /\ flags'[k].offset = flags[k].offset
             /\ flags'[k].space = IF k = i THEN idx ELSE flags[k].space
  BY <1>0, <1>1, <1>2, <1>3 DEF Flag, TypeOK
<1>5. flags' \in [DOMAIN flags -> Flag]
  BY <1>3, <1>4
<1>6. flags' \in Seq(Flag) /\ Len(flags') = Len(flags) /\ DOMAIN flags' = DOMAIN flags
  BY <1>1, <1>5, InPlace
<1>7. CachedNameTrue'
  BY <1>0, <1>4, <1>6, SearchSame DEF flag_space_move
<1>8. TypeOK'
  BY <1>0, <1>6 DEF TypeOK, flag_space_move
<1>9. SpacesExist'
  BY <1>0, <1>4, <1>6, <1>8 DEF SpacesExist, flag_space_move
<1>10. QED BY <1>7, <1>9 DEF RemembersTrue

\* The interval flag_get_here_filter keeps a name for: at every address in it
\* the search finds the same flag.
LEMMA SameSection ==
  ASSUME TypeOK, NEW at \in Addr, NEW p, Below(at, p) # {},
         NEW x \in Addr, flags[Found(at, p)].offset <= x, x < NextFlag(at, p)
  PROVE  Below(x, p) # {} /\ Found(x, p) = Found(at, p)
<1> DEFINE f == Found(at, p)
           start == flags[f].offset
           M(y) == {i \in Below(y, p) : \A j \in Below(y, p) : flags[j].offset <= flags[i].offset}
<1>1. \A k \in DOMAIN flags : flags[k].offset \in Nat
  <2>1. \A k \in DOMAIN flags : flags[k] \in Flag
    BY DEF TypeOK
  <2>2. QED BY <2>1, AddrFacts DEF Flag
<1>2. /\ f \in Below(at, p) /\ f \in DOMAIN flags
      /\ \A j \in Below(at, p) : flags[j].offset <= start
  BY FoundFacts
<1>3. x \in Nat /\ at \in Nat /\ MaxAddr \in Nat /\ x <= MaxAddr
  BY AddrFacts
<1>4. \A y : Below(y, p) = {i \in Sections(p) : flags[i].offset \in 1 .. y}
  BY Zenon DEF Below
<1>5. Sections(p) \subseteq DOMAIN flags
  BY DEF Sections
<1> HIDE DEF f
<1>6. start \in Nat /\ start >= 1 /\ start <= at /\ f \in Sections(p)
  BY <1>1, <1>2, <1>3, <1>4
<1>7. ASSUME NEW j \in Sections(p), flags[j].offset > at
      PROVE  flags[j].offset > x
  <2>1. flags[j].offset \in Above(at, p) /\ Above(at, p) \subseteq Nat
    BY <1>1, <1>5, <1>7 DEF Above
  <2>2. NextFlag(at, p) = First(Above(at, p))
    BY <2>1 DEF NextFlag
  <2>3. First(Above(at, p)) \in Nat /\ First(Above(at, p)) <= flags[j].offset
    BY <2>1, FirstFacts
  <2>4. QED BY <1>1, <1>3, <1>5, <2>2, <2>3
<1>8. ASSUME NEW j \in Below(x, p) PROVE flags[j].offset <= start
  <2>1. j \in Sections(p) /\ flags[j].offset \in 1 .. x
    BY <1>4
  <2>2. flags[j].offset <= at
    BY <1>1, <1>3, <1>5, <1>7, <2>1
  <2>3. j \in Below(at, p)
    BY <1>4, <2>1, <2>2, <1>3
  <2>4. QED BY <1>2, <2>3
<1>9. f \in Below(x, p)
  BY <1>3, <1>4, <1>6 DEF f
<1>10. ASSUME NEW y \in {x, at} PROVE M(y) = {i \in Sections(p) : flags[i].offset = start}
  <2>1. f \in Below(y, p) /\ \A j \in Below(y, p) : flags[j].offset <= start
    BY <1>2, <1>8, <1>9
  <2>2. start <= y /\ y \in Nat
    BY <1>3, <1>6 DEF f
  <2>3. ASSUME NEW i \in M(y) PROVE i \in Sections(p) /\ flags[i].offset = start
    <3>1. i \in Sections(p) /\ flags[i].offset <= start /\ start <= flags[i].offset
      BY <2>1, <1>4
    <3>2. QED BY <3>1, <1>1, <1>5, <1>6
  <2>4. ASSUME NEW i \in Sections(p), flags[i].offset = start PROVE i \in M(y)
    BY <2>1, <2>2, <2>4, <1>4, <1>6
  <2>5. QED BY <2>3, <2>4
<1>11. Found(x, p) = First(M(x)) /\ Found(at, p) = First(M(at))
  BY Zenon DEF Found
<1> HIDE DEF M
<1>12. M(x) = M(at)
  BY <1>10
<1>13. QED BY <1>9, <1>11, <1>12

\* flag_get_here_filter searches the list and keeps what it finds.
LEMMA FillKeeps ==
  ASSUME RemembersTrue, NEW at \in Addr, NEW p \in Prefix \union {AnyText},
         flag_get_here_filter(at, p)
  PROVE  RemembersTrue'
<1>0. TypeOK /\ SpacesExist
  BY DEF RemembersTrue, SpacesExist
<1>1. CASE Below(at, p) = {}
  <2>1. cache' = [cache EXCEPT !.str = NULL] /\ filled' = NULL
    BY <1>1 DEF flag_get_here_filter
  <2>2. TypeOK'
    BY <1>0, <2>1 DEF TypeOK, flag_get_here_filter
  <2>3. SpacesExist' /\ CachedNameTrue'
    BY <1>0, <2>1, <2>2 DEF flag_get_here_filter, SpacesExist, CachedNameTrue
  <2>4. QED BY <2>3 DEF RemembersTrue
<1>2. CASE Below(at, p) # {}
  <2> DEFINE f == Found(at, p)
  <2>1. /\ cache' = [start |-> flags[f].offset, end |-> NextFlag(at, p), str |-> flags[f].name]
        /\ filled' = p
    BY <1>2 DEF flag_get_here_filter
  <2>2. flags[f] \in Flag /\ flags[f].offset \in Addr /\ flags[f].name \in Name
    <3>1. f \in DOMAIN flags
      BY <1>0, <1>2, FoundFacts
    <3>2. flags[f] \in Flag
      BY <1>0, <3>1 DEF TypeOK
    <3>3. QED BY <3>2 DEF Flag
  <2>3. NextFlag(at, p) \in Addr \union {MaxAddr + 1}
    <3>1. Above(at, p) \subseteq Addr
      <4>1. \A k \in DOMAIN flags : flags[k] \in Flag
        BY <1>0 DEF TypeOK
      <4>2. QED BY <4>1 DEF Above, Sections, Flag
    <3>2. Above(at, p) # {} => First(Above(at, p)) \in Above(at, p)
      BY <3>1, AddrFacts, FirstFacts
    <3>3. QED BY <3>1, <3>2 DEF NextFlag
  <2>4. TypeOK'
    BY <1>0, <2>1, <2>2, <2>3 DEF TypeOK, flag_get_here_filter
  <2>5. SpacesExist'
    BY <1>0, <2>4 DEF flag_get_here_filter, SpacesExist
  <2>6. ASSUME NEW x \in Addr, Cached(x)'
        PROVE  Below(x, p) # {} /\ flags[Found(x, p)].name = flags[f].name
    <3>1. flags[f].offset <= x /\ x < NextFlag(at, p)
      BY <2>1, <2>2, <2>6, AddrFacts DEF Cached
    <3>2. QED BY <1>0, <1>2, <3>1, SameSection
  <2>7. flags' = flags
    BY DEF flag_get_here_filter
  <2>8. CachedNameTrue'
    <3>1. ASSUME NEW x \in Addr, Cached(x)'
          PROVE  (Below(x, filled) # {} /\ flags[Found(x, filled)].name = cache.str)'
      <4>1. Below(x, filled)' = Below(x, p) /\ Found(x, filled)' = Found(x, p)
        BY <2>1, <2>7 DEF Below, Found, Sections
      <4>2. cache'.str = flags[f].name
        BY <2>1
      <4>3. QED BY <2>6, <2>7, <3>1, <4>1, <4>2
    <3>2. QED BY <3>1 DEF CachedNameTrue
  <2>9. QED BY <2>5, <2>8 DEF RemembersTrue
<1>3. QED BY <1>1, <1>2

\* The other commands leave the list and what is remembered alone.
LEMMA OtherKeeps ==
  ASSUME RemembersTrue,
         \/ \E a \in FromAddr : flag_from(a)
         \/ flag_space_all \/ Interrupt \/ radare_prompt \/ UNCHANGED vars
  PROVE  RemembersTrue'
<1>0. TypeOK /\ SpacesExist /\ CachedNameTrue
  BY DEF RemembersTrue, SpacesExist
<1>1. flags' = flags /\ cache' = cache /\ filled' = filled /\ spaces' = spaces
      /\ orphans' = orphans /\ (idx' = idx \/ idx' = -1)
  BY DEF flag_from, flag_space_all, Interrupt, radare_prompt, vars
<1>2. CachedNameTrue'
  BY <1>0, <1>1, SearchSame
<1>3. from' \in Addr /\ interrupted' \in BOOLEAN
  BY <1>0, FlagsAssumption DEF TypeOK, flag_from, flag_space_all, Interrupt, radare_prompt, vars
<1>4. SpacesExist'
  BY <1>0, <1>1, <1>3 DEF SpacesExist, TypeOK
<1>5. QED BY <1>2, <1>4 DEF RemembersTrue

\* Every step keeps what is remembered true.
LEMMA NextKeeps == RemembersTrue /\ [Next]_vars => RemembersTrue'
<1> SUFFICES ASSUME RemembersTrue, [Next]_vars PROVE RemembersTrue'
  OBVIOUS
<1>1. CASE ListCommand
  BY <1>1, ListCommandFollows, ChangeKeeps DEF RemembersTrue, SpacesExist
<1>2. ASSUME NEW s \in SpaceName, flag_space_remove(s) PROVE RemembersTrue'
  <2>1. SlotsOf(s) \subseteq Slot /\ SlotsOf(s) \subseteq Nat /\ SlotsOf(s) # {}
    BY <1>2, FlagsAssumption DEF flag_space_remove, SlotsOf, Slot
  <2>2. First(SlotsOf(s)) \in Slot
    BY <2>1, FirstFacts
  <2>3. QED BY <1>2, <2>2, SpaceRemoveKeeps DEF flag_space_remove
<1>3. ASSUME flag_space_remove_any PROVE RemembersTrue'
  <2> DEFINE U == {i \in Slot : spaces[i] # NULL}
  <2>1. U \subseteq Slot /\ U \subseteq Nat /\ U # {}
    BY <1>3, FlagsAssumption DEF flag_space_remove_any, Slot
  <2>2. RemoveSlot(First(U))
    BY <1>3, Zenon DEF flag_space_remove_any
  <2> HIDE DEF U
  <2>3. First(U) \in Slot
    BY <2>1, FirstFacts
  <2>4. QED BY <2>2, <2>3, SpaceRemoveKeeps
<1>4. QED
  BY <1>1, <1>2, <1>3, SpaceSetKeeps, SpaceMoveKeeps, FillKeeps, OtherKeeps
     DEF Next, ListCommand

\* The program starts without flags, spaces or a cached name.
LEMMA InitRemembers == Init => RemembersTrue
<1> SUFFICES ASSUME Init PROVE RemembersTrue
  OBVIOUS
<1>1. /\ flags \in Seq(Flag) /\ Len(flags) <= MaxFlags /\ DOMAIN flags = {}
      /\ 0 \in Addr /\ from \in Addr
  BY FlagsAssumption, AddrFacts DEF Init
<1>2. spaces \in [Slot -> SpaceName \union {NULL}] /\ idx = -1 /\ filled = NULL
  BY DEF Init
<1>3. cache \in [start : Addr, end : Addr \union {MaxAddr + 1}, str : Name \union {NULL}]
  BY <1>1 DEF Init
<1>4. {interrupted, orphans} \subseteq BOOLEAN
  BY DEF Init
<1>5. TypeOK
  BY <1>1, <1>2, <1>3, <1>4 DEF TypeOK
<1>6. QED BY <1>1, <1>2, <1>5 DEF RemembersTrue, SpacesExist, CachedNameTrue

\* What flags.c remembers beside the list is true of it: the selected space
\* and the spaces of the flags exist, and the section name that
\* flag_get_here_filter keeps is the one a search would find.
THEOREM RememberedCorrect == Spec => []RemembersTrue
BY InitRemembers, NextKeeps, PTL DEF Spec

------------------------------------------------------------------------------
(***************************************************************************)
(* The list as a map from names to addresses.                              *)
(***************************************************************************)
NamesOf(l) == {l[i].name : i \in DOMAIN l}

UniqueIn(l) == \A i, j \in DOMAIN l : l[i].name = l[j].name => i = j

\* t gives every name in l the address it has there.
Tabulates(t, l) ==
  /\ t = [n \in NamesOf(l) |-> t[n]]
  /\ \A i \in DOMAIN l : t[l[i].name] = l[i].offset

TableOf(l) == [n \in NamesOf(l) |-> flag_get(l, n).offset]

\* What the steps of FlagMap make of a map.
Updated(t, n, a) == [m \in DOMAIN t \union {n} |-> IF m = n THEN a ELSE t[m]]
Dropped(t, S) == [n \in DOMAIN t \ S |-> t[n]]
Renamed(t, n, m) == [x \in (DOMAIN t \ {n}) \union {m} |-> IF x = m THEN t[n] ELSE t[x]]
Moved(p, q, n) == IF n[1] = p THEN <<q, n[2]>> ELSE n
Shifted(t, p, q) ==
  [m \in {Moved(p, q, n) : n \in DOMAIN t} |-> t[CHOOSE n \in DOMAIN t : Moved(p, q, n) = m]]

\* flag_get finds the one flag of a name.
LEMMA TableOfFacts ==
  ASSUME NEW T, NEW l \in Seq(T), UniqueIn(l)
  PROVE  Tabulates(TableOf(l), l)
<1>1. ASSUME NEW i \in DOMAIN l PROVE TableOf(l)[l[i].name] = l[i].offset
  <2>1. Named(l, l[i].name) = {i}
    BY DEF Named, UniqueIn
  <2>2. Last(Named(l, l[i].name)) = i
    BY <2>1, PositionFacts
  <2>3. QED BY <2>2 DEF TableOf, NamesOf, flag_get
<1>2. QED BY <1>1 DEF Tabulates, TableOf

\* There is one such map.
LEMMA OneTable ==
  ASSUME NEW l, NEW t, NEW u, Tabulates(t, l), Tabulates(u, l)
  PROVE  t = u
<1>1. ASSUME NEW n \in NamesOf(l) PROVE t[n] = u[n]
  BY DEF NamesOf, Tabulates
<1>2. QED BY <1>1 DEF Tabulates

\* What FlagMap's variables stand for.
LEMMA TableFacts ==
  /\ Unique <=> UniqueIn(flags)
  /\ Unique => Table = TableOf(flags)
  /\ ~Unique => Table = Map!Empty
<1>1. Unique <=> UniqueIn(flags)
  BY DEF Unique, UniqueIn
<1>2. ASSUME Unique PROVE Table = TableOf(flags)
  BY <1>2 DEF Table, TableOf, NamesOf
<1>3. ASSUME ~Unique PROVE Table = Map!Empty
  BY <1>3 DEF Table, Map!Empty
<1>4. QED BY <1>1, <1>2, <1>3

\* The addresses in it are addresses, the names are names.
LEMMA TableType ==
  ASSUME NEW l \in Seq(Flag), UniqueIn(l)
  PROVE  TableOf(l) \in Map!Tables
<1>1. \A i \in DOMAIN l : l[i] \in Flag
  OBVIOUS
<1>2. \A i \in DOMAIN l : l[i].name \in Name /\ l[i].offset \in Addr
  BY <1>1 DEF Flag
<1>3. Tabulates(TableOf(l), l)
  BY TableOfFacts
<1>4. ASSUME NEW n \in NamesOf(l) PROVE TableOf(l)[n] \in Addr
  BY <1>2, <1>3 DEF NamesOf, Tabulates
<1>5. NamesOf(l) \subseteq Name
  BY <1>2 DEF NamesOf
<1>6. TableOf(l) \in [NamesOf(l) -> Addr]
  BY <1>4 DEF TableOf
<1>7. QED BY <1>5, <1>6 DEF Map!Tables, Map!Name, Name

\* Taking away positions takes away their names.
LEMMA WithoutTable ==
  ASSUME NEW l \in Seq(Flag), UniqueIn(l), NEW S
  PROVE  /\ UniqueIn(Without(l, S))
         /\ Tabulates(Dropped(TableOf(l), {l[i].name : i \in S \intersect DOMAIN l}), Without(l, S))
<1> DEFINE w == Without(l, S)
           G == {l[i].name : i \in S \intersect DOMAIN l}
           t == [n \in NamesOf(l) \ G |-> TableOf(l)[n]]
<1>0. Dropped(TableOf(l), G) = t
  <2> HIDE DEF G
  <2> QED BY DEF Dropped, TableOf
<1>1. w \in Seq(Flag) /\ \E e : Picks(w, l, DOMAIN l \ S, e)
  BY WithoutFacts
<1> HIDE DEF w
<1>2. PICK e : Picks(w, l, DOMAIN l \ S, e)
  BY <1>1
<1>3. DOMAIN w = 1 .. Len(w) /\ DOMAIN l = 1 .. Len(l)
  BY <1>1
<1>4. /\ \A i \in DOMAIN w : e[i] \in DOMAIN l /\ e[i] \notin S /\ w[i] = l[e[i]]
      /\ \A k \in DOMAIN l \ S : \E i \in DOMAIN w : e[i] = k
      /\ \A i, j \in DOMAIN w : i < j => e[i] < e[j]
  BY <1>2, <1>3 DEF Picks
<1>5. \A i, j \in DOMAIN w : e[i] = e[j] => i = j
  BY <1>3, <1>4
<1>6. UniqueIn(w)
  BY <1>4, <1>5 DEF UniqueIn
<1>7. NamesOf(w) = NamesOf(l) \ G
  <2>1. ASSUME NEW i \in DOMAIN w PROVE w[i].name \in NamesOf(l) /\ w[i].name \notin G
    BY <1>4 DEF NamesOf, UniqueIn
  <2>2. ASSUME NEW k \in DOMAIN l, l[k].name \notin G PROVE l[k].name \in NamesOf(w)
    <3>1. k \notin S
      BY <2>2
    <3>2. PICK i \in DOMAIN w : e[i] = k
      BY <1>4, <3>1
    <3>3. w[i] = l[k]
      BY <1>4, <3>2
    <3>4. QED BY <3>3 DEF NamesOf
  <2> HIDE DEF G
  <2>3. QED BY <2>1, <2>2 DEF NamesOf
<1>8. ASSUME NEW i \in DOMAIN w PROVE t[w[i].name] = w[i].offset
  <2>1. w[i].name \in NamesOf(l) \ G
    BY <1>7 DEF NamesOf
  <2>2. TableOf(l)[w[i].name] = w[i].offset
    BY <1>4, TableOfFacts DEF Tabulates
  <2> HIDE DEF G
  <2>3. QED BY <2>1, <2>2
<1>9. Tabulates(t, w)
  <2> HIDE DEF G
  <2> QED BY <1>7, <1>8 DEF Tabulates
<1>10. QED BY <1>0, <1>6, <1>9 DEF w

\* Changing one address changes the map at one name.
LEMMA MoveTable ==
  ASSUME NEW l \in Seq(Flag), UniqueIn(l), NEW i \in DOMAIN l, NEW a,
         NEW w, DOMAIN w = DOMAIN l,
         \A k \in DOMAIN l : /\ w[k].name = l[k].name
                             /\ w[k].offset = IF k = i THEN a ELSE l[k].offset
  PROVE  /\ UniqueIn(w)
         /\ Tabulates(Updated(TableOf(l), l[i].name, a), w)
<1> DEFINE t == [m \in NamesOf(l) \union {l[i].name} |->
                   IF m = l[i].name THEN a ELSE TableOf(l)[m]]
<1>0. Updated(TableOf(l), l[i].name, a) = t
  BY DEF Updated, TableOf
<1>1. UniqueIn(w)
  BY DEF UniqueIn
<1>2. NamesOf(w) = NamesOf(l) \union {l[i].name}
  BY DEF NamesOf
<1>3. ASSUME NEW k \in DOMAIN w PROVE t[w[k].name] = w[k].offset
  <2>1. w[k].name \in NamesOf(l) /\ TableOf(l)[l[k].name] = l[k].offset
    BY TableOfFacts DEF NamesOf, Tabulates
  <2>2. w[k].name = l[i].name <=> k = i
    BY DEF UniqueIn
  <2>3. QED BY <2>1, <2>2
<1>4. Tabulates(t, w)
  BY <1>2, <1>3 DEF Tabulates
<1>5. QED BY <1>0, <1>1, <1>4

\* A new flag with a name of its own adds that name.
LEMMA AppendTable ==
  ASSUME NEW l \in Seq(Flag), UniqueIn(l), NEW f \in Flag
  PROVE  /\ UniqueIn(Append(l, f)) <=> f.name \notin NamesOf(l)
         /\ f.name \notin NamesOf(l) =>
              Tabulates(Updated(TableOf(l), f.name, f.offset), Append(l, f))
<1> DEFINE w == Append(l, f)
           t == [m \in NamesOf(l) \union {f.name} |->
                   IF m = f.name THEN f.offset ELSE TableOf(l)[m]]
           n == Len(l)
<1>0. Updated(TableOf(l), f.name, f.offset) = t
  BY DEF Updated, TableOf
<1>1. n \in Nat /\ DOMAIN l = 1 .. n /\ DOMAIN w = 1 .. n + 1 /\ w[n + 1] = f
      /\ \A k \in 1 .. n : w[k] = l[k]
  OBVIOUS
<1> HIDE DEF w, n
<1>2. n + 1 \in DOMAIN w /\ n + 1 \notin DOMAIN l /\ DOMAIN w = DOMAIN l \union {n + 1}
  BY <1>1
<1>3. UniqueIn(w) => f.name \notin NamesOf(l)
  BY <1>1, <1>2 DEF UniqueIn, NamesOf
<1>4. f.name \notin NamesOf(l) => UniqueIn(w)
  BY <1>1, <1>2 DEF UniqueIn, NamesOf
<1>5. NamesOf(w) = NamesOf(l) \union {f.name}
  BY <1>1, <1>2 DEF NamesOf
<1>6. ASSUME f.name \notin NamesOf(l), NEW k \in DOMAIN w PROVE t[w[k].name] = w[k].offset
  <2>1. CASE k = n + 1
    BY <1>1, <2>1
  <2>2. CASE k # n + 1
    <3>1. k \in DOMAIN l /\ w[k] = l[k]
      BY <1>1, <1>2, <2>2
    <3>2. l[k].name \in NamesOf(l) /\ TableOf(l)[l[k].name] = l[k].offset
      BY <3>1, TableOfFacts DEF NamesOf, Tabulates
    <3>3. QED BY <1>6, <3>1, <3>2
  <2>3. QED BY <2>1, <2>2
<1>7. f.name \notin NamesOf(l) => Tabulates(t, w)
  BY <1>5, <1>6 DEF Tabulates
<1>8. QED BY <1>0, <1>3, <1>4, <1>7 DEF w

\* The same names and addresses make the same map.
LEMMA SameTable ==
  ASSUME NEW l \in Seq(Flag), NEW w \in Seq(Flag), DOMAIN w = DOMAIN l,
         \A k \in DOMAIN l : w[k].name = l[k].name /\ w[k].offset = l[k].offset
  PROVE  /\ UniqueIn(w) <=> UniqueIn(l)
         /\ UniqueIn(l) => TableOf(w) = TableOf(l)
<1>1. UniqueIn(w) <=> UniqueIn(l)
  BY DEF UniqueIn
<1>2. ASSUME UniqueIn(l) PROVE TableOf(w) = TableOf(l)
  <2>1. Tabulates(TableOf(l), l) /\ Tabulates(TableOf(w), w)
    BY <1>1, <1>2, TableOfFacts
  <2>2. NamesOf(w) = NamesOf(l)
    BY DEF NamesOf
  <2>3. Tabulates(TableOf(l), w)
    BY <2>1, <2>2 DEF Tabulates
  <2>4. QED BY <2>1, <2>3, OneTable
<1>3. QED BY <1>1, <1>2

\* A new name for one flag moves its address, unless the name is taken.
LEMMA RenameTable ==
  ASSUME NEW l \in Seq(Flag), UniqueIn(l), NEW n \in NamesOf(l), NEW m, n # m,
         NEW w \in Seq(Flag), DOMAIN w = DOMAIN l,
         \A k \in DOMAIN l : /\ w[k].name = IF l[k].name = n THEN m ELSE l[k].name
                             /\ w[k].offset = l[k].offset
  PROVE  /\ UniqueIn(w) <=> m \notin NamesOf(l)
         /\ m \notin NamesOf(l) =>
              Tabulates(Renamed(TableOf(l), n, m), w)
<1> DEFINE t == [x \in (NamesOf(l) \ {n}) \union {m} |->
                   IF x = m THEN TableOf(l)[n] ELSE TableOf(l)[x]]
<1>0. Renamed(TableOf(l), n, m) = t
  BY DEF Renamed, TableOf
<1>1. PICK i \in DOMAIN l : l[i].name = n
  BY DEF NamesOf
<1>2. UniqueIn(w) => m \notin NamesOf(l)
  BY <1>1 DEF UniqueIn, NamesOf
<1>3. m \notin NamesOf(l) => UniqueIn(w)
  BY DEF UniqueIn, NamesOf
<1>4. ASSUME m \notin NamesOf(l) PROVE Tabulates(t, w)
  <2>1. \A k \in DOMAIN l : l[k].name = n <=> k = i
    BY <1>1 DEF UniqueIn
  <2>2. NamesOf(w) = (NamesOf(l) \ {n}) \union {m}
    BY <1>1, <2>1 DEF NamesOf
  <2>3. ASSUME NEW k \in DOMAIN w PROVE t[w[k].name] = w[k].offset
    <3>1. l[k].name \in NamesOf(l) /\ TableOf(l)[l[k].name] = l[k].offset
      BY TableOfFacts DEF NamesOf, Tabulates
    <3>2. QED BY <1>4, <3>1
  <2>4. QED BY <2>2, <2>3 DEF Tabulates
<1>5. QED BY <1>0, <1>2, <1>3, <1>4

\* A new prefix for every name with one.
LEMMA PrefixTable ==
  ASSUME NEW l \in Seq(Flag), UniqueIn(l), NEW p, NEW q, p # q,
         NEW w \in Seq(Flag), DOMAIN w = DOMAIN l, UniqueIn(w),
         \A k \in DOMAIN l : w[k].name = Moved(p, q, l[k].name) /\ w[k].offset = l[k].offset
  PROVE  /\ \A n \in NamesOf(l) : n[1] = p => <<q, n[2]>> \notin NamesOf(l)
         /\ Tabulates(Shifted(TableOf(l), p, q), w)
<1> DEFINE N == DOMAIN TableOf(l)
           D == {Moved(p, q, n) : n \in N}
           V(m) == TableOf(l)[CHOOSE n \in N : Moved(p, q, n) = m]
           t == [m \in D |-> V(m)]
<1>0. Shifted(TableOf(l), p, q) = t /\ N = NamesOf(l)
  <2>1. Shifted(TableOf(l), p, q) = t
    BY Zenon DEF Shifted
  <2>2. N = NamesOf(l)
    BY DEF TableOf
  <2>3. QED BY <2>1, <2>2
<1> HIDE DEF N
<1>1. ASSUME NEW n \in NamesOf(l), n[1] = p, <<q, n[2]>> \in NamesOf(l) PROVE FALSE
  <2>1. PICK i \in DOMAIN l : l[i].name = n
    BY DEF NamesOf
  <2>2. PICK j \in DOMAIN l : l[j].name = <<q, n[2]>>
    BY <1>1 DEF NamesOf
  <2>3. w[i].name = <<q, n[2]>> /\ w[j].name = <<q, n[2]>>
    BY <1>1, <2>1, <2>2 DEF Moved
  <2>4. i = j
    BY <2>3 DEF UniqueIn
  <2>5. QED BY <1>1, <2>1, <2>2, <2>4
<1>2. NamesOf(w) = D
  BY <1>0 DEF NamesOf
<1>3. ASSUME NEW k \in DOMAIN w PROVE t[w[k].name] = w[k].offset
  <2>1. l[k].name \in NamesOf(l) /\ TableOf(l)[l[k].name] = l[k].offset
    BY TableOfFacts DEF NamesOf, Tabulates
  <2>2. ASSUME NEW n \in NamesOf(l), Moved(p, q, n) = w[k].name PROVE n = l[k].name
    <3>1. PICK j \in DOMAIN l : l[j].name = n
      BY DEF NamesOf
    <3>2. w[j].name = w[k].name
      BY <2>2, <3>1
    <3>3. QED BY <3>1, <3>2 DEF UniqueIn
  <2>3. (CHOOSE n \in N : Moved(p, q, n) = w[k].name) = l[k].name
    BY <1>0, <2>1, <2>2
  <2>4. QED BY <1>0, <2>1, <2>3
<1>4. Tabulates(t, w)
  <2> HIDE DEF D, V
  <2> QED BY <1>2, <1>3 DEF Tabulates
<1>5. QED BY <1>0, <1>1, <1>4

\* The variables of FlagMap after a step that leaves every name unique.
LEMMA NewTable ==
  ASSUME NEW T, flags' \in Seq(T)
  PROVE  /\ Unique' <=> UniqueIn(flags')
         /\ Unique' => Table' = TableOf(flags')
         /\ ~Unique' => Table' = Map!Empty
         /\ \A t : Unique' /\ Tabulates(t, flags') => Table' = t
<1>1. Unique' <=> UniqueIn(flags')
  BY DEF Unique, UniqueIn
<1>2. ASSUME Unique' PROVE Table' = TableOf(flags')
  BY <1>2 DEF Table, TableOf, NamesOf, flag_get, Named
<1>3. ASSUME ~Unique' PROVE Table' = Map!Empty
  BY <1>3 DEF Table, Map!Empty
<1>4. ASSUME NEW t, Unique', Tabulates(t, flags') PROVE Table' = t
  BY <1>1, <1>2, <1>4, TableOfFacts, OneTable
<1>5. QED BY <1>1, <1>2, <1>3, <1>4

------------------------------------------------------------------------------
(***************************************************************************)
(* What the commands do to the map.                                        *)
(***************************************************************************)
\* The list of flags and the map, when every name is unique.
LEMMA UniqueFacts ==
  ASSUME TypeOK, Unique
  PROVE  /\ flags \in Seq(Flag) /\ UniqueIn(flags)
         /\ \A k \in DOMAIN flags : flags[k] \in Flag
         /\ Table = TableOf(flags) /\ DOMAIN Table = NamesOf(flags)
         /\ Tabulates(Table, flags)
<1>1. flags \in Seq(Flag) /\ UniqueIn(flags) /\ Table = TableOf(flags)
  BY TableFacts DEF TypeOK
<1>2. QED BY <1>1, TableOfFacts DEF TableOf

\* A flag that is moved.
LEMMA MoveStep ==
  ASSUME TypeOK, Unique, NEW i \in DOMAIN flags, NEW a \in Addr,
         flags' = [flags EXCEPT ![i].offset = a]
  PROVE  Unique' /\ Map!Set(flags[i].name, a)
<1>1. /\ flags \in Seq(Flag) /\ UniqueIn(flags) /\ \A k \in DOMAIN flags : flags[k] \in Flag
      /\ Table = TableOf(flags) /\ DOMAIN Table = NamesOf(flags)
  BY UniqueFacts
<1> DEFINE g == [name |-> flags[i].name, offset |-> a, space |-> flags[i].space]
<1>2. flags' = [k \in DOMAIN flags |-> IF k = i THEN g ELSE flags[k]] /\ Follows(flags')
  BY MoveFollows
<1>3. flags' \in Seq(Flag) /\ DOMAIN flags' = DOMAIN flags
  BY <1>2 DEF Follows
<1>4. \A k \in DOMAIN flags : /\ flags'[k].name = flags[k].name
                              /\ flags'[k].offset = IF k = i THEN a ELSE flags[k].offset
  BY <1>2
<1>5. /\ UniqueIn(flags')
      /\ Tabulates(Updated(Table, flags[i].name, a), flags')
  <2>1. PICK w : w = flags'
    OBVIOUS
  <2>2. /\ DOMAIN w = DOMAIN flags
        /\ \A k \in DOMAIN flags : /\ w[k].name = flags[k].name
                                   /\ w[k].offset = IF k = i THEN a ELSE flags[k].offset
    BY <1>3, <1>4, <2>1
  <2>3. UniqueIn(w) /\ Tabulates(Updated(TableOf(flags), flags[i].name, a), w)
    BY <1>1, <2>2, MoveTable
  <2>4. QED BY <1>1, <2>1, <2>3
<1>6. Unique' /\ Table' = Updated(Table, flags[i].name, a)
  BY <1>3, <1>5, NewTable
<1>7. QED BY <1>6 DEF Map!Set, Updated

\* A flag that is added.
LEMMA AppendStep ==
  ASSUME TypeOK, Unique, NEW n \in Name, NEW a \in Addr, a + from <= MaxAddr,
         flags' = Append(flags, New(n, a))
  PROVE  /\ Unique' <=> Named(flags, n) = {}
         /\ Unique' => Map!Set(n, a + from)
<1>1. /\ flags \in Seq(Flag) /\ UniqueIn(flags)
      /\ Table = TableOf(flags) /\ DOMAIN Table = NamesOf(flags)
  BY UniqueFacts
<1> DEFINE f == New(n, a)
<1>2. f \in Flag /\ f.name = n /\ f.offset = a + from
  BY AddrFacts DEF New, Flag, TypeOK
<1> HIDE DEF f
<1>3. flags' \in Seq(Flag) /\ flags' = Append(flags, f)
  BY <1>1, <1>2 DEF f
<1>4. n \in NamesOf(flags) <=> Named(flags, n) # {}
  BY DEF NamesOf, Named
<1>5. /\ UniqueIn(flags') <=> n \notin NamesOf(flags)
      /\ n \notin NamesOf(flags) =>
           Tabulates(Updated(Table, n, a + from), flags')
  BY <1>1, <1>2, <1>3, AppendTable
<1>6. ASSUME Unique' PROVE Map!Set(n, a + from)
  <2>1. Table' = Updated(Table, n, a + from)
    BY <1>3, <1>5, <1>6, NewTable
  <2>2. QED BY <2>1 DEF Map!Set, Updated
<1>7. QED BY <1>3, <1>4, <1>5, <1>6, NewTable

\* f name sets one name of the map, or makes it appear twice.
LEMMA CmdFlagStep ==
  ASSUME TypeOK, Unique, NEW n \in Name, NEW a \in Addr, CmdFlag(n, a)
  PROVE  /\ ~interrupted => Unique'
         /\ Unique' => Map!Set(n, a + from)
<1>0. a + from <= MaxAddr /\ a + from \in Addr /\ flags' = flag_set(n, a)
  BY AddrFacts DEF CmdFlag, TypeOK, Change
<1>1. flags \in Seq(Flag)
  BY DEF TypeOK
<1>2. CASE Named(flags, n) # {} /\ ~interrupted
  <2> DEFINE i == First(Named(flags, n))
  <2>1. i \in Named(flags, n)
    BY <1>1, <1>2, PositionFacts DEF Named
  <2>2. i \in DOMAIN flags /\ flags[i].name = n
    BY <2>1 DEF Named
  <2>3. flags' = [flags EXCEPT ![i].offset = a + from]
    BY <1>0, <1>2 DEF flag_set
  <2> HIDE DEF i
  <2>4. Unique' /\ Map!Set(flags[i].name, a + from)
    BY <1>0, <2>2, <2>3, MoveStep
  <2>5. QED BY <2>2, <2>4
<1>3. CASE ~(Named(flags, n) # {} /\ ~interrupted)
  <2>1. flags' = Append(flags, New(n, a))
    BY <1>0, <1>3 DEF flag_set
  <2>2. QED BY <1>0, <1>3, <2>1, AppendStep
<1>4. QED BY <1>2, <1>3

\* Flags that are removed.
LEMMA WithoutStep ==
  ASSUME TypeOK, Unique, NEW S, flags' = Without(flags, S)
  PROVE  Unique' /\ Table' = Dropped(Table, {flags[i].name : i \in S \intersect DOMAIN flags})
<1>1. flags \in Seq(Flag) /\ UniqueIn(flags) /\ Table = TableOf(flags)
  BY UniqueFacts
<1>2. flags' \in Seq(Flag)
  BY <1>1, WithoutFacts
<1>3. /\ UniqueIn(flags')
      /\ Tabulates(Dropped(Table, {flags[i].name : i \in S \intersect DOMAIN flags}), flags')
  BY <1>1, WithoutTable
<1>4. QED BY <1>2, <1>3, NewTable

\* Every flag at an address is removed.
LEMMA ClearStep ==
  ASSUME TypeOK, Unique, NEW a, ~interrupted, flags' = Cleared(flags, a)
  PROVE  Unique' /\ Map!RemoveAt(a)
<1> DEFINE S == {i \in DOMAIN flags : flags[i].offset = a}
           G == {flags[i].name : i \in S \intersect DOMAIN flags}
<1>1. flags' = Without(flags, S)
  BY DEF Cleared
<1>2. Unique' /\ Table' = Dropped(Table, G)
  BY <1>1, WithoutStep
<1>3. Tabulates(Table, flags) /\ DOMAIN Table = NamesOf(flags)
  BY UniqueFacts
<1>4. G = Map!At(a)
  BY <1>3 DEF Map!At, Tabulates, NamesOf
<1> HIDE DEF G
<1>5. QED BY <1>2, <1>4 DEF Map!RemoveAt, Map!Drop, Dropped

\* The flags of one name are removed.
LEMMA RemoveNameStep ==
  ASSUME TypeOK, Unique, NEW n, NEW S, S \subseteq Named(flags, n), S # {},
         flags' = Without(flags, S)
  PROVE  Unique' /\ Map!Remove(n)
<1> DEFINE G == {flags[i].name : i \in S \intersect DOMAIN flags}
<1>1. Unique' /\ Table' = Dropped(Table, G)
  BY WithoutStep
<1>2. G = {n}
  BY DEF Named
<1> HIDE DEF G
<1>3. QED BY <1>1, <1>2 DEF Map!Remove, Map!Drop, Dropped

\* f -prefix* removes the flags with the prefix, then those at address 0.
LEMMA RemovePrefixStep ==
  ASSUME TypeOK, Unique, NEW p \in Prefix, ~interrupted,
         flags' = Cleared(Without(flags, Matching(p)), 0)
  PROVE  Unique' /\ Map!RemovePrefix(p)
<1> DEFINE w == Without(flags, Matching(p))
           S == {i \in DOMAIN w : w[i].offset = 0}
           G1 == {flags[i].name : i \in Matching(p) \intersect DOMAIN flags}
           G2 == {w[i].name : i \in S \intersect DOMAIN w}
           G == {n \in Name : n[1] = p} \union Map!At(0)
<1>1. /\ flags \in Seq(Flag) /\ UniqueIn(flags) /\ \A k \in DOMAIN flags : flags[k] \in Flag
      /\ Table = TableOf(flags) /\ DOMAIN Table = NamesOf(flags) /\ Tabulates(Table, flags)
  BY UniqueFacts
<1>2. w \in Seq(Flag) /\ UniqueIn(w) /\ Tabulates(Dropped(Table, G1), w)
  BY <1>1, WithoutFacts, WithoutTable
<1>3. flags' = Without(w, S)
  BY DEF Cleared
<1> HIDE DEF w
<1>4. TableOf(w) = Dropped(Table, G1)
  BY <1>2, TableOfFacts, OneTable
<1>5. flags' \in Seq(Flag) /\ UniqueIn(flags') /\ Tabulates(Dropped(TableOf(w), G2), flags')
  <2>1. Without(w, S) \in Seq(Flag)
    BY <1>2, WithoutFacts
  <2>2. UniqueIn(Without(w, S)) /\ Tabulates(Dropped(TableOf(w), G2), Without(w, S))
    BY <1>2, WithoutTable
  <2>3. QED BY <1>3, <2>1, <2>2
<1>6. Unique' /\ Table' = Dropped(Dropped(Table, G1), G2)
  BY <1>4, <1>5, NewTable
<1>7. \A n \in NamesOf(flags) : n \in G1 <=> n[1] = p
  BY DEF NamesOf, Matching
<1>8. \A k \in DOMAIN flags : flags[k].name \in Name
  BY <1>1 DEF Flag
<1>9. NamesOf(flags) \subseteq Name
  BY <1>8 DEF NamesOf
<1>10. ASSUME NEW n \in NamesOf(flags) \ G1 PROVE n \in G2 <=> Table[n] = 0
  <2>1. DOMAIN Dropped(Table, G1) = NamesOf(flags) \ G1 /\ Dropped(Table, G1)[n] = Table[n]
    <3> HIDE DEF G1
    <3> QED BY <1>1 DEF Dropped
  <2>2. n \in NamesOf(w)
    <3>1. DOMAIN TableOf(w) = NamesOf(w)
      BY DEF TableOf
    <3> HIDE DEF G1
    <3>2. QED BY <1>4, <2>1, <3>1
  <2>3. PICK i \in DOMAIN w : w[i].name = n
    BY <2>2 DEF NamesOf
  <2>4. w[i].offset = Table[n]
    <3> HIDE DEF G1
    <3> QED BY <1>2, <2>1, <2>3 DEF Tabulates
  <2>5. QED BY <1>2, <2>3, <2>4 DEF UniqueIn
<1>11. NamesOf(flags) \ G = (NamesOf(flags) \ G1) \ G2
  <2>1. \A n \in NamesOf(flags) : n \in G <=> n[1] = p \/ Table[n] = 0
    BY <1>1, <1>9 DEF Map!At
  <2> HIDE DEF G, G1, G2
  <2>2. QED BY <1>7, <1>10, <2>1
<1> HIDE DEF G, G1, G2
<1>12. Dropped(Dropped(Table, G1), G2) = Dropped(Table, G)
  BY <1>1, <1>11 DEF Dropped
<1>13. Map!RemovePrefix(p) <=> Table' = Dropped(Table, G)
  BY DEF Map!RemovePrefix, Map!Drop, Dropped, G, Map!Name, Name
<1>14. QED BY <1>6, <1>12, <1>13

\* f -* leaves nothing.
LEMMA RemoveAllStep ==
  ASSUME TypeOK, Unique, flags' = <<>>
  PROVE  Unique' /\ Map!RemoveAll
<1>1. /\ flags \in Seq(Flag) /\ \A k \in DOMAIN flags : flags[k] \in Flag
      /\ DOMAIN Table = NamesOf(flags)
  BY UniqueFacts
<1>2. NamesOf(flags) \subseteq Name
  <2>1. \A k \in DOMAIN flags : flags[k].name \in Name
    BY <1>1 DEF Flag
  <2>2. QED BY <2>1 DEF NamesOf
<1>3. flags' \in Seq(Flag) /\ DOMAIN flags' = {}
  OBVIOUS
<1>4. UniqueIn(flags') /\ Tabulates(Dropped(Table, Name), flags')
  <2>1. NamesOf(flags') = {} /\ DOMAIN Table \ Name = {}
    BY <1>1, <1>2, <1>3 DEF NamesOf
  <2>2. QED BY <1>3, <2>1 DEF UniqueIn, Tabulates, Dropped
<1>5. Unique' /\ Table' = Dropped(Table, Name)
  BY <1>3, <1>4, NewTable
<1>6. QED BY <1>5 DEF Map!RemoveAll, Map!Drop, Dropped, Map!Name, Name

\* fr old new moves an address to the new name; the name appears twice when
\* it was taken.
LEMMA RenameStep ==
  ASSUME TypeOK, Unique, NEW n \in Name, NEW m \in Name, flag_rename(n, m)
  PROVE  \/ flags' = flags /\ (n = m \/ Named(flags, n) = {})
         \/ /\ n # m /\ Named(flags, n) # {}
            /\ Unique' <=> Named(flags, m) = {}
            /\ Unique' => Map!Rename(n, m)
<1>1. /\ flags \in Seq(Flag) /\ UniqueIn(flags) /\ \A k \in DOMAIN flags : flags[k] \in Flag
      /\ Table = TableOf(flags) /\ DOMAIN Table = NamesOf(flags)
  BY UniqueFacts
<1> DEFINE w == [i \in DOMAIN flags |->
                   IF flags[i].name = n THEN [flags[i] EXCEPT !.name = m] ELSE flags[i]]
<1>2. flags' = w
  BY Zenon DEF flag_rename, Change
<1>3. ASSUME NEW k \in DOMAIN flags
      PROVE  /\ w[k] \in Flag
             /\ w[k].name = IF flags[k].name = n THEN m ELSE flags[k].name
             /\ w[k].offset = flags[k].offset
             /\ flags[k].name # n \/ n = m => w[k] = flags[k]
  <2>1. flags[k] \in Flag
    BY <1>1
  <2>2. QED BY <2>1 DEF Flag
<1>4. w \in [DOMAIN flags -> Flag] /\ DOMAIN w = DOMAIN flags
  BY <1>3
<1> HIDE DEF w
<1>5. w \in Seq(Flag)
  BY <1>1, <1>4, InPlace
<1>6. \A x : Named(flags, x) = {} <=> x \notin NamesOf(flags)
  BY DEF Named, NamesOf
<1>7. CASE n = m \/ Named(flags, n) = {}
  <2>1. \A k \in DOMAIN flags : w[k] = flags[k]
    BY <1>3, <1>7 DEF Named
  <2>2. w = flags
    BY <1>1, <1>4, <2>1
  <2>3. QED BY <1>2, <1>7, <2>2
<1>8. CASE n # m /\ Named(flags, n) # {}
  <2>1. n \in NamesOf(flags)
    BY <1>6, <1>8
  <2>2. /\ UniqueIn(w) <=> m \notin NamesOf(flags)
        /\ m \notin NamesOf(flags) => Tabulates(Renamed(Table, n, m), w)
    BY <1>1, <1>3, <1>4, <1>5, <1>8, <2>1, RenameTable
  <2>3. Unique' <=> m \notin NamesOf(flags)
    BY <1>2, <1>5, <2>2, NewTable
  <2>4. ASSUME Unique' PROVE Map!Rename(n, m)
    <3>1. Table' = Renamed(Table, n, m) /\ m \notin NamesOf(flags)
      BY <1>2, <1>5, <2>2, <2>3, <2>4, NewTable
    <3>2. QED BY <1>1, <2>1, <3>1 DEF Map!Rename, Renamed
  <2>5. QED BY <1>6, <1>8, <2>3, <2>4
<1>9. QED BY <1>7, <1>8

\* fr old* new gives names another prefix; when every name is still unique
\* none was taken.
LEMMA RenamePrefixStep ==
  ASSUME TypeOK, Unique, NEW p \in Prefix, NEW q \in Prefix, flag_rename_prefix(p, q), Unique'
  PROVE  flags' = flags \/ Map!RenamePrefix(p, q)
<1>1. /\ flags \in Seq(Flag) /\ UniqueIn(flags) /\ \A k \in DOMAIN flags : flags[k] \in Flag
      /\ Table = TableOf(flags) /\ DOMAIN Table = NamesOf(flags)
  BY UniqueFacts
<1> DEFINE w == [i \in DOMAIN flags |->
                   IF flags[i].name[1] = p THEN [flags[i] EXCEPT !.name[1] = q] ELSE flags[i]]
<1>2. flags' = w
  BY Zenon DEF flag_rename_prefix, Change
<1>3. ASSUME NEW k \in DOMAIN flags
      PROVE  /\ w[k] \in Flag
             /\ w[k].name = Moved(p, q, flags[k].name)
             /\ w[k].offset = flags[k].offset
             /\ p = q => w[k] = flags[k]
  <2> DEFINE f == flags[k]
             g == [name |-> <<q, f.name[2]>>, offset |-> f.offset, space |-> f.space]
  <2>1. f \in Flag /\ f.name \in Name /\ f.offset \in Addr /\ f.space \in Slot \union {-1}
    <3>1. f \in Flag
      BY <1>1
    <3>2. QED BY <3>1 DEF Flag
  <2>2. [f EXCEPT !.name[1] = q] = g /\ <<q, f.name[2]>> \in Name
    BY <2>1, FlagFacts
  <2>3. g \in Flag /\ g.name = <<q, f.name[2]>> /\ g.offset = f.offset
    BY <2>1, <2>2 DEF Flag
  <2>4. f.name[1] = q => g = f
    <3>1. f.name = <<f.name[1], f.name[2]>>
      BY <2>1 DEF Name
    <3>2. f = [name |-> f.name, offset |-> f.offset, space |-> f.space]
      BY <2>1 DEF Flag
    <3>3. QED BY <3>1, <3>2, Zenon
  <2>5. w[k] = IF f.name[1] = p THEN g ELSE f
    BY <2>2
  <2> HIDE DEF f, g
  <2>6. w[k] \in Flag /\ (p = q => w[k] = f)
    BY <2>1, <2>3, <2>4, <2>5
  <2>7. w[k].name = Moved(p, q, f.name) /\ w[k].offset = f.offset
    <3>1. CASE f.name[1] = p
      BY <2>3, <2>5, <3>1, Zenon DEF Moved
    <3>2. CASE f.name[1] # p
      BY <2>5, <3>2, Zenon DEF Moved
    <3>3. QED BY <3>1, <3>2
  <2>8. QED BY <2>6, <2>7 DEF f
<1>4. w \in [DOMAIN flags -> Flag] /\ DOMAIN w = DOMAIN flags
  BY <1>3
<1> HIDE DEF w
<1>5. w \in Seq(Flag)
  BY <1>1, <1>4, InPlace
<1>6. CASE p = q
  <2>1. w = flags
    BY <1>1, <1>3, <1>4, <1>6
  <2>2. QED BY <1>2, <2>1
<1>7. CASE p # q
  <2>1. UniqueIn(w)
    BY <1>2, <1>5, NewTable
  <2>2. /\ \A n \in NamesOf(flags) : n[1] = p => <<q, n[2]>> \notin NamesOf(flags)
        /\ Tabulates(Shifted(Table, p, q), w)
    BY <1>1, <1>3, <1>4, <1>5, <1>7, <2>1, PrefixTable
  <2>3. Table' = Shifted(Table, p, q)
    BY <1>2, <1>5, <2>2, NewTable
  <2>4. QED BY <1>1, <1>7, <2>2, <2>3 DEF Map!RenamePrefix, Shifted, Moved
<1>8. QED BY <1>6, <1>7

\* A step that leaves names and addresses alone leaves the map alone.
LEMMA SameStep ==
  ASSUME TypeOK, flags' \in Seq(Flag), DOMAIN flags' = DOMAIN flags,
         \A k \in DOMAIN flags : /\ flags'[k].name = flags[k].name
                                 /\ flags'[k].offset = flags[k].offset
  PROVE  (Unique' <=> Unique) /\ Table' = Table
<1>1. flags \in Seq(Flag)
  BY DEF TypeOK
<1>2. /\ UniqueIn(flags') <=> UniqueIn(flags)
      /\ UniqueIn(flags) => TableOf(flags') = TableOf(flags)
  BY <1>1, SameTable
<1>3. QED BY <1>2, TableFacts, NewTable

\* Every step that leaves the names unique is a step of FlagMap.
LEMMA UniqueStep ==
  ASSUME RemembersTrue, ListCommand, Unique, Unique'
  PROVE  Map!Step \/ flags' = flags
<1>0. TypeOK
  BY DEF RemembersTrue, SpacesExist
<1>1. flags \in Seq(Flag)
  BY <1>0 DEF TypeOK
<1> USE DEF Map!Name, Name
<1>2. ASSUME NEW n \in Name, NEW a \in Addr, CmdFlag(n, a) PROVE Map!Step
  <2>1. a + from \in Addr
    BY <1>0, <1>2, AddrFacts DEF CmdFlag, TypeOK
  <2>2. QED BY <1>0, <1>2, <2>1, CmdFlagStep DEF Map!Step
<1>3. ASSUME NEW n \in Name, NEW a \in Addr, flag_set_undef(n, a) PROVE Map!Step
  BY <1>2, <1>3 DEF flag_set_undef
<1>4. ASSUME NEW n \in Name, NEW a \in Addr, flag_set_dup(n, a) PROVE Map!Step
  <2>1. a + from \in Addr /\ a + from <= MaxAddr /\ flags' = Append(flags, New(n, a))
    BY <1>0, <1>4, AddrFacts DEF flag_set_dup, TypeOK, Change
  <2>2. QED BY <1>0, <2>1, AppendStep DEF Map!Step
<1>5. ASSUME NEW a \in Addr, flag_clear_by_addr(a) PROVE Map!Step \/ flags' = flags
  <2>1. flags' = Cleared(flags, a)
    BY <1>5 DEF flag_clear_by_addr, Change
  <2>2. CASE interrupted
    BY <2>1, <2>2 DEF Cleared
  <2>3. CASE ~interrupted
    BY <1>0, <2>1, <2>3, ClearStep DEF Map!Step
  <2>4. QED BY <2>2, <2>3
<1>6. ASSUME NEW a \in Addr, flag_remove_at(a) PROVE Map!Step
  <2> DEFINE i == First(AtAddr(a))
  <2>1. i \in DOMAIN flags
    BY <1>1, <1>6, PositionFacts DEF flag_remove_at, AtAddr
  <2>2. flags' = Without(flags, {i})
    BY <1>6 DEF flag_remove_at, Change
  <2> HIDE DEF i
  <2>3. {i} \subseteq Named(flags, flags[i].name) /\ flags[i].name \in Name
    <3>1. flags[i] \in Flag
      BY <1>1, <2>1
    <3>2. QED BY <2>1, <3>1 DEF Named, Flag
  <2>4. Map!Remove(flags[i].name)
    BY <1>0, <2>2, <2>3, RemoveNameStep
  <2>5. QED BY <2>3, <2>4 DEF Map!Step
<1>7. ASSUME NEW a \in Addr, NEW d \in {-1, 1}, flag_rebase(a, d) PROVE Map!Step
  <2> DEFINE i == First(AtAddr(a))
  <2>1. i \in DOMAIN flags
    BY <1>1, <1>7, PositionFacts DEF flag_rebase, AtAddr
  <2>2. flags' = [flags EXCEPT ![i].offset = a + d] /\ a + d \in Addr
    BY <1>7 DEF flag_rebase, Change
  <2> HIDE DEF i
  <2>3. flags[i].name \in Name
    <3>1. flags[i] \in Flag
      BY <1>1, <2>1
    <3>2. QED BY <3>1 DEF Flag
  <2>4. Map!Set(flags[i].name, a + d)
    BY <1>0, <2>1, <2>2, MoveStep
  <2>5. QED BY <2>2, <2>3, <2>4 DEF Map!Step
<1>8. ASSUME NEW n \in Name, flag_remove(n) PROVE Map!Step \/ flags' = flags
  <2>1. flags' = IF interrupted THEN flags
                 ELSE IF Named(flags, n) # {} THEN Without(flags, Named(flags, n))
                 ELSE Cleared(flags, 0)
    BY <1>8, Zenon DEF flag_remove, Change
  <2>2. CASE ~interrupted /\ Named(flags, n) # {}
    BY <1>0, <2>1, <2>2, RemoveNameStep DEF Map!Step
  <2>3. CASE ~interrupted /\ Named(flags, n) = {}
    <3>1. Map!RemoveAt(0) /\ 0 \in Addr
      BY <1>0, <2>1, <2>3, ClearStep, AddrFacts
    <3>2. QED BY <3>1 DEF Map!Step
  <2>4. QED BY <2>1, <2>2, <2>3
<1>9. ASSUME NEW n \in Name, NEW m \in Name, flag_rename(n, m) PROVE Map!Step \/ flags' = flags
  BY <1>0, <1>9, RenameStep DEF Map!Step
<1>10. ASSUME NEW p \in Prefix, flag_remove_prefix(p) PROVE Map!Step \/ flags' = flags
  <2>1. flags' = IF interrupted THEN flags ELSE Cleared(Without(flags, Matching(p)), 0)
    BY <1>10, Zenon DEF flag_remove_prefix, Change
  <2>2. QED BY <1>0, <2>1, RemovePrefixStep DEF Map!Step
<1>11. ASSUME NEW p \in Prefix, NEW q \in Prefix, flag_rename_prefix(p, q)
       PROVE  Map!Step \/ flags' = flags
  BY <1>0, <1>11, RenamePrefixStep DEF Map!Step
<1>12. ASSUME flag_remove_all PROVE Map!Step \/ flags' = flags
  <2>1. flags' = IF interrupted THEN flags ELSE <<>>
    BY <1>12, Zenon DEF flag_remove_all, Change
  <2>2. QED BY <1>0, <2>1, RemoveAllStep DEF Map!Step
<1>13. QED
  BY <1>2, <1>3, <1>4, <1>5, <1>6, <1>7, <1>8, <1>9, <1>10, <1>11, <1>12 DEF ListCommand

\* The other commands do not touch names and addresses.
LEMMA OtherStep ==
  ASSUME RemembersTrue, [Next]_vars, ~ListCommand
  PROVE  (Unique' <=> Unique) /\ Table' = Table
<1>0. TypeOK /\ flags \in Seq(Flag) /\ \A k \in DOMAIN flags : flags[k] \in Flag
  BY DEF RemembersTrue, SpacesExist, TypeOK
<1>1. ASSUME flags' = flags PROVE (Unique' <=> Unique) /\ Table' = Table
  BY <1>0, <1>1, SameStep
<1>2. ASSUME NEW n \in Name, flag_space_move(n) PROVE (Unique' <=> Unique) /\ Table' = Table
  <2> DEFINE i == Last(Named(flags, n))
  <2>1. i \in DOMAIN flags
    BY <1>0, <1>2, PositionFacts DEF flag_space_move, Named
  <2>2. flags' = [flags EXCEPT ![i].space = idx]
    BY <1>2 DEF flag_space_move
  <2> HIDE DEF i
  <2>3. ASSUME NEW k \in DOMAIN flags
        PROVE  /\ flags'[k] \in Flag
               /\ flags'[k].name = flags[k].name /\ flags'[k].offset = flags[k].offset
    BY <1>0, <2>1, <2>2 DEF Flag, TypeOK
  <2>4. flags' \in Seq(Flag) /\ DOMAIN flags' = DOMAIN flags
    <3>1. flags' \in [DOMAIN flags -> Flag]
      BY <2>2, <2>3
    <3>2. QED BY <1>0, <3>1, InPlace
  <2>5. QED BY <1>0, <2>3, <2>4, SameStep
<1>3. ASSUME NEW i, flags' = Unlinked(i) PROVE (Unique' <=> Unique) /\ Table' = Table
  <2>1. CASE interrupted
    BY <1>1, <1>3, <2>1 DEF Unlinked
  <2>2. CASE ~interrupted
    <3> DEFINE l == [k \in DOMAIN flags |->
                       IF flags[k].space = i THEN [flags[k] EXCEPT !.space = -1] ELSE flags[k]]
    <3>1. flags' = l
      BY <1>3, <2>2 DEF Unlinked
    <3>2. ASSUME NEW k \in DOMAIN flags
          PROVE  l[k] \in Flag /\ l[k].name = flags[k].name /\ l[k].offset = flags[k].offset
      BY <1>0 DEF Flag
    <3>3. l \in [DOMAIN flags -> Flag]
      BY <3>2
    <3> HIDE DEF l
    <3>4. QED BY <1>0, <3>1, <3>2, <3>3, InPlace, SameStep
  <2>3. QED BY <2>1, <2>2
<1>4. QED
  BY <1>1, <1>2, <1>3
  DEF Next, vars, ListCommand, flag_from, flag_space_all, flag_space_remove_any, RemoveSlot,
      flag_space_remove, flag_space_set, flag_get_here_filter, Interrupt, radare_prompt

\* The list starts as the empty map, and every step of the commands is one of
\* FlagMap or leaves it alone.
LEMMA MapInit == Init => Map!Init
<1> SUFFICES ASSUME Init PROVE Map!Init
  OBVIOUS
<1>1. flags = <<>> /\ DOMAIN flags = {}
  BY DEF Init
<1>2. Unique
  BY <1>1 DEF Unique
<1>3. Table = Map!Empty
  BY <1>1, <1>2 DEF Table, Map!Empty
<1>4. QED BY <1>2, <1>3 DEF Map!Init

\* Each step of Flags is a step of FlagMap.
LEMMA MapNext ==
  ASSUME RemembersTrue, [Next]_vars
  PROVE  [Map!Next]_<<Table, ~Unique>>
<1>0. TypeOK /\ TypeOK' /\ flags' \in Seq(Flag)
  <2>1. RemembersTrue'
    BY NextKeeps
  <2>2. QED BY <2>1 DEF RemembersTrue, SpacesExist, TypeOK
<1>1. CASE ~ListCommand
  BY <1>1, OtherStep
<1>2. CASE ListCommand /\ Unique /\ Unique'
  <2>1. CASE flags' = flags
    BY <1>0, <2>1, SameStep
  <2>2. CASE Map!Step
    BY <1>2, <2>2 DEF Map!Next
  <2>3. QED BY <1>2, <2>1, <2>2, UniqueStep
<1>3. CASE ~Unique'
  <2>1. Table' = Map!Empty
    BY <1>0, <1>3, NewTable
  <2>2. QED BY <1>3, <2>1 DEF Map!Next
<1>4. CASE ~Unique /\ Unique'
  <2>1. Table' \in Map!Tables
    BY <1>0, <1>4, NewTable, TableType
  <2>2. QED BY <1>4, <2>1 DEF Map!Next
<1>5. QED BY <1>1, <1>2, <1>3, <1>4

\* While every name is there once, the list of flags.c is a map from names to
\* addresses, for every list: no command does more to it than FlagMap says.
THEOREM FlagsImplementMap == Spec => ImplementsMap
<1>1. Spec => []RemembersTrue
  BY RememberedCorrect
<1>2. RemembersTrue /\ [Next]_vars => [Map!Next]_<<Table, ~Unique>>
  BY MapNext
<1>3. QED BY <1>1, <1>2, MapInit, PTL DEF Spec, ImplementsMap, Map!Spec

\* After f name the name evaluates to the address it was given.
LEMMA SetWinsStep ==
  ASSUME TypeOK, NEW n \in Name, NEW a \in Addr
  PROVE  SetWins(n, a)
<1> SUFFICES ASSUME CmdFlag(n, a), interrupted \/ ~ \E i, j \in Named(flags, n) : i # j
             PROVE  flag_get(flags', n).offset = a + from
  BY DEF SetWins
<1>0. flags \in Seq(Flag) /\ a + from <= MaxAddr /\ a + from \in Addr /\ flags' = flag_set(n, a)
  BY AddrFacts DEF CmdFlag, TypeOK, Change
<1>1. CASE Named(flags, n) # {} /\ ~interrupted
  <2> DEFINE i == First(Named(flags, n))
  <2>1. i \in Named(flags, n)
    BY <1>0, <1>1, PositionFacts DEF Named
  <2>2. i \in DOMAIN flags /\ Named(flags, n) = {i}
    BY <1>1, <2>1 DEF Named
  <2>3. flags' = [flags EXCEPT ![i].offset = a + from]
    BY <1>0, <1>1 DEF flag_set
  <2> HIDE DEF i
  <2> DEFINE b == a + from
             g == [name |-> flags[i].name, offset |-> b, space |-> flags[i].space]
  <2> HIDE DEF b
  <2>4. flags' = [k \in DOMAIN flags |-> IF k = i THEN g ELSE flags[k]] /\ Follows(flags')
    <3>1. b \in Addr /\ flags' = [flags EXCEPT ![i].offset = b]
      BY <1>0, <2>3 DEF b
    <3>2. QED BY <2>2, <3>1, MoveFollows
  <2>5. flags' \in Seq(Flag) /\ DOMAIN flags' = DOMAIN flags /\ flags'[i].offset = a + from
    BY <2>2, <2>4 DEF Follows, b
  <2>6. \A k \in DOMAIN flags : flags'[k].name = flags[k].name
    BY <2>4
  <2>7. Named(flags', n) = Named(flags, n)
    BY <2>5, <2>6 DEF Named
  <2>8. Last(Named(flags', n)) = i
    <3>1. Named(flags', n) \subseteq DOMAIN flags' /\ Named(flags', n) # {}
      BY <2>2, <2>5, <2>7
    <3>2. Last(Named(flags', n)) \in Named(flags', n)
      BY <2>5, <3>1, PositionFacts
    <3>3. QED BY <2>2, <2>7, <3>2
  <2>9. QED BY <2>5, <2>8 DEF flag_get
<1>2. CASE ~(Named(flags, n) # {} /\ ~interrupted)
  <2> DEFINE f == New(n, a)
             k == Len(flags) + 1
  <2>1. f \in Flag /\ f.name = n /\ f.offset = a + from
    BY <1>0 DEF New, Flag, TypeOK
  <2>2. flags' = Append(flags, f)
    BY <1>0, <1>2 DEF flag_set
  <2> HIDE DEF f
  <2>3. flags' \in Seq(Flag) /\ DOMAIN flags' = 1 .. k /\ flags'[k] = f /\ k \in DOMAIN flags'
    BY <1>0, <2>1, <2>2
  <2>4. k \in Named(flags', n) /\ Named(flags', n) \subseteq 1 .. k /\ k \in Nat
    BY <1>0, <2>1, <2>3 DEF Named
  <2>5. /\ Last(Named(flags', n)) \in 1 .. k
        /\ Last(Named(flags', n)) >= k
    <3>1. Named(flags', n) \subseteq DOMAIN flags' /\ Named(flags', n) # {}
      BY <2>3, <2>4
    <3>2. Last(Named(flags', n)) \in Named(flags', n) /\ \A j \in Named(flags', n) : Last(Named(flags', n)) >= j
      BY <2>3, <3>1, PositionFacts
    <3>3. QED BY <2>4, <3>2
  <2>6. Last(Named(flags', n)) = k
    BY <2>4, <2>5
  <2>7. QED BY <2>1, <2>3, <2>6 DEF flag_get
<1>3. QED BY <1>1, <1>2

\* Each command does to the map what it is documented to do.
LEMMA RefineStep ==
  ASSUME TypeOK
  PROVE  /\ \A n \in Name, a \in Addr : SetWins(n, a)
         /\ Unique /\ ~interrupted =>
              /\ \A n \in Name, a \in Addr : CmdFlag(n, a) => Unique' /\ Map!Set(n, a + from)
              /\ \A a \in Addr : flag_clear_by_addr(a) => Map!RemoveAt(a)
              /\ \A n \in Name : flag_remove(n) =>
                   IF Named(flags, n) # {} THEN Map!Remove(n) ELSE Map!RemoveAt(0)
              /\ \A p \in Prefix : flag_remove_prefix(p) => Map!RemovePrefix(p)
              /\ \A n, m \in Name : flag_rename(n, m) /\ n # m /\ Named(flags, m) = {} =>
                   Unique' /\ (Named(flags, n) # {} => Map!Rename(n, m))
<1>1. \A n \in Name, a \in Addr : SetWins(n, a)
  BY SetWinsStep
<1>2. SUFFICES ASSUME Unique, ~interrupted
               PROVE  /\ \A n \in Name, a \in Addr : CmdFlag(n, a) => Unique' /\ Map!Set(n, a + from)
                      /\ \A a \in Addr : flag_clear_by_addr(a) => Map!RemoveAt(a)
                      /\ \A n \in Name : flag_remove(n) =>
                           IF Named(flags, n) # {} THEN Map!Remove(n) ELSE Map!RemoveAt(0)
                      /\ \A p \in Prefix : flag_remove_prefix(p) => Map!RemovePrefix(p)
                      /\ \A n, m \in Name : flag_rename(n, m) /\ n # m /\ Named(flags, m) = {} =>
                           Unique' /\ (Named(flags, n) # {} => Map!Rename(n, m))
  BY <1>1
<1>3. ASSUME NEW n \in Name, NEW a \in Addr, CmdFlag(n, a) PROVE Unique' /\ Map!Set(n, a + from)
  BY <1>2, <1>3, CmdFlagStep
<1>4. ASSUME NEW a \in Addr, flag_clear_by_addr(a) PROVE Map!RemoveAt(a)
  BY <1>2, <1>4, ClearStep DEF flag_clear_by_addr, Change
<1>5. ASSUME NEW n \in Name, flag_remove(n)
      PROVE  IF Named(flags, n) # {} THEN Map!Remove(n) ELSE Map!RemoveAt(0)
  <2>1. flags' = IF Named(flags, n) # {} THEN Without(flags, Named(flags, n)) ELSE Cleared(flags, 0)
    BY <1>2, <1>5, Zenon DEF flag_remove, Change
  <2>2. QED BY <1>2, <2>1, RemoveNameStep, ClearStep
<1>6. ASSUME NEW p \in Prefix, flag_remove_prefix(p) PROVE Map!RemovePrefix(p)
  <2>1. flags' = Cleared(Without(flags, Matching(p)), 0)
    BY <1>2, <1>6, Zenon DEF flag_remove_prefix, Change
  <2>2. QED BY <1>2, <2>1, RemovePrefixStep
<1>7. ASSUME NEW n \in Name, NEW m \in Name, flag_rename(n, m), n # m, Named(flags, m) = {}
      PROVE  Unique' /\ (Named(flags, n) # {} => Map!Rename(n, m))
  <2>1. CASE flags' = flags /\ (n = m \/ Named(flags, n) = {})
    BY <1>2, <1>7, <2>1 DEF Unique
  <2>2. CASE Named(flags, n) # {} /\ (Unique' <=> Named(flags, m) = {}) /\ (Unique' => Map!Rename(n, m))
    BY <1>7, <2>2
  <2>3. QED BY <1>2, <1>7, <2>1, <2>2, RenameStep
<1>8. QED BY <1>3, <1>4, <1>5, <1>6, <1>7

\* f, fr and f - do to the map what they are documented to do, and setting a
\* name wins over a flag of that name even when an interruption hides it.
THEOREM CommandsCorrect == Spec => CommandsRefine
<1>1. RemembersTrue => TypeOK
  BY DEF RemembersTrue, SpacesExist
<1>2. QED BY <1>1, RememberedCorrect, RefineStep, PTL DEF CommandsRefine

==============================================================================
