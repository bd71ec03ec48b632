-------------------------- MODULE BreakpointsProofs --------------------------
(***************************************************************************)
(* Proofs about Breakpoints, for every program, every table size and every *)
(* number of debug registers, where breakpoints do not interfere.          *)
(***************************************************************************)
EXTENDS Breakpoints, FiniteSetTheorems, WellFoundedInduction, TLAPS

\* The addresses breakpoints can be at.
All == BpAddr \union TempAddr

\* What is saved for a software breakpoint is its own instruction, without
\* any int3.
SavedClean == \A i \in Soft : bps[i].len = Len[bps[i].addr] /\ bps[i].data = {}

\* The table is what debug_bp_set and debug_bp_rm rely on.
TableInv ==
  /\ bps \in [Slot -> Bp]
  /\ dr \in [DR -> [addr : Addr \union {0}, type : {"r", "x"}]]
  /\ CountAgrees
  /\ Unique
  /\ MemoryMatchesTable
  /\ SavedClean
  /\ Listed \subseteq All

\* Slot i holds the temporary breakpoint: its number is below the count, it
\* can be disarmed, and the others are the user's.
Temporary(i) ==
  /\ i \in Used
  /\ i < bps_n
  /\ Refused({i}) = {}
  /\ \A j \in Used \ {i} : bps[j].addr \in want

RunInv ==
  /\ mode \in {"shell", "cont", "step", "tracing"}
  /\ then \in [op : {"done", "rm", "here"}, arg : Int]
  /\ want \subseteq BpAddr
  /\ mode = "shell" => then.op = "done"
  /\ then.op = "done" => Listed \subseteq want
  /\ then.op = "here" => Listed \subseteq want /\ then.arg \in TempAddr
  /\ then.op = "rm" => \/ then.arg = -2 /\ Listed \subseteq want
                       \/ Temporary(then.arg)

IInv ==
  /\ TableInv
  /\ RunInv
  /\ pc \in Addr
  /\ at = pc

------------------------------------------------------------------------------
(***************************************************************************)
(* Smallest and largest elements.                                          *)
(***************************************************************************)
LEMMA Smallest ==
  ASSUME NEW T, T \subseteq Nat, T # {}
  PROVE  \E x \in T : \A y \in T : x <= y
<1> DEFINE R == OpToRel(<, Nat)
<1>1. IsWellFoundedOn(R, Nat)
  BY NatLessThanWellFounded
<1>2. R = {p \in Nat \X Nat : p[1] < p[2]}
  BY Zenon DEF OpToRel
<1>3. ASSUME NEW x \in Nat, NEW y \in Nat, y < x PROVE <<y, x>> \in R
  <2>1. <<y, x>> \in {p \in Nat \X Nat : p[1] < p[2]}
    BY <1>3
  <2>2. QED BY <2>1, <1>2
<1> HIDE DEF R
<1>4. PICK x \in T : \A y \in T : ~(<<y, x>> \in R)
  BY <1>1, WFMin, Zenon
<1>5. ASSUME NEW y \in T PROVE x <= y
  <2>1. x \in Nat /\ y \in Nat
    OBVIOUS
  <2>2. ~(y < x)
    BY <1>3, <1>4, <2>1
  <2>3. QED BY <2>1, <2>2
<1>6. QED BY <1>5

\* First(T) is the smallest element of T.
LEMMA FirstFacts ==
  ASSUME NEW T, T \subseteq Nat, T # {}
  PROVE  First(T) \in T /\ \A y \in T : First(T) <= y
<1>1. \E x \in T : \A y \in T : x <= y
  BY Smallest
<1>2. QED BY <1>1 DEF First

\* Last(T) is the largest element of a bounded T.
LEMMA LastFacts ==
  ASSUME NEW n \in Nat, NEW T, T \subseteq 0 .. n - 1, T # {}
  PROVE  Last(T) \in T
<1> DEFINE U == {n - x : x \in T}
<1>1. U \subseteq Nat /\ U # {}
  OBVIOUS
<1>2. PICK u \in U : \A y \in U : u <= y
  <2> HIDE DEF U
  <2> QED BY <1>1, Smallest
<1>3. PICK x \in T : u = n - x
  OBVIOUS
<1>4. ASSUME NEW y \in T PROVE x >= y
  <2>1. n - x <= n - y
    BY <1>2, <1>3
  <2>2. QED BY <2>1
<1>5. \E i \in T : \A j \in T : i >= j
  BY <1>4
<1>6. QED BY <1>5 DEF Last

\* The slots in use are a finite set of numbers below MAX_BPS.
LEMMA UsedFacts ==
  /\ Slot \subseteq Nat
  /\ IsFiniteSet(Slot) /\ Cardinality(Slot) = MaxBps
  /\ IsFiniteSet(Used) /\ Used \subseteq Slot
  /\ Cardinality(Used) \in 0 .. MaxBps
<1>1. MaxBps \in Nat \ {0}
  BY LayoutAssumption
<1>2. Slot \subseteq Nat /\ IsFiniteSet(Slot) /\ Cardinality(Slot) = MaxBps
  BY <1>1, FS_Interval DEF Slot
<1>3. Used \subseteq Slot
  BY DEF Used
<1>4. IsFiniteSet(Used) /\ Cardinality(Used) <= MaxBps
  BY <1>2, <1>3, FS_Subset
<1>5. Cardinality(Used) \in Nat
  BY <1>4, FS_CardinalityType
<1>6. QED BY <1>1, <1>2, <1>3, <1>4, <1>5

\* The first free slot exists while the counter is below MAX_BPS, and its
\* number is at most the count: every slot before it is in use.
LEMMA FreeSlotFacts ==
  ASSUME CountAgrees, bps_n # MaxBps
  PROVE  FreeSlot \in Slot /\ FreeSlot \notin Used /\ FreeSlot <= bps_n
<1>1. Slot \ Used # {}
  <2>1. SUFFICES ASSUME Slot \ Used = {} PROVE FALSE
    OBVIOUS
  <2>2. Used = Slot
    BY <2>1, UsedFacts
  <2>3. Cardinality(Used) = MaxBps
    BY <2>2, UsedFacts
  <2>4. QED BY <2>3 DEF CountAgrees
<1>2. FreeSlot \in Slot \ Used /\ \A y \in Slot \ Used : FreeSlot <= y
  BY <1>1, UsedFacts, FirstFacts DEF FreeSlot
<1>3. 0 .. FreeSlot - 1 \subseteq Used
  BY <1>2, LayoutAssumption DEF Slot
<1>4. FreeSlot \in Nat
  BY <1>2, UsedFacts
<1>5. Cardinality(0 .. FreeSlot - 1) = FreeSlot
  BY <1>4, FS_Interval
<1>6. FreeSlot <= Cardinality(Used)
  <2>1. Cardinality(0 .. FreeSlot - 1) <= Cardinality(Used)
    BY <1>3, UsedFacts, FS_Subset
  <2>2. QED BY <2>1, <1>5
<1>7. QED BY <1>2, <1>6 DEF CountAgrees

------------------------------------------------------------------------------
(***************************************************************************)
(* Setting a breakpoint.                                                   *)
(***************************************************************************)
DrType == [DR -> [addr : Addr \union {0}, type : {"r", "x"}]]

\* arch_set_wp_hw leaves a register with the address, if it finds room.
LEMMA DrSetFacts ==
  ASSUME dr \in DrType, NEW a \in Addr, DrAvailable(dr, a, "x")
  PROVE  /\ arch_set_wp_hw(dr, a, "x") \in DrType
         /\ \E k \in DR : arch_set_wp_hw(dr, a, "x")[k].addr = a
<1>1. CASE DrSame(dr, a, "x") # {}
  <2>1. PICK k \in DR : dr[k] = [addr |-> a, type |-> "x"]
    BY <1>1 DEF DrSame
  <2>2. arch_set_wp_hw(dr, a, "x") = dr
    BY <1>1 DEF arch_set_wp_hw
  <2>3. QED BY <2>1, <2>2
<1>2. CASE DrSame(dr, a, "x") = {}
  <2>1. DrFree(dr) # {}
    BY <1>2 DEF DrAvailable
  <2>2. DrFree(dr) \subseteq 0 .. NDR - 1
    BY DEF DrFree, DR
  <2>3. Last(DrFree(dr)) \in DrFree(dr)
    BY <2>1, <2>2, LastFacts, LayoutAssumption
  <2>4. Last(DrFree(dr)) \in DR
    BY <2>2, <2>3 DEF DR
  <2>5. arch_set_wp_hw(dr, a, "x") = [dr EXCEPT ![Last(DrFree(dr))] = [addr |-> a, type |-> "x"]]
    BY <1>2, <2>1 DEF arch_set_wp_hw
  <2> DEFINE k == Last(DrFree(dr))
  <2> HIDE DEF k
  <2>6. QED BY <2>4, <2>5 DEF DrType, k
<1>3. QED BY <1>1, <1>2

\* debug_bp_set keeps the table sound; if it takes a slot, the slot holds
\* the address, is armed, has a number below the new count, and the other
\* slots are as they were.
LEMMA SetFacts ==
  ASSUME Separate, TableInv, NEW a \in All, NEW type, debug_bp_set(a, type)
  PROVE  /\ TableInv'
         /\ bps_n = MaxBps \/ a \in Listed => UNCHANGED table
         /\ bps_n # MaxBps /\ a \notin Listed =>
              /\ FreeSlot \in Used'
              /\ FreeSlot < bps_n'
              /\ bps'[FreeSlot].hw = 1 => \E k \in DR : dr'[k].addr = a
              /\ Used' = Used \union {FreeSlot}
              /\ FreeSlot \notin Used
              /\ bps'[FreeSlot].addr = a
              /\ \A j \in Used : bps'[j] = bps[j]
<1> USE DEF TableInv
<1>a. a \in Addr /\ a # 0 /\ a \in Nat
  BY LayoutAssumption DEF All
<1>1. CASE bps_n = MaxBps \/ a \in Listed
  <2>1. UNCHANGED table
    BY <1>1 DEF debug_bp_set
  <2>2. TableInv'
    BY <2>1 DEF table, CountAgrees, Unique, MemoryMatchesTable, SavedClean, Listed, Used, Soft
  <2>3. QED BY <1>1, <2>1, <2>2
<1>2. CASE bps_n # MaxBps /\ a \notin Listed
  <2> DEFINE f == FreeSlot
  <2>1. f \in Slot /\ f \notin Used /\ f <= bps_n /\ f \in Nat
    BY <1>2, FreeSlotFacts, UsedFacts
  <2>2. bps_n' = bps_n + 1 /\ bps_n \in Nat
    BY <1>2, UsedFacts DEF debug_bp_set, CountAgrees
  \* What the new table looks like, however the breakpoint is armed.
  <2>3. /\ bps' \in [Slot -> Bp] /\ dr' \in DrType
        /\ bps'[f].addr = a
        /\ \A j \in Slot \ {f} : bps'[j] = bps[j]
        /\ \/ bps'[f].hw = 1 /\ cc' = cc /\ \E k \in DR : dr'[k].addr = a
           \/ /\ bps'[f].hw = 0 /\ cc' = cc \union {a}
              /\ bps'[f].len = Len[a] /\ bps'[f].data = {}
    <3>1. CASE type = "hard" /\ DrAvailable(dr, a, "x")
      <4>1. /\ dr' = arch_set_wp_hw(dr, a, "x")
            /\ bps' = [bps EXCEPT ![f] = [bps[f] EXCEPT !.addr = a, !.hw = 1, !.trace = 0]]
            /\ cc' = cc
        BY <1>2, <3>1 DEF debug_bp_set
      <4>2. dr' \in DrType /\ \E k \in DR : dr'[k].addr = a
        BY <3>1, <4>1, <1>a, DrSetFacts DEF DrType
      <4> HIDE DEF f
      <4>3. bps' \in [Slot -> Bp] /\ bps'[f].addr = a /\ bps'[f].hw = 1
        <5> DEFINE r == [bps[f] EXCEPT !.addr = a, !.hw = 1, !.trace = 0]
        <5>1. bps[f] \in Bp
          BY <2>1
        <5>2. r \in Bp /\ r.addr = a /\ r.hw = 1
          BY <5>1, <1>a DEF Bp
        <5> HIDE DEF r
        <5>3. bps' = [bps EXCEPT ![f] = r]
          BY <4>1 DEF r
        <5>4. QED BY <5>2, <5>3, <2>1
      <4>4. \A j \in Slot \ {f} : bps'[j] = bps[j]
        BY <4>1, <2>1
      <4>5. QED BY <4>1, <4>2, <4>3, <4>4
    <3>2. CASE ~(type = "hard" /\ DrAvailable(dr, a, "x"))
      <4>1. PICK l \in get_len_ins(cc, a) :
               /\ bps' = [bps EXCEPT ![f] =
                    [addr |-> a, hw |-> 0, trace |-> IF type = "trace" THEN 1 ELSE 0,
                     len |-> l, data |-> arch_set_bp_soft(cc, a, l).data]]
               /\ cc' = cc \union {a}
               /\ dr' = dr
        BY <1>2, <3>2 DEF debug_bp_set
      \* No int3 lies in the instruction: another breakpoint would.
      <4>2. cc \intersect Bytes(a, Len[a]) = {} /\ a \notin cc
        <5>1. ASSUME NEW x \in cc, x \in Bytes(a, Len[a]) \/ x = a PROVE FALSE
          <6>1. x \in Listed
            BY <5>1 DEF MemoryMatchesTable, Soft, Listed
          <6>2. x = a
            BY <6>1, <5>1 DEF Separate, All, Bytes
          <6>3. QED BY <6>1, <6>2, <1>2
        <5>2. QED BY <5>1
      <4>3. l = Len[a] /\ Len[a] \in Nat
        BY <4>1, <4>2, <1>a, LayoutAssumption DEF get_len_ins
      <4>4. arch_set_bp_soft(cc, a, l).data = {}
        BY <4>2, <4>3 DEF arch_set_bp_soft
      <4> HIDE DEF f
      <4>5. [addr |-> a, hw |-> 0, trace |-> IF type = "trace" THEN 1 ELSE 0,
             len |-> l, data |-> {}] \in Bp
        BY <4>3, <1>a DEF Bp
      <4>6. /\ bps' \in [Slot -> Bp] /\ bps'[f].addr = a /\ bps'[f].hw = 0
            /\ bps'[f].len = Len[a] /\ bps'[f].data = {}
        BY <4>1, <4>3, <4>4, <4>5, <2>1
      <4>7. \A j \in Slot \ {f} : bps'[j] = bps[j]
        BY <4>1, <2>1
      <4>8. QED BY <4>1, <4>6, <4>7 DEF DrType
    <3>3. QED BY <3>1, <3>2
  <2>z. FreeSlot = f
    OBVIOUS
  <2> HIDE DEF f
  <2>4. Used' = Used \union {f}
    BY <2>1, <2>3, <1>a DEF Used
  <2>5. CountAgrees'
    <3>1. Cardinality(Used \union {f}) = Cardinality(Used) + 1
      BY <2>1, UsedFacts, FS_AddElement
    <3>2. QED BY <3>1, <2>2, <2>4 DEF CountAgrees
  <2>6. \A j \in Used : j # f /\ bps'[j] = bps[j]
    BY <2>1, <2>3 DEF Used
  <2>7. \A j \in Used : bps[j].addr # a
    BY <1>2 DEF Listed
  <2>8. Unique'
    BY <2>3, <2>4, <2>6, <2>7 DEF Unique
  <2>9. Listed' \subseteq All
    BY <2>3, <2>4, <2>6 DEF Listed
  <2>10. Soft' = IF bps'[f].hw = 0 THEN Soft \union {f} ELSE Soft
    BY <2>4, <2>6 DEF Soft
  <2>11. MemoryMatchesTable' /\ SavedClean'
    <3>0. Soft \subseteq Used
      BY DEF Soft
    <3>1. CASE bps'[f].hw = 1
      <4>1. Soft' = Soft /\ cc' = cc
        BY <3>1, <2>10, <2>3
      <4>2. QED BY <4>1, <3>0, <2>6 DEF MemoryMatchesTable, SavedClean
    <3>2. CASE bps'[f].hw = 0
      <4>1. Soft' = Soft \union {f} /\ cc' = cc \union {a} /\ bps'[f].len = Len[a] /\ bps'[f].data = {}
        BY <3>2, <2>10, <2>3
      <4>2. QED BY <4>1, <3>0, <2>6, <2>3 DEF MemoryMatchesTable, SavedClean
    <3>3. QED BY <3>1, <3>2, <2>3
  <2>12. bps'[f].hw = 1 => \E k \in DR : dr'[k].addr = a
    BY <2>3
  <2>13. TableInv'
    BY <2>3, <2>5, <2>8, <2>9, <2>11 DEF DrType
  <2>14. f < bps_n'
    BY <2>1, <2>2
  <2>15. QED BY <1>2, <2>1, <2>3, <2>4, <2>6, <2>12, <2>13, <2>14, <2>z
<1>3. QED BY <1>1, <1>2

------------------------------------------------------------------------------
(***************************************************************************)
(* Removing breakpoints.                                                   *)
(***************************************************************************)
\* Dropping slots that are in use keeps the table sound: the bytes written
\* back cover no other breakpoint.
LEMMA DropFacts ==
  ASSUME Separate, TableInv, NEW R, R \subseteq Used, Drop(R)
  PROVE  /\ TableInv'
         /\ Used' = Used \ R
         /\ \A j \in Used \ R : bps'[j] = bps[j]
<1> USE DEF TableInv
<1>1. R \subseteq Slot /\ R \intersect Used = R
  BY DEF Used
<1>2. /\ bps' = [i \in Slot |-> IF i \in R THEN [bps[i] EXCEPT !.addr = 0] ELSE bps[i]]
      /\ bps_n' = bps_n - Cardinality(R)
      /\ cc' = MemWithout(cc, R)
  BY <1>1 DEF Drop
<1>3. \A i \in Slot : bps[i] \in Bp /\ [bps[i] EXCEPT !.addr = 0] \in Bp /\ [bps[i] EXCEPT !.addr = 0].addr = 0
  BY DEF Bp
<1>4. bps' \in [Slot -> Bp]
  BY <1>2, <1>3
<1>5. \A j \in Slot : bps'[j].addr = IF j \in R THEN 0 ELSE bps[j].addr
  BY <1>2, <1>3
<1>6. Used' = Used \ R
  BY <1>5 DEF Used
<1>7. \A j \in Slot \ R : bps'[j] = bps[j]
  BY <1>2
<1>8. CountAgrees'
  <2>1. IsFiniteSet(R)
    BY UsedFacts, FS_Subset
  <2>2. Cardinality(Used \ R) = Cardinality(Used) - Cardinality(R)
    <3>1. Cardinality(Used \ R) = Cardinality(Used) - Cardinality(Used \intersect R)
      BY UsedFacts, FS_Difference
    <3>2. Used \intersect R = R
      OBVIOUS
    <3>3. QED BY <3>1, <3>2
  <2>3. QED BY <2>2, <1>2, <1>6 DEF CountAgrees
<1>9. dr' \in DrType
  <2>1. dr' = DrWithout(dr, {bps[i].addr : i \in {j \in R : bps[j].hw = 1}})
    BY DEF Drop
  <2>2. \A k \in DR : /\ dr[k] \in [addr : Addr \union {0}, type : {"r", "x"}]
                      /\ [dr[k] EXCEPT !.addr = 0] \in [addr : Addr \union {0}, type : {"r", "x"}]
    OBVIOUS
  <2>3. QED BY <2>1, <2>2 DEF DrWithout, DrType
<1>10. Unique' /\ Listed' \subseteq All
  <2>1. \A j \in Used' : j \in Used /\ bps'[j] = bps[j]
    BY <1>6, <1>7 DEF Used
  <2>2. QED BY <2>1 DEF Unique, Listed
<1>11. Soft' = Soft \ R /\ SavedClean'
  <2>1. Soft' = Soft \ R
    BY <1>6, <1>7 DEF Soft, Used
  <2>2. \A j \in Soft \ R : bps'[j] = bps[j]
    BY <1>7 DEF Soft, Used
  <2>3. QED BY <2>1, <2>2 DEF SavedClean
<1>12. MemoryMatchesTable'
  <2> DEFINE cover(x) == {i \in R : bps[i].hw = 0 /\ x \in Bytes(bps[i].addr, bps[i].len)}
  <2>1. cc' = {x \in Addr : IF cover(x) = {} THEN x \in cc ELSE x \in bps[Last(cover(x))].data}
    BY <1>2 DEF MemWithout
  <2>2. \A x : cover(x) # {} => bps[Last(cover(x))].data = {}
    <3> SUFFICES ASSUME NEW x, cover(x) # {} PROVE bps[Last(cover(x))].data = {}
      OBVIOUS
    <3>1. cover(x) \subseteq Soft
      BY DEF Soft
    <3>2. cover(x) \subseteq 0 .. MaxBps - 1
      BY <1>1 DEF Slot
    <3> HIDE DEF cover
    <3>3. Last(cover(x)) \in cover(x)
      BY <3>2, LastFacts, LayoutAssumption
    <3>4. QED BY <3>1, <3>3 DEF SavedClean
  <2>3. \A x \in cc : cover(x) # {} <=> \E i \in Soft \intersect R : x = bps[i].addr
    <3> SUFFICES ASSUME NEW x \in cc
                 PROVE  cover(x) # {} <=> \E i \in Soft \intersect R : x = bps[i].addr
      OBVIOUS
    <3>1. x \in Listed
      BY DEF MemoryMatchesTable, Soft, Listed
    <3>2. ASSUME NEW i \in cover(x) PROVE i \in Soft \intersect R /\ x = bps[i].addr
      <4>1. i \in Soft \intersect R /\ bps[i].len = Len[bps[i].addr] /\ bps[i].addr \in Listed
        BY DEF Soft, SavedClean, Listed
      <4>2. x \in Bytes(bps[i].addr, Len[bps[i].addr])
        BY <4>1
      <4>3. x \in All /\ bps[i].addr \in All
        BY <3>1, <4>1
      <4>4. QED BY <4>1, <4>2, <4>3 DEF Separate, All, Bytes
    <3>3. ASSUME NEW i \in Soft \intersect R, x = bps[i].addr PROVE i \in cover(x)
      <4>1. bps[i].hw = 0 /\ bps[i].len = Len[bps[i].addr] /\ bps[i].addr \in Listed
        BY DEF Soft, SavedClean, Listed
      <4>2. x \in Nat /\ Len[x] \in Nat \ {0}
        BY <3>1, LayoutAssumption DEF All
      <4>3. QED BY <4>1, <4>2, <3>3 DEF Bytes
    <3> HIDE DEF cover
    <3>4. QED BY <3>2, <3>3
  <2> HIDE DEF cover
  <2>4. cc' = {x \in cc : ~ \E i \in Soft \intersect R : x = bps[i].addr}
    <3>1. cc \subseteq Addr
      <4>1. cc \subseteq Listed
        BY DEF MemoryMatchesTable, Soft, Listed
      <4>2. All \subseteq Addr
        BY LayoutAssumption DEF All
      <4>3. QED BY <4>1, <4>2
    <3>2. QED BY <2>1, <2>2, <2>3, <3>1
  <2>5. cc' = {bps[i].addr : i \in Soft \ R}
    <3>1. \A i, j \in Soft : bps[i].addr = bps[j].addr => i = j
      BY DEF Unique, Soft
    <3>2. QED BY <2>4, <3>1 DEF MemoryMatchesTable
  <2>6. \A i \in Soft \ R : bps'[i].addr = bps[i].addr
    BY <1>7 DEF Soft, Used
  <2>7. QED BY <2>5, <2>6, <1>11 DEF MemoryMatchesTable
<1>13. QED BY <1>4, <1>6, <1>7, <1>8, <1>9, <1>10, <1>11, <1>12 DEF DrType, Used

\* debug_bp_rm at an address that is not 0: either nothing changes, or the
\* breakpoint with that address goes and the others stay.
LEMMA RmFacts ==
  ASSUME Separate, TableInv, NEW a, a # 0, debug_bp_rm(a)
  PROVE  /\ TableInv'
         /\ \/ UNCHANGED table /\ (a \in Listed => \E i \in Used : bps[i].addr = a /\ Refused({i}) # {})
            \/ \E i \in Used : /\ bps[i].addr = a /\ Used' = Used \ {i}
                               /\ \A j \in Used \ {i} : bps'[j] = bps[j]
<1> DEFINE i == First(debug_bp_get(a))
<1>1. CASE debug_bp_get(a) = {}
  <2>1. UNCHANGED table
    BY <1>1 DEF debug_bp_rm
  <2>2. a \notin Listed
    BY <1>1 DEF debug_bp_get, Listed, Used
  <2>3. TableInv'
    BY <2>1 DEF TableInv, table, CountAgrees, Unique, MemoryMatchesTable, SavedClean, Listed, Used, Soft
  <2>4. QED BY <2>1, <2>2, <2>3
<1>2. CASE debug_bp_get(a) # {}
  <2>1. i \in debug_bp_get(a)
    BY <1>2, UsedFacts, FirstFacts DEF debug_bp_get
  <2>2. i \in Used /\ bps[i].addr = a
    BY <2>1 DEF debug_bp_get, Used
  <2>3. CASE Refused({i}) # {}
    <3>1. UNCHANGED table
      BY <2>3 DEF debug_bp_rm
    <3>2. TableInv'
      BY <3>1 DEF TableInv, table, CountAgrees, Unique, MemoryMatchesTable, SavedClean, Listed, Used, Soft
    <3> HIDE DEF i
    <3>3. QED BY <2>2, <2>3, <3>1, <3>2
  <2>4. CASE Refused({i}) = {}
    <3>1. Drop({i})
      BY <2>4, <1>2 DEF debug_bp_rm
    <3> HIDE DEF i
    <3>2. TableInv' /\ Used' = Used \ {i} /\ \A j \in Used \ {i} : bps'[j] = bps[j]
      BY <2>2, <3>1, DropFacts
    <3>3. QED BY <2>2, <3>2
  <2>5. QED BY <2>3, <2>4
<1>3. QED BY <1>1, <1>2

------------------------------------------------------------------------------
\* debug_bp_reload_all arms every breakpoint of the table in the new process.
LEMMA ReloadFacts ==
  ASSUME Separate, TableInv, debug_bp_reload_all
  PROVE  /\ TableInv'
         /\ Used' = Used
         /\ \A j \in Slot : bps'[j].addr = bps[j].addr
<1> USE DEF TableInv
<1>1. Reloaded = Used
  <2>1. Reloaded \subseteq Used /\ Cardinality(Reloaded) = Cardinality(Used)
    BY DEF Reloaded, debug_bp_reload_all, CountAgrees
  <2>2. QED BY <2>1, UsedFacts, FS_Subset
<1>2. ReloadedSoft = Soft /\ ReloadedHard = Hard
  BY <1>1 DEF ReloadedSoft, ReloadedHard, Soft, Hard
<1>3a. PICK l \in [ReloadedSoft -> UNION {1 .. Len[bps[i].addr] : i \in ReloadedSoft}] :
        /\ \A i \in ReloadedSoft : l[i] \in get_len_ins(Int3Before(i), bps[i].addr)
        /\ bps' = [i \in Slot |->
             IF i \in ReloadedSoft
             THEN [bps[i] EXCEPT !.len = l[i],
                                 !.data = arch_set_bp_soft(Int3Before(i), bps[i].addr, l[i]).data]
             ELSE bps[i]]
  BY DEF debug_bp_reload_all
<1>3. /\ \A i \in Soft : l[i] \in get_len_ins(Int3Before(i), bps[i].addr)
      /\ bps' = [i \in Slot |->
           IF i \in Soft
           THEN [bps[i] EXCEPT !.len = l[i],
                               !.data = arch_set_bp_soft(Int3Before(i), bps[i].addr, l[i]).data]
           ELSE bps[i]]
  BY <1>3a, <1>2
<1>4. ASSUME NEW i \in Soft
      PROVE  /\ bps[i].addr \in Listed /\ Len[bps[i].addr] \in Nat
             /\ Int3Before(i) \intersect Bytes(bps[i].addr, Len[bps[i].addr]) = {}
             /\ bps[i].addr \notin Int3Before(i)
  <2>1. bps[i].addr \in Listed /\ bps[i].addr \in Addr /\ Len[bps[i].addr] \in Nat
    <3>1. bps[i].addr \in Listed
      BY DEF Soft, Listed
    <3>2. bps[i].addr \in Addr
      BY <3>1, LayoutAssumption DEF All
    <3>3. QED BY <3>1, <3>2, LayoutAssumption
  <2>2. ASSUME NEW x \in Int3Before(i), x \in Bytes(bps[i].addr, Len[bps[i].addr]) \/ x = bps[i].addr
        PROVE FALSE
    <3>1. PICK j \in Soft : j < i /\ x = bps[j].addr
      BY <1>2 DEF Int3Before
    <3>2. x \in All /\ bps[i].addr \in All
      BY <3>1, <2>1 DEF Listed, Soft
    <3>3. x = bps[i].addr
      BY <2>2, <3>2 DEF Separate, All, Bytes
    <3>4. i = j
      BY <3>1, <3>3 DEF Unique, Soft
    <3>5. i \in Nat
      BY UsedFacts DEF Soft
    <3>6. QED BY <3>1, <3>4, <3>5
  <2>3. QED BY <2>1, <2>2
<1>5. ASSUME NEW i \in Soft
      PROVE  l[i] = Len[bps[i].addr] /\ arch_set_bp_soft(Int3Before(i), bps[i].addr, l[i]).data = {}
  <2>1. l[i] = Len[bps[i].addr]
    BY <1>3, <1>4 DEF get_len_ins
  <2>2. QED BY <2>1, <1>4 DEF arch_set_bp_soft
<1>6. bps' = [i \in Slot |-> IF i \in Soft THEN [bps[i] EXCEPT !.len = Len[bps[i].addr], !.data = {}]
                             ELSE bps[i]]
  BY <1>3, <1>5
<1>7. \A i \in Slot : i \in Soft =>
        LET r == [bps[i] EXCEPT !.len = Len[bps[i].addr], !.data = {}]
        IN  r \in Bp /\ r.addr = bps[i].addr /\ r.hw = bps[i].hw
            /\ r.len = Len[bps[i].addr] /\ r.data = {}
  <2> SUFFICES ASSUME NEW i \in Slot, i \in Soft
               PROVE  LET r == [bps[i] EXCEPT !.len = Len[bps[i].addr], !.data = {}]
                      IN  r \in Bp /\ r.addr = bps[i].addr /\ r.hw = bps[i].hw
                          /\ r.len = Len[bps[i].addr] /\ r.data = {}
    OBVIOUS
  <2> DEFINE b == bps[i]
             n == Len[bps[i].addr]
  <2>1. b \in Bp /\ n \in Nat
    BY <1>4
  <2> HIDE DEF b, n
  <2>2. LET r == [b EXCEPT !.len = n, !.data = {}]
        IN  r \in Bp /\ r.addr = b.addr /\ r.hw = b.hw /\ r.len = n /\ r.data = {}
    BY <2>1 DEF Bp
  <2>3. QED BY <2>2 DEF b, n
<1>8. /\ bps' \in [Slot -> Bp]
      /\ \A i \in Slot : bps'[i].addr = bps[i].addr /\ bps'[i].hw = bps[i].hw
      /\ \A i \in Soft : bps'[i].len = Len[bps[i].addr] /\ bps'[i].data = {}
  <2>1. Soft \subseteq Slot
    BY DEF Soft, Used
  <2>2. QED BY <1>6, <1>7, <2>1
<1>9. Used' = Used /\ Soft' = Soft
  BY <1>8 DEF Used, Soft
<1>10. CountAgrees' /\ Unique' /\ Listed' \subseteq All /\ SavedClean'
  <2>1. Soft \subseteq Slot /\ Used \subseteq Slot
    BY DEF Soft, Used
  <2>2. CountAgrees'
    BY <1>9 DEF CountAgrees, debug_bp_reload_all
  <2>3. Unique' /\ Listed' \subseteq All
    BY <1>8, <1>9, <2>1 DEF Unique, Listed
  <2>4. SavedClean'
    BY <1>8, <1>9, <2>1 DEF SavedClean
  <2>5. QED BY <2>2, <2>3, <2>4
<1>11. MemoryMatchesTable'
  <2>1. cc' = {bps[i].addr : i \in Soft}
    BY <1>2 DEF debug_bp_reload_all
  <2>2. Soft \subseteq Slot
    BY DEF Soft, Used
  <2>3. QED BY <2>1, <2>2, <1>8, <1>9 DEF MemoryMatchesTable
<1>12. dr' \in DrType
  <2> DEFINE S(k) == {i \in ReloadedHard : Cardinality({j \in ReloadedHard : j <= i}) = NDR - k}
  <2>1. dr' = [k \in DR |-> [addr |-> IF S(k) = {} THEN 0 ELSE bps[First(S(k))].addr, type |-> "x"]]
    BY DEF debug_bp_reload_all
  <2>2. ASSUME NEW k \in DR PROVE (IF S(k) = {} THEN 0 ELSE bps[First(S(k))].addr) \in Addr \union {0}
    <3>1. S(k) \subseteq Slot
      BY <1>2 DEF Hard, Used
    <3> HIDE DEF S
    <3>2. S(k) # {} => First(S(k)) \in Slot
      BY <3>1, UsedFacts, FirstFacts
    <3>3. \A i \in Slot : bps[i].addr \in Addr \union {0}
      BY DEF Bp
    <3>4. QED BY <3>2, <3>3
  <2> HIDE DEF S
  <2>3. QED BY <2>1, <2>2 DEF DrType
<1>13. QED BY <1>8, <1>9, <1>10, <1>11, <1>12 DEF DrType

------------------------------------------------------------------------------
(***************************************************************************)
(* The inductive invariant.                                                *)
(***************************************************************************)
LEMMA InitInv == Init => IInv
<1> SUFFICES ASSUME Init PROVE IInv
  OBVIOUS
<1> USE DEF Init
<1>1. bps \in [Slot -> Bp]
  BY DEF Bp
<1>2. Used = {} /\ Soft = {} /\ Listed = {}
  BY DEF Used, Soft, Listed
<1>3. CountAgrees
  BY <1>2, FS_EmptySet DEF CountAgrees
<1>4. TableInv
  BY <1>1, <1>2, <1>3 DEF TableInv, Unique, MemoryMatchesTable, SavedClean
<1>5. RunInv
  BY <1>2 DEF RunInv, Done
<1>6. QED BY <1>4, <1>5, LayoutAssumption DEF IInv

\* A trap leaves the program counter at the instruction the program has
\* reached.
LEMMA TrapPc ==
  ASSUME Separate, TableInv
  PROVE  /\ \A x \in Addr : \A s \in Succ[x] : debug_bp_restore_after(s) = s
         /\ \A p \in cc : debug_bp_restore_after(p + 1) = p
<1>1. \A b \in Addr : b # 0 /\ b \in Nat
  BY LayoutAssumption
<1>2. ASSUME NEW q, q # 0, debug_bp_get(q) # {} PROVE q \in All
  BY <1>2 DEF debug_bp_get, TableInv, Listed, Used
<1>3. ASSUME NEW x \in Addr, NEW s \in Succ[x] PROVE debug_bp_restore_after(s) = s
  <2>1. s \in Nat \ {0, 1}
    BY LayoutAssumption
  <2>2. s - 1 # 0 /\ (s - 1) + 1 = s
    BY <2>1
  <2>3. s - 1 \notin All
    BY <2>2 DEF Separate, All
  <2>4. debug_bp_get(s - 1) = {}
    BY <1>2, <2>2, <2>3
  <2>5. QED BY <2>4 DEF debug_bp_restore_after
<1>4. ASSUME NEW p \in cc PROVE debug_bp_restore_after(p + 1) = p
  <2>1. p \in Listed
    BY DEF TableInv, MemoryMatchesTable, Soft, Listed
  <2>2. p \in All /\ p \in Nat
    BY <2>1, LayoutAssumption DEF TableInv, All
  <2>3. p + 1 \notin All /\ p + 1 # 0 /\ (p + 1) - 1 = p
    BY <2>2 DEF Separate, All
  <2>4. debug_bp_get(p + 1) = {}
    BY <1>2, <2>3
  <2>5. debug_bp_get(p) # {}
    BY <2>1 DEF debug_bp_get, Listed, Used
  <2>6. QED BY <2>3, <2>4, <2>5 DEF debug_bp_restore_after
<1>5. QED BY <1>3, <1>4

\* The table parts of the invariant do not change with the other variables.
LEMMA TableUnchanged ==
  ASSUME UNCHANGED table
  PROVE  /\ TableInv => TableInv'
         /\ Used' = Used /\ Listed' = Listed
         /\ \A i \in Int : Temporary(i) /\ UNCHANGED want => Temporary(i)'
  BY DEF table, TableInv, CountAgrees, Unique, MemoryMatchesTable, SavedClean, Listed, Used, Soft,
         Temporary, Refused

\* Setting a temporary breakpoint: its slot is remembered in then, unless
\* the table is full.
LEMMA TemporarySet ==
  ASSUME Separate, IInv, NEW a \in TempAddr, NEW type, Listed \subseteq want,
         debug_bp_set(a, type), UNCHANGED want,
         mode' \in {"cont"}, then' = [op |-> "rm", arg |-> debug_bp_set_ret(a)]
  PROVE  TableInv' /\ RunInv'
<1>1. a \in All /\ TableInv
  BY DEF All, IInv
<1>2. a \notin Listed
  BY DEF Separate, IInv, RunInv
<1>3. TableInv'
  BY <1>1, SetFacts
<1>4. CASE bps_n = MaxBps
  <2>1. debug_bp_set_ret(a) = -2
    BY <1>4 DEF debug_bp_set_ret
  <2>2. Listed' = Listed
    BY <1>1, <1>4, SetFacts, TableUnchanged
  <2>3. QED BY <1>3, <2>1, <2>2 DEF RunInv, IInv
<1>5. CASE bps_n # MaxBps
  <2>0. PICK f : f = FreeSlot
    OBVIOUS
  <2>1. debug_bp_set_ret(a) = f
    BY <1>2, <1>5, <2>0 DEF debug_bp_set_ret
  <2>2. /\ f \in Used' /\ f < bps_n' /\ Used' = Used \union {f} /\ f \notin Used
        /\ bps'[f].addr = a
        /\ bps'[f].hw = 1 => \E k \in DR : dr'[k].addr = a
        /\ \A j \in Used : bps'[j] = bps[j]
    BY <1>1, <1>2, <1>5, <2>0, SetFacts
  <2>3. f \in Int
    <3>1. CountAgrees
      BY <1>1 DEF TableInv
    <3>2. FreeSlot \in Slot
      BY <3>1, <1>5, FreeSlotFacts
    <3>3. QED BY <3>2, <2>0, UsedFacts
  <2>4. \A j \in Used' \ {f} : bps'[j].addr \in want
    BY <2>2 DEF Listed
  <2>5. Temporary(f)'
    <3>1. ~(bps'[f].hw = 1 /\ \A k \in DR : dr'[k].addr # bps'[f].addr)
      BY <2>2
    <3>2. {i \in {f} : bps'[i].hw = 1 /\ \A k \in DR : dr'[k].addr # bps'[i].addr} = {}
      BY <3>1
    <3>3. QED BY <2>2, <2>4, <3>2 DEF Temporary, Refused
  <2>6. then' = [op |-> "rm", arg |-> f]
    BY <2>1
  <2>7. QED BY <1>3, <2>3, <2>5, <2>6 DEF RunInv, IInv
<1>6. QED BY <1>4, <1>5

\* The end of a command removes its temporary breakpoint.
LEMMA ReturnFacts ==
  ASSUME Separate, IInv, Return, UNCHANGED want
  PROVE  TableInv' /\ RunInv'
<1> USE DEF IInv
<1>1. CASE then.op = "done" /\ mode' = "shell" /\ UNCHANGED <<table, then>>
  BY <1>1, TableUnchanged DEF RunInv
<1>2. CASE then.op = "rm" /\ mode' = "shell" /\ then' = Done /\ debug_bp_rm_num(then.arg)
  <2>1. TableInv' /\ Listed' \subseteq want
    <3>1. CASE then.arg = -2 /\ Listed \subseteq want
      <4>1. UNCHANGED table
        BY <1>2, <3>1 DEF debug_bp_rm_num
      <4>2. QED BY <3>1, <4>1, TableUnchanged
    <3>2. CASE Temporary(then.arg)
      <4> DEFINE n == then.arg
      <4>1. n \in Used /\ n < bps_n /\ Refused({n}) = {} /\ \A j \in Used \ {n} : bps[j].addr \in want
        BY <3>2 DEF Temporary
      <4>2. n \in Nat /\ bps[n].addr # 0
        BY <4>1, UsedFacts DEF Used
      <4>3. debug_bp_rm(bps[n].addr)
        BY <1>2, <4>1, <4>2 DEF debug_bp_rm_num
      <4> HIDE DEF n
      <4>4. \A i \in Used : bps[i].addr = bps[n].addr => i = n
        BY <4>1 DEF TableInv, Unique
      <4>5. bps[n].addr \in Listed
        BY <4>1 DEF Listed
      <4>6. TableInv' /\ Used' = Used \ {n} /\ \A j \in Used \ {n} : bps'[j] = bps[j]
        BY <4>1, <4>2, <4>3, <4>4, <4>5, RmFacts
      <4>7. QED BY <4>1, <4>6 DEF Listed
    <3>3. QED BY <1>2, <3>1, <3>2 DEF RunInv
  <2>2. QED BY <1>2, <2>1 DEF RunInv, Done
<1>3. CASE /\ then.op = "here" /\ mode' = "cont"
           /\ then' = [op |-> "rm", arg |-> debug_bp_set_ret(then.arg)]
           /\ debug_bp_set(then.arg, "soft")
  <2>1. then.arg \in TempAddr /\ Listed \subseteq want
    BY <1>3 DEF RunInv
  <2>2. QED BY <1>3, <2>1, TemporarySet
<1>4. QED BY <1>1, <1>2, <1>3 DEF Return

\* Every step keeps the invariant.
LEMMA NextInv ==
  ASSUME Separate, IInv, [Next]_vars
  PROVE  IInv'
<1> USE DEF IInv
<1>1. CASE UNCHANGED vars
  BY <1>1, TableUnchanged DEF vars, table, RunInv
<1>2. CASE Execute
  <2>1. PICK s \in Succ[pc] :
          /\ at' = s
          /\ IF mode = "cont" /\ DrSame(dr, s, "x") = {}
             THEN Goto(s) /\ UNCHANGED <<table, mode, then>>
             ELSE Trap(s)
    BY <1>2 DEF Execute
  <2>2. s \in Addr /\ want' = want
    BY <1>2, LayoutAssumption DEF Execute
  <2>3. CASE Goto(s) /\ UNCHANGED <<table, mode, then>>
    <3>1. pc' = s /\ UNCHANGED <<table, mode, then>>
      BY <2>3 DEF Goto
    <3>2. QED BY <2>1, <2>2, <3>1, TableUnchanged DEF RunInv
  <2>4. CASE Trap(s)
    <3>1. pc' = s
      BY <2>4, TrapPc DEF Trap, Goto
    <3>2. CASE mode' = "tracing" /\ UNCHANGED <<table, then>>
      <4>1. mode # "shell"
        BY <1>2 DEF Execute
      <4>2. QED BY <2>1, <2>2, <3>1, <3>2, <4>1, TableUnchanged DEF RunInv
    <3>3. CASE Return
      BY <2>1, <2>2, <3>1, <3>3, ReturnFacts
    <3>4. QED BY <2>4, <3>2, <3>3 DEF Trap
  <2>5. QED BY <2>1, <2>3, <2>4
<1>3. CASE Int3
  <2>1. pc \in cc /\ Trap(pc + 1) /\ UNCHANGED <<want, at>> /\ mode # "shell"
    BY <1>3 DEF Int3
  <2>2. pc' = pc
    BY <2>1, TrapPc DEF Trap, Goto
  <2>4. CASE mode' = "tracing" /\ UNCHANGED <<table, then>>
    BY <2>1, <2>2, <2>4, TableUnchanged DEF RunInv
  <2>5. CASE Return
    BY <2>1, <2>2, <2>5, ReturnFacts
  <2>6. QED BY <2>1, <2>4, <2>5 DEF Trap
<1>4. CASE Signal
  BY <1>4, ReturnFacts DEF Signal
<1>5. ASSUME NEW a \in BpAddr, NEW type \in Types, SetCommand(a, type) PROVE IInv'
  <2>1. debug_bp_set(a, type) /\ a \in All /\ then.op = "done" /\ Listed \subseteq want
    BY <1>5 DEF SetCommand, Prompt, RunInv, All
  <2>2. UNCHANGED <<pc, mode, then, at>>
    BY <1>5 DEF SetCommand, Stay
  <2>3. TableInv'
    BY <2>1, SetFacts
  <2>4. want \subseteq want' /\ want' \subseteq BpAddr
    BY <1>5 DEF SetCommand, RunInv
  <2>5. Listed' \subseteq want'
    <3>1. CASE bps_n = MaxBps \/ a \in Listed
      BY <2>1, <2>4, <3>1, SetFacts, TableUnchanged
    <3>2. CASE bps_n # MaxBps /\ a \notin Listed
      <4>1. /\ Used' = Used \union {FreeSlot} /\ bps'[FreeSlot].addr = a
            /\ \A j \in Used : bps'[j] = bps[j]
        BY <2>1, <3>2, SetFacts
      <4>2. want' = want \union {a}
        BY <1>5, <3>2 DEF SetCommand
      <4>3. QED BY <2>1, <4>1, <4>2 DEF Listed
    <3>3. QED BY <3>1, <3>2
  <2>6. QED BY <2>1, <2>2, <2>3, <2>4, <2>5 DEF RunInv
<1>6. ASSUME NEW a \in RmAddr, RemoveCommand(a) PROVE IInv'
  <2>1. debug_bp_rm(a) /\ a # 0 /\ then.op = "done" /\ Listed \subseteq want
    BY <1>6 DEF RemoveCommand, Prompt, RunInv, Separate
  <2>2. UNCHANGED <<pc, mode, then, at>>
    BY <1>6 DEF RemoveCommand, Stay
  <2>3. TableInv'
    BY <2>1, RmFacts
  <2>4. want \ {a} \subseteq want' /\ want' \subseteq BpAddr
    BY <1>6 DEF RemoveCommand, RunInv
  <2>5. Listed' \subseteq want'
    <3>1. CASE UNCHANGED table
      <4>1. want' = want
        BY <1>6, <3>1 DEF RemoveCommand
      <4>2. QED BY <2>1, <3>1, <4>1, TableUnchanged
    <3>2. CASE \E i \in Used : /\ bps[i].addr = a /\ Used' = Used \ {i}
                               /\ \A j \in Used \ {i} : bps'[j] = bps[j]
      <4>1. PICK i \in Used : /\ bps[i].addr = a /\ Used' = Used \ {i}
                              /\ \A j \in Used \ {i} : bps'[j] = bps[j]
        BY <3>2
      <4>2. \A j \in Used \ {i} : bps[j].addr # a
        BY <4>1 DEF TableInv, Unique
      <4>3. QED BY <2>1, <2>4, <4>1, <4>2 DEF Listed
    <3>3. QED BY <2>1, <3>1, <3>2, RmFacts
  <2>6. QED BY <2>1, <2>2, <2>3, <2>4, <2>5 DEF RunInv
<1>7. CASE RemoveAllCommand
  <2>1. PICK R \in SUBSET Used : Drop(R)
    BY <1>7 DEF RemoveAllCommand, debug_bp_rms
  <2>2. TableInv' /\ Used' = Used \ R /\ \A j \in Used \ R : bps'[j] = bps[j]
    BY <2>1, DropFacts
  <2>3. Listed \subseteq want /\ then.op = "done"
    BY <1>7 DEF RemoveAllCommand, Prompt, RunInv
  <2>4. /\ UNCHANGED <<pc, mode, then, at>>
        /\ want' = want \intersect {bps'[i].addr : i \in Slot}
    BY <1>7 DEF RemoveAllCommand, Stay
  <2>5. Used' \subseteq Slot /\ Used \subseteq Slot
    BY <2>2 DEF Used
  <2>6. Listed' \subseteq want'
    BY <2>2, <2>3, <2>4, <2>5 DEF Listed
  <2>7. QED BY <2>2, <2>3, <2>4, <2>6 DEF RunInv
<1>8. ASSUME NEW k \in -1 .. NDR - 1, NEW a \in DrAddr, NEW type \in {"r", "x"},
             DrCommand(k, a, type) PROVE IInv'
  <2>1. dr' \in DrType
    <3>1. a \in Addr \union {0} /\ NDR \in Nat /\ dr \in DrType
      BY LayoutAssumption DEF TableInv, DrType
    <3>2. CASE k # -1
      <4>1. k \in DR
        BY <3>1, <3>2 DEF DR
      <4>2. dr' = [dr EXCEPT ![k] = [addr |-> a, type |-> type]]
        BY <1>8, <3>2 DEF DrCommand
      <4>3. QED BY <3>1, <4>1, <4>2 DEF DrType
    <3>3. CASE k = -1
      <4>1. dr' = arch_set_wp_hw(dr, a, type)
        BY <1>8, <3>3 DEF DrCommand
      <4>2. CASE DrSame(dr, a, type) # {} \/ DrFree(dr) = {}
        BY <3>1, <4>1, <4>2 DEF arch_set_wp_hw
      <4>3. CASE DrSame(dr, a, type) = {} /\ DrFree(dr) # {}
        BY <3>1, <4>1, <4>3 DEF arch_set_wp_hw, DrType
      <4>4. QED BY <4>2, <4>3
    <3>4. QED BY <3>2, <3>3
  <2>2. UNCHANGED <<bps, bps_n, cc, want, pc, mode, then, at>> /\ then.op = "done" /\ Listed \subseteq want
    BY <1>8 DEF DrCommand, Stay, Prompt, RunInv
  <2>3. TableInv'
    BY <2>1, <2>2 DEF TableInv, DrType, CountAgrees, Unique, MemoryMatchesTable, SavedClean, Listed, Used, Soft
  <2>4. QED BY <2>2, <2>3 DEF RunInv, Listed, Used
<1>9. CASE DrReset
  <2>1. dr' \in DrType
    BY <1>9 DEF DrReset, DrType
  <2>2. UNCHANGED <<bps, bps_n, cc, want, pc, mode, then, at>> /\ then.op = "done" /\ Listed \subseteq want
    BY <1>9 DEF DrReset, Stay, Prompt, RunInv
  <2>3. TableInv'
    BY <2>1, <2>2 DEF TableInv, DrType, CountAgrees, Unique, MemoryMatchesTable, SavedClean, Listed, Used, Soft
  <2>4. QED BY <2>2, <2>3 DEF RunInv, Listed, Used
<1>10. CASE Load
  <2>1. debug_bp_reload_all /\ pc' = Entry /\ at' = Entry /\ UNCHANGED <<mode, then, want>>
    BY <1>10 DEF Load
  <2>2. then.op = "done" /\ Listed \subseteq want
    BY <1>10 DEF Load, Prompt, RunInv
  <2>3. TableInv' /\ Used' = Used /\ \A j \in Slot : bps'[j].addr = bps[j].addr
    BY <2>1, ReloadFacts
  <2>4. Listed' = Listed
    BY <2>3 DEF Listed, Used
  <2>5. QED BY <2>1, <2>2, <2>3, <2>4, LayoutAssumption DEF RunInv
\* The commands that let the process run, without a temporary breakpoint.
<1>11. ASSUME NEW how \in {"cont", "step"}, Prompt, Run(how, Done), UNCHANGED table PROVE IInv'
  <2>1. /\ mode' \in {"cont", "step"} /\ then' = Done
        /\ UNCHANGED <<pc, want, at>>
    BY <1>11 DEF Run
  <2>2. Listed \subseteq want
    BY <1>11 DEF Prompt, RunInv
  <2>3. TableInv' /\ Listed' = Listed
    BY <1>11, TableUnchanged
  <2>4. RunInv'
    <3>1. then' \in [op : {"done", "rm", "here"}, arg : Int] /\ then'.op = "done"
      BY <2>1 DEF Done
    <3>2. want' \subseteq BpAddr /\ Listed' \subseteq want'
      BY <2>1, <2>2, <2>3 DEF RunInv
    <3>3. mode' \in {"shell", "cont", "step", "tracing"} /\ mode' # "shell"
      BY <2>1
    <3>4. QED BY <3>1, <3>2, <3>3 DEF RunInv
  <2>5. QED BY <2>1, <2>3, <2>4
\* And with one.
<1>12. ASSUME NEW a \in TempAddr, NEW type, Prompt, RunUntil(a, type) PROVE IInv'
  <2>1. Listed \subseteq want
    BY <1>12 DEF Prompt, RunInv
  <2>2. QED BY <1>12, <2>1, TemporarySet DEF RunUntil, Run
<1>13. CASE debug_step
  BY <1>11, <1>13 DEF debug_step
<1>14. CASE debug_cont
  BY <1>11, <1>14 DEF debug_cont
<1>15. CASE debug_stepo
  BY <1>11, <1>12, <1>15 DEF debug_stepo
<1>16. ASSUME NEW a \in TempAddr, debug_cont_until(a) PROVE IInv'
  BY <1>12, <1>16 DEF debug_cont_until
<1>17. CASE debug_contuh
  <2>1. /\ mode' = "step" /\ then' = [op |-> "here", arg |-> pc]
        /\ UNCHANGED <<pc, want, at, table>> /\ pc \in TempAddr /\ Listed \subseteq want
    BY <1>17 DEF debug_contuh, Run, Prompt, RunInv
  <2>2. then' \in [op : {"done", "rm", "here"}, arg : Int]
    BY <2>1, LayoutAssumption
  <2>3. QED BY <2>1, <2>2, TableUnchanged DEF RunInv
<1>18. QED
  BY <1>1, <1>2, <1>3, <1>4, <1>5, <1>6, <1>7, <1>8, <1>9, <1>10, <1>13, <1>14, <1>15, <1>16, <1>17
  DEF Next, Process

\* The strengthened invariant holds in every reachable state.
LEMMA Invariance == ASSUME Separate PROVE Spec => []IInv
<1>1. Init => IInv
  BY InitInv
<1>2. IInv /\ [Next]_vars => IInv'
  BY NextInv
<1>3. QED BY <1>1, <1>2, PTL DEF Spec

\* The two Boolean history variables.
Flags == ran \in BOOLEAN /\ manual \in BOOLEAN

\* They stay Boolean, which the provers have to be told.
LEMMA FlagsInvariance == Spec => []Flags
<1>1. Init => Flags
  <2>1. Init => ran = TRUE /\ manual = FALSE
    BY DEF Init
  <2>2. QED BY <2>1, Zenon DEF Flags
<1>2. Flags /\ [Next]_vars => Flags'
  <2> SUFFICES ASSUME Flags, [Next]_vars PROVE Flags'
    OBVIOUS
  <2>1. CASE Process
    <3>1. (ran' = TRUE \/ ran' = ran) /\ manual' = manual
      BY <2>1 DEF Process, Execute, Int3, Signal
    <3>2. QED BY <3>1, Zenon DEF Flags
  <2>2. CASE ~Process
    <3>1. (ran' = ran \/ ran' = TRUE \/ ran' = FALSE) /\ (manual' = manual \/ manual' = TRUE)
      BY <2>2 DEF Next, vars, SetCommand, RemoveCommand, RemoveAllCommand, DrCommand, DrReset, Load,
                  debug_step, debug_cont, debug_stepo, debug_cont_until, debug_contuh,
                  RunUntil, Run, Stay
    <3>2. QED BY <3>1, Zenon DEF Flags
  <2>3. QED BY <2>1, <2>2
<1>3. QED BY <1>1, <1>2, PTL DEF Spec

\* The table, memory and the run-control state keep their types.
THEOREM TypeCorrect == ASSUME Separate PROVE Spec => []TypeOK
<1>1. IInv /\ Flags => TypeOK
  <2> SUFFICES ASSUME IInv, Flags PROVE TypeOK
    OBVIOUS
  <2>1. bps_n \in 0 .. MaxBps
    BY UsedFacts DEF IInv, TableInv, CountAgrees
  <2>2. cc \subseteq Addr
    <3>1. cc \subseteq Listed
      BY DEF IInv, TableInv, MemoryMatchesTable, Listed, Soft
    <3>2. Listed \subseteq All
      BY DEF IInv, TableInv
    <3>3. All \subseteq Addr
      BY LayoutAssumption DEF All
    <3>4. QED BY <3>1, <3>2, <3>3
  <2>3. want \subseteq Addr
    BY LayoutAssumption DEF IInv, RunInv
  <2>4. /\ bps \in [Slot -> Bp] /\ pc \in Addr /\ at \in Addr
        /\ dr \in [DR -> [addr : Addr \union {0}, type : {"r", "x"}]]
        /\ mode \in {"shell", "cont", "step", "tracing"}
        /\ then \in [op : {"done", "rm", "here"}, arg : Int]
    BY DEF IInv, TableInv, RunInv
  <2>5. QED BY <2>1, <2>2, <2>3, <2>4, Zenon DEF TypeOK, Flags
<1>2. QED BY <1>1, Invariance, FlagsInvariance, PTL

\* bps_n is the number of slots in use.
THEOREM CountCorrect == ASSUME Separate PROVE Spec => []CountAgrees
<1>1. IInv => CountAgrees
  BY DEF IInv, TableInv
<1>2. QED BY <1>1, Invariance, PTL

\* Memory has an int3 exactly at the software breakpoints of the table.
THEOREM MemoryCorrect == ASSUME Separate PROVE Spec => []MemoryMatchesTable
<1>1. IInv => MemoryMatchesTable
  BY DEF IInv, TableInv
<1>2. QED BY <1>1, Invariance, PTL

\* Run control removes its temporary breakpoint.
THEOREM TemporaryRemoved == ASSUME Separate PROVE Spec => []NoTemporaryLeft
<1>1. IInv => NoTemporaryLeft
  BY DEF IInv, RunInv, NoTemporaryLeft
<1>2. QED BY <1>1, Invariance, PTL

\* The program counter shown at the prompt is where the program is.
THEOREM ProgramCounterCorrect == ASSUME Separate PROVE Spec => []ProgramCounterTrue
<1>1. IInv => ProgramCounterTrue
  BY DEF IInv, ProgramCounterTrue
<1>2. QED BY <1>1, Invariance, PTL
------------------------------------------------------------------------------
(***************************************************************************)
(* The debug registers.                                                    *)
(***************************************************************************)
\* As long as the user leaves them alone, the registers stop execution, no
\* address is in two of them, and they hold the hardware breakpoints.  The
\* second part is why clearing the first register with an address is enough.
RegistersGood ==
  /\ \A k \in DR : dr[k].type = "x"
  /\ \A j, k \in DR : dr[j].addr = dr[k].addr /\ dr[j].addr # 0 => j = k
  /\ \A k \in DR : dr[k].addr # 0 => \E i \in Hard : dr[k].addr = bps[i].addr
  /\ \A i \in Hard : \E k \in DR : dr[k].addr = bps[i].addr

\* Good registers are the ones RegistersMatchTable speaks of.
LEMMA GoodMatches ==
  ASSUME RegistersGood
  PROVE  {dr[k].addr : k \in DR} \ {0} = {bps[i].addr : i \in Hard}
<1>1. \A i \in Hard : bps[i].addr # 0
  BY DEF Hard, Used
<1>2. QED BY <1>1 DEF RegistersGood

\* Registers do not change with the variables they do not depend on.
LEMMA GoodUnchanged ==
  ASSUME UNCHANGED table, RegistersGood
  PROVE  RegistersGood'
BY DEF table, RegistersGood, Hard, Used

\* A hardware breakpoint at a new address takes one free register; a
\* software one takes none.
LEMMA GoodSet ==
  ASSUME Separate, TableInv, RegistersGood, NEW a \in All, NEW type, debug_bp_set(a, type)
  PROVE  RegistersGood'
<1>1. CASE bps_n = MaxBps \/ a \in Listed
  <2>1. UNCHANGED table
    BY <1>1 DEF debug_bp_set
  <2>2. QED BY <2>1, GoodUnchanged
<1>2. CASE bps_n # MaxBps /\ a \notin Listed
  <2>0. PICK f : f = FreeSlot
    OBVIOUS
  <2>1. /\ f \in Used' /\ Used' = Used \union {f} /\ f \notin Used
        /\ bps'[f].addr = a
        /\ \A j \in Used : bps'[j] = bps[j]
    BY <1>2, <2>0, SetFacts
  <2>2. a # 0 /\ a \in Addr
    BY LayoutAssumption DEF All
  <2>3. \A i \in Hard : bps[i].addr # a
    BY <1>2 DEF Hard, Listed
  <2>4. \A k \in DR : dr[k].addr # a
    BY <2>2, <2>3 DEF RegistersGood
  <2>5. f \in Slot /\ dr \in DrType /\ bps \in [Slot -> Bp]
    BY <2>1 DEF Used, TableInv, DrType
  <2>6. CASE type = "hard" /\ DrAvailable(dr, a, "x")
    <3>1. /\ dr' = arch_set_wp_hw(dr, a, "x")
          /\ bps' = [bps EXCEPT ![f] = [bps[f] EXCEPT !.addr = a, !.hw = 1, !.trace = 0]]
      BY <1>2, <2>0, <2>6 DEF debug_bp_set
    <3>2. DrSame(dr, a, "x") = {}
      BY <2>4 DEF DrSame
    <3>3. DrFree(dr) # {} /\ DrFree(dr) \subseteq 0 .. NDR - 1
      BY <2>6, <3>2 DEF DrAvailable, DrFree, DR
    <3>4. PICK k : k = Last(DrFree(dr))
      OBVIOUS
    <3>5. k \in DrFree(dr)
      BY <3>3, <3>4, LastFacts, LayoutAssumption
    <3>6. k \in DR /\ dr[k].addr = 0
      BY <3>5 DEF DrFree
    <3>7. dr' = [dr EXCEPT ![k] = [addr |-> a, type |-> "x"]]
      BY <3>1, <3>2, <3>3, <3>4 DEF arch_set_wp_hw
    <3>8. /\ dr'[k].addr = a /\ dr'[k].type = "x"
          /\ \A j \in DR \ {k} : dr'[j] = dr[j]
      BY <3>6, <3>7, <2>5 DEF DrType
    <3>9. bps'[f].hw = 1
      BY <3>1, <2>5 DEF Bp
    <3>10. Hard' = Hard \union {f}
      BY <2>1, <3>9 DEF Hard
    <3>11. \A i \in Hard : bps'[i] = bps[i]
      BY <2>1 DEF Hard
    <3>12. /\ \A j \in DR : dr'[j].type = "x"
           /\ \A i, j \in DR : dr'[i].addr = dr'[j].addr /\ dr'[i].addr # 0 => i = j
      BY <3>8, <2>4, <2>2 DEF RegistersGood
    <3>13. \A j \in DR : dr'[j].addr # 0 => \E i \in Hard' : dr'[j].addr = bps'[i].addr
      BY <3>8, <3>10, <3>11, <2>1 DEF RegistersGood
    <3>14. ASSUME NEW i \in Hard' PROVE \E j \in DR : dr'[j].addr = bps'[i].addr
      <4>1. CASE i = f
        BY <4>1, <3>6, <3>8, <2>1
      <4>2. CASE i \in Hard
        <5>1. PICK j \in DR : dr[j].addr = bps[i].addr
          BY <4>2 DEF RegistersGood
        <5>2. bps[i].addr # 0
          BY <4>2 DEF Hard, Used
        <5>3. j # k
          BY <5>1, <5>2, <3>6
        <5>4. QED BY <5>1, <5>3, <3>8, <3>11, <4>2
      <4>3. QED BY <4>1, <4>2, <3>10
    <3>15. QED BY <3>12, <3>13, <3>14 DEF RegistersGood
  <2>7. CASE ~(type = "hard" /\ DrAvailable(dr, a, "x"))
    <3>1. PICK l \in get_len_ins(cc, a) :
               /\ bps' = [bps EXCEPT ![f] =
                    [addr |-> a, hw |-> 0, trace |-> IF type = "trace" THEN 1 ELSE 0,
                     len |-> l, data |-> arch_set_bp_soft(cc, a, l).data]]
               /\ dr' = dr
      BY <1>2, <2>0, <2>7 DEF debug_bp_set
    <3>2. bps'[f].hw = 0
      BY <3>1, <2>5
    <3>3. Hard' = Hard /\ \A i \in Hard : bps'[i] = bps[i]
      BY <2>1, <3>2 DEF Hard
    <3>4. QED BY <3>1, <3>3 DEF RegistersGood
  <2>8. QED BY <2>6, <2>7
<1>3. QED BY <1>1, <1>2

\* Removing breakpoints clears the registers of the hardware ones, and of no
\* other.
LEMMA GoodDrop ==
  ASSUME Separate, TableInv, RegistersGood, NEW R, R \subseteq Used, Drop(R)
  PROVE  RegistersGood'
<1>1. Used' = Used \ R /\ \A j \in Used \ R : bps'[j] = bps[j]
  BY DropFacts
<1>2. Hard' = Hard \ R /\ \A i \in Hard \ R : bps'[i] = bps[i]
  BY <1>1 DEF Hard
<1>3. PICK S : S = {bps[i].addr : i \in {j \in R : bps[j].hw = 1}}
  OBVIOUS
<1>4. dr' = DrWithout(dr, S)
  BY <1>3 DEF Drop
<1>5. 0 \notin S
  BY <1>3 DEF Used
<1>6. \A k \in DR : k \in Nat /\ \A j \in 0 .. k - 1 : j \in DR /\ j # k
  BY LayoutAssumption DEF DR
<1>7. \A k \in DR : dr[k].addr \in S => \A j \in 0 .. k - 1 : dr[j].addr # dr[k].addr
  BY <1>5, <1>6 DEF RegistersGood
<1>8. \A k \in DR : dr'[k] = IF dr[k].addr \in S THEN [dr[k] EXCEPT !.addr = 0] ELSE dr[k]
  BY <1>4, <1>7 DEF DrWithout
<1>9. \A k \in DR : /\ dr'[k].type = dr[k].type
                    /\ dr'[k].addr = IF dr[k].addr \in S THEN 0 ELSE dr[k].addr
  <2>1. \A k \in DR : dr[k] \in [addr : Addr \union {0}, type : {"r", "x"}]
    BY DEF TableInv
  <2>2. QED BY <2>1, <1>8
\* The address of a hardware breakpoint that stays is not among the cleared.
<1>10. \A i \in Hard : bps[i].addr \in S <=> i \in R
  BY <1>3 DEF Hard, TableInv, Unique, Used
<1>11. /\ \A k \in DR : dr'[k].type = "x"
       /\ \A j, k \in DR : dr'[j].addr = dr'[k].addr /\ dr'[j].addr # 0 => j = k
  BY <1>9 DEF RegistersGood
<1>12. ASSUME NEW k \in DR, dr'[k].addr # 0 PROVE \E i \in Hard' : dr'[k].addr = bps'[i].addr
  <2>1. dr'[k].addr = dr[k].addr /\ dr[k].addr \notin S
    BY <1>9, <1>12
  <2>2. PICK i \in Hard : dr[k].addr = bps[i].addr
    BY <2>1, <1>12 DEF RegistersGood
  <2>3. i \in Hard \ R
    BY <2>1, <2>2, <1>10
  <2>4. QED BY <2>1, <2>2, <2>3, <1>2
<1>13. ASSUME NEW i \in Hard' PROVE \E k \in DR : dr'[k].addr = bps'[i].addr
  <2>1. i \in Hard /\ i \notin R /\ bps'[i] = bps[i]
    BY <1>2
  <2>2. PICK k \in DR : dr[k].addr = bps[i].addr
    BY <2>1 DEF RegistersGood
  <2>3. QED BY <2>1, <2>2, <1>9, <1>10
<1>14. QED BY <1>11, <1>12, <1>13 DEF RegistersGood

\* The same for one breakpoint, found by its address.
LEMMA GoodRm ==
  ASSUME Separate, TableInv, RegistersGood, NEW a, a # 0, debug_bp_rm(a)
  PROVE  RegistersGood'
<1> DEFINE i == First(debug_bp_get(a))
<1>1. CASE debug_bp_get(a) = {} \/ Refused({i}) # {}
  <2>1. UNCHANGED table
    BY <1>1 DEF debug_bp_rm
  <2>2. QED BY <2>1, GoodUnchanged
<1>2. CASE ~(debug_bp_get(a) = {} \/ Refused({i}) # {})
  <2>1. i \in debug_bp_get(a)
    BY <1>2, UsedFacts, FirstFacts DEF debug_bp_get
  <2>2. i \in Used
    BY <2>1 DEF debug_bp_get, Used
  <2>3. Drop({i})
    BY <1>2 DEF debug_bp_rm
  <2> HIDE DEF i
  <2>4. QED BY <2>2, <2>3, GoodDrop
<1>3. QED BY <1>1, <1>2

\* The position of a number in a finite set of numbers.
Rank(T, i) == Cardinality({j \in T : j <= i})

\* Positions are between 1 and the size of the set and differ.
LEMMA RankFacts ==
  ASSUME NEW T, T \subseteq Nat, IsFiniteSet(T)
  PROVE  /\ \A i \in T : Rank(T, i) \in 1 .. Cardinality(T)
         /\ \A i, j \in T : Rank(T, i) = Rank(T, j) => i = j
<1>0. Cardinality(T) \in Nat
  BY FS_CardinalityType
<1>1. ASSUME NEW i \in T
      PROVE  /\ IsFiniteSet({j \in T : j <= i})
             /\ Rank(T, i) \in Nat /\ Rank(T, i) <= Cardinality(T)
  <2> DEFINE U == {j \in T : j <= i}
  <2>1. U \in SUBSET T
    OBVIOUS
  <2> HIDE DEF U
  <2>2. IsFiniteSet(U) /\ Cardinality(U) <= Cardinality(T)
    BY <2>1, FS_Subset
  <2>3. Cardinality(U) \in Nat
    BY <2>2, FS_CardinalityType
  <2>4. QED BY <2>2, <2>3 DEF U, Rank
<1>2. ASSUME NEW i \in T PROVE Rank(T, i) # 0
  <2> DEFINE U == {j \in T : j <= i}
  <2>1. i \in U /\ IsFiniteSet(U)
    BY <1>1
  <2> HIDE DEF U
  <2>2. Cardinality(U) # 0
    BY <2>1, FS_EmptySet
  <2>3. QED BY <2>2 DEF Rank, U
<1>3. ASSUME NEW i \in T, NEW j \in T, i < j PROVE Rank(T, i) # Rank(T, j)
  <2> DEFINE U == {x \in T : x <= i}
             V == {x \in T : x <= j}
  <2>0. i \in Nat /\ j \in Nat /\ IsFiniteSet(V)
    BY <1>1
  <2>1. U \in SUBSET V
    <3>1. ASSUME NEW x \in U PROVE x \in V
      <4>1. x \in T /\ x \in Nat /\ x <= i
        OBVIOUS
      <4>2. x <= j
        BY <2>0, <4>1, <1>3
      <4>3. QED BY <4>1, <4>2
    <3>2. QED BY <3>1
  <2>1a. j \in V /\ j \notin U
    BY <2>0, <1>3
  <2>2. Rank(T, i) = Cardinality(U) /\ Rank(T, j) = Cardinality(V)
    BY DEF Rank
  <2> HIDE DEF U, V
  <2>3. Cardinality(V) # Cardinality(U)
    BY <2>0, <2>1, <2>1a, FS_Subset
  <2>4. QED BY <2>2, <2>3
<1>4. \A i, j \in T : i < j \/ j < i \/ i = j
  OBVIOUS
<1>5. ASSUME NEW i \in T PROVE Rank(T, i) \in 1 .. Cardinality(T)
  <2>1. Rank(T, i) \in Nat /\ Rank(T, i) <= Cardinality(T)
    BY <1>1
  <2>2. Rank(T, i) # 0
    BY <1>2
  <2>3. QED BY <1>0, <2>1, <2>2
<1>6. ASSUME NEW i \in T, NEW j \in T, Rank(T, i) = Rank(T, j) PROVE i = j
  BY <1>3, <1>4, <1>6
<1>7. QED BY <1>5, <1>6

\* Good registers are enough for the hardware breakpoints of the table.
LEMMA HardFits ==
  ASSUME TableInv, RegistersGood
  PROVE  IsFiniteSet(Hard) /\ Hard \subseteq Nat /\ Cardinality(Hard) \in 0 .. NDR
<1>1. Hard \subseteq Used /\ Hard \subseteq Nat
  BY UsedFacts DEF Hard
<1>2. IsFiniteSet(Hard) /\ Cardinality(Hard) \in Nat
  BY <1>1, UsedFacts, FS_Subset, FS_CardinalityType
<1>3. IsFiniteSet(DR) /\ Cardinality(DR) = NDR
  <2>1. NDR \in Nat
    BY LayoutAssumption
  <2>2. IsFiniteSet(0 .. NDR - 1)
    BY <2>1, FS_Interval
  <2>3. Cardinality(0 .. NDR - 1) = IF 0 > NDR - 1 THEN 0 ELSE NDR - 1 - 0 + 1
    BY <2>1, FS_Interval
  <2>4. QED BY <2>1, <2>2, <2>3 DEF DR
<1>4. Cardinality(Hard) <= NDR
  <2>1. SUFFICES ASSUME NDR < Cardinality(Hard) PROVE FALSE
    BY <1>2, LayoutAssumption
  <2> DEFINE f == [i \in Hard |-> CHOOSE k \in DR : dr[k].addr = bps[i].addr]
  <2>2. \A i \in Hard : f[i] \in DR /\ dr[f[i]].addr = bps[i].addr
    BY DEF RegistersGood
  <2>3. f \in [Hard -> DR]
    BY <2>2
  <2> HIDE DEF f
  <2>4. PICK x, y \in Hard : x # y /\ f[x] = f[y]
    BY <1>2, <1>3, <2>1, <2>3, FS_PigeonHole
  <2>5. bps[x].addr = bps[y].addr
    BY <2>2, <2>4
  <2>6. QED BY <2>4, <2>5, <1>1 DEF TableInv, Unique
<1>5. QED BY <1>1, <1>2, <1>4, LayoutAssumption

\* A new process gets a register for every hardware breakpoint.
LEMMA GoodReload ==
  ASSUME Separate, TableInv, RegistersGood, debug_bp_reload_all
  PROVE  RegistersGood'
<1>1. Reloaded = Used
  <2>1. Reloaded \subseteq Used /\ Cardinality(Reloaded) = Cardinality(Used)
    BY DEF Reloaded, debug_bp_reload_all, CountAgrees, TableInv
  <2>2. QED BY <2>1, UsedFacts, FS_Subset
<1>2. ReloadedSoft = Soft /\ ReloadedHard = Hard
  BY <1>1 DEF ReloadedSoft, ReloadedHard, Soft, Hard
<1>3. PICK l : bps' = [i \in Slot |->
             IF i \in ReloadedSoft
             THEN [bps[i] EXCEPT !.len = l[i],
                                 !.data = arch_set_bp_soft(Int3Before(i), bps[i].addr, l[i]).data]
             ELSE bps[i]]
  BY DEF debug_bp_reload_all
<1>4. \A i \in Slot : bps'[i].addr = bps[i].addr /\ bps'[i].hw = bps[i].hw
  <2>1. \A i \in Slot : bps[i] \in Bp
    BY DEF TableInv
  <2>2. QED BY <1>3, <2>1 DEF Bp
<1>5. Hard' = Hard /\ \A i \in Hard : bps'[i].addr = bps[i].addr /\ bps[i].addr # 0
  BY <1>4 DEF Hard, Used
<1>6. /\ IsFiniteSet(Hard) /\ Hard \subseteq Nat /\ Cardinality(Hard) \in 0 .. NDR
      /\ \A i \in Hard : Rank(Hard, i) \in 1 .. Cardinality(Hard)
      /\ \A i, j \in Hard : Rank(Hard, i) = Rank(Hard, j) => i = j
  BY HardFits, RankFacts
<1> DEFINE At(k) == {i \in Hard : Rank(Hard, i) = NDR - k}
<1>7. \A k \in DR : dr'[k] = [addr |-> IF At(k) = {} THEN 0 ELSE bps[First(At(k))].addr, type |-> "x"]
  BY <1>2 DEF debug_bp_reload_all, Rank
<1>8. ASSUME NEW k \in DR, At(k) # {} PROVE First(At(k)) \in Hard /\ Rank(Hard, First(At(k))) = NDR - k
  <2>1. At(k) \subseteq Nat
    BY <1>6
  <2>2. First(At(k)) \in At(k)
    <3> HIDE DEF At
    <3> QED BY <1>8, <2>1, FirstFacts
  <2>3. QED BY <2>2
<1>9. ASSUME NEW i \in Hard
      PROVE  NDR - Rank(Hard, i) \in DR /\ i \in At(NDR - Rank(Hard, i))
  <2>1. Rank(Hard, i) \in 1 .. NDR
    BY <1>6, LayoutAssumption
  <2>2. QED BY <2>1, LayoutAssumption DEF DR
<1> HIDE DEF At
<1>10. \A k \in DR : /\ dr'[k].type = "x"
                     /\ dr'[k].addr = IF At(k) = {} THEN 0 ELSE bps[First(At(k))].addr
  <2>1. ASSUME NEW k \in DR, NEW b, dr'[k] = [addr |-> b, type |-> "x"]
        PROVE  dr'[k].type = "x" /\ dr'[k].addr = b
    BY <2>1
  <2>2. QED BY <1>7, <2>1
<1>11. \A i, j \in Hard : bps[i].addr = bps[j].addr => i = j
  BY DEF TableInv, Unique, Hard
<1>12. ASSUME NEW j \in DR, NEW k \in DR, dr'[j].addr = dr'[k].addr, dr'[j].addr # 0 PROVE j = k
  <2>1. At(j) # {} /\ At(k) # {}
    BY <1>10, <1>12
  <2>2. First(At(j)) \in Hard /\ First(At(k)) \in Hard
    BY <1>8, <2>1
  <2>3. First(At(j)) = First(At(k))
    BY <1>10, <1>11, <1>12, <2>1, <2>2
  <2>4. NDR - j = NDR - k
    BY <1>8, <2>1, <2>3
  <2>5. QED BY <2>4, LayoutAssumption DEF DR
<1>13. ASSUME NEW k \in DR, dr'[k].addr # 0 PROVE \E i \in Hard' : dr'[k].addr = bps'[i].addr
  <2>1. At(k) # {}
    BY <1>10, <1>13
  <2>2. First(At(k)) \in Hard
    BY <1>8, <2>1
  <2>3. QED BY <1>5, <1>10, <2>1, <2>2
<1>14. ASSUME NEW i \in Hard' PROVE \E k \in DR : dr'[k].addr = bps'[i].addr
  <2>1. i \in Hard
    BY <1>5
  <2>2. PICK k \in DR : k = NDR - Rank(Hard, i)
    BY <2>1, <1>9
  <2>3. i \in At(k)
    BY <2>1, <2>2, <1>9
  <2>4. First(At(k)) \in Hard /\ Rank(Hard, First(At(k))) = NDR - k
    BY <2>3, <1>8
  <2>5. Rank(Hard, i) = NDR - k
    BY <2>3 DEF At
  <2>6. First(At(k)) = i
    BY <1>6, <2>1, <2>4, <2>5
  <2>7. QED BY <1>5, <1>10, <2>1, <2>3, <2>6
<1>15. QED BY <1>10, <1>12, <1>13, <1>14 DEF RegistersGood

\* The end of a command keeps the registers good, and the command does not
\* go on waiting as !contuh does.
LEMMA GoodReturn ==
  ASSUME Separate, IInv, Return, RegistersGood
  PROVE  RegistersGood'
<1> USE DEF IInv
<1>1. CASE then.op = "done" /\ mode' = "shell" /\ UNCHANGED <<table, then>>
  BY <1>1, GoodUnchanged
<1>2. CASE then.op = "rm" /\ debug_bp_rm_num(then.arg)
  <2>1. CASE then.arg = -2
    <3>1. UNCHANGED table
      BY <1>2, <2>1 DEF debug_bp_rm_num
    <3>2. QED BY <3>1, GoodUnchanged
  <2>2. CASE Temporary(then.arg)
    <3>1. PICK n : n = then.arg
      OBVIOUS
    <3>2. n \in Used /\ n < bps_n
      BY <2>2, <3>1 DEF Temporary
    <3>3. n \in Nat /\ bps[n].addr # 0
      BY <3>2, UsedFacts DEF Used
    <3>4. debug_bp_rm(bps[n].addr)
      BY <1>2, <3>1, <3>2, <3>3 DEF debug_bp_rm_num
    <3>5. QED BY <3>3, <3>4, GoodRm
  <2>3. QED BY <1>2, <2>1, <2>2 DEF RunInv
<1>3. CASE then.op = "here" /\ debug_bp_set(then.arg, "soft")
  <2>1. then.arg \in All
    BY <1>3 DEF RunInv, All
  <2>2. QED BY <1>3, <2>1, GoodSet
<1>4. QED BY <1>1, <1>2, <1>3 DEF Return

\* Every step of the process keeps the registers good.
LEMMA GoodProcess ==
  ASSUME Separate, IInv, Process, RegistersGood
  PROVE  RegistersGood'
<1>1. ASSUME NEW p, Trap(p) PROVE RegistersGood'
  BY <1>1, GoodUnchanged, GoodReturn DEF Trap
<1>2. CASE Execute
  BY <1>2, <1>1, GoodUnchanged DEF Execute
<1>3. CASE Int3
  BY <1>3, <1>1 DEF Int3
<1>4. CASE Signal
  BY <1>4, GoodReturn DEF Signal
<1>5. QED BY <1>2, <1>3, <1>4 DEF Process

\* Every step either has the mark that the user changed a register, or keeps
\* the registers good.
LEMMA GoodNext ==
  ASSUME Separate, IInv, [Next]_vars, RegistersGood
  PROVE  manual' = TRUE \/ RegistersGood'
<1> USE DEF IInv
<1>1. CASE UNCHANGED vars
  <2>1. UNCHANGED table
    BY <1>1 DEF vars, table
  <2>2. QED BY <2>1, GoodUnchanged
<1>2. CASE Process
  BY <1>2, GoodProcess
<1>3. ASSUME NEW a \in BpAddr, NEW type, SetCommand(a, type) PROVE RegistersGood'
  BY <1>3, GoodSet DEF SetCommand, All
<1>4. ASSUME NEW a \in RmAddr, RemoveCommand(a) PROVE RegistersGood'
  BY <1>4, GoodRm DEF RemoveCommand, Separate
<1>5. CASE RemoveAllCommand
  <2>1. PICK R \in SUBSET Used : Drop(R)
    BY <1>5 DEF RemoveAllCommand, debug_bp_rms
  <2>2. QED BY <2>1, GoodDrop
<1>6. ASSUME NEW k, NEW a, NEW type, DrCommand(k, a, type) PROVE manual' = TRUE
  BY <1>6 DEF DrCommand
<1>7. CASE DrReset
  BY <1>7 DEF DrReset
<1>8. CASE Load
  BY <1>8, GoodReload DEF Load
<1>9. ASSUME NEW a \in TempAddr, NEW type, RunUntil(a, type) PROVE RegistersGood'
  BY <1>9, GoodSet DEF RunUntil, All
<1>10. CASE debug_step \/ debug_cont \/ debug_contuh
  BY <1>10, GoodUnchanged DEF debug_step, debug_cont, debug_contuh
<1>11. CASE debug_stepo
  BY <1>11, <1>9, GoodUnchanged DEF debug_stepo
<1>12. ASSUME NEW a \in TempAddr, debug_cont_until(a) PROVE RegistersGood'
  BY <1>12, <1>9 DEF debug_cont_until
<1>13. QED
  BY <1>1, <1>2, <1>3, <1>4, <1>5, <1>6, <1>7, <1>8, <1>10, <1>11, <1>12 DEF Next

\* !contuh waits for its first stop in a single step only.
HereSteps == then.op = "here" => mode # "cont"

\* No step lets !contuh run freely before its first stop.
LEMMA HereNext ==
  ASSUME RunInv, HereSteps, [Next]_vars
  PROVE  HereSteps'
<1> USE DEF HereSteps
<1>1. ASSUME Return PROVE HereSteps'
  BY <1>1 DEF Return, Done
<1>2. ASSUME NEW p, Trap(p) PROVE HereSteps'
  BY <1>1, <1>2 DEF Trap
<1>3. CASE Process
  BY <1>1, <1>2, <1>3 DEF Process, Execute, Int3, Signal
<1>4. ASSUME NEW how, Run(how, Done) PROVE HereSteps'
  BY <1>4 DEF Run, Done
<1>5. ASSUME NEW a, NEW type, RunUntil(a, type) PROVE HereSteps'
  BY <1>5 DEF RunUntil, Run
<1>6. CASE UNCHANGED <<mode, then>>
  BY <1>6
<1>7. CASE debug_contuh
  BY <1>7 DEF debug_contuh, Run
<1>8. QED
  BY <1>3, <1>4, <1>5, <1>6, <1>7
  DEF Next, vars, SetCommand, RemoveCommand, RemoveAllCommand, DrCommand, DrReset, Load, Stay,
      debug_step, debug_cont, debug_stepo, debug_cont_until

\* The registers are good in every reachable state.
LEMMA RegistersInvariance == ASSUME Separate PROVE Spec => []((manual = TRUE \/ RegistersGood) /\ HereSteps)
<1>1. Init => (manual = TRUE \/ RegistersGood) /\ HereSteps
  <2> SUFFICES ASSUME Init PROVE RegistersGood /\ HereSteps
    OBVIOUS
  <2>1. Hard = {}
    BY DEF Init, Hard, Used
  <2>2. \A k \in DR : dr[k].addr = 0 /\ dr[k].type = "x"
    BY DEF Init
  <2>3. QED BY <2>1, <2>2 DEF RegistersGood, HereSteps, Init, Done
<1>2. /\ IInv /\ (manual = TRUE \/ RegistersGood) /\ HereSteps /\ [Next]_vars
      => ((manual = TRUE \/ RegistersGood) /\ HereSteps)'
  <2> SUFFICES ASSUME IInv, manual = TRUE \/ RegistersGood, HereSteps, [Next]_vars
               PROVE  (manual' = TRUE \/ RegistersGood') /\ HereSteps'
    OBVIOUS
  <2>1. HereSteps'
    BY HereNext DEF IInv
  <2>2. CASE RegistersGood
    BY <2>1, <2>2, GoodNext
  <2>3. CASE manual = TRUE
    <3>1. manual' = manual \/ manual' = TRUE
      BY DEF Next, vars, Process, Execute, Int3, Signal, SetCommand, RemoveCommand, RemoveAllCommand,
             DrCommand, DrReset, Load, debug_step, debug_cont, debug_stepo, debug_cont_until,
             debug_contuh, RunUntil, Run
    <3>2. QED BY <2>1, <2>3, <3>1
  <2>4. QED BY <2>2, <2>3
<1>3. QED BY <1>1, <1>2, Invariance, PTL DEF Spec

\* Unless the user changes a register, the debug registers hold exactly the
\* hardware breakpoints of the table, after every set, removal and reload.
THEOREM RegistersCorrect == ASSUME Separate PROVE Spec => []RegistersMatchTable
<1>1. (manual = TRUE \/ RegistersGood) /\ Flags => RegistersMatchTable
  <2> SUFFICES ASSUME manual = TRUE \/ RegistersGood, Flags PROVE RegistersMatchTable
    OBVIOUS
  <2>1. CASE manual = TRUE
    BY <2>1, Zenon DEF RegistersMatchTable
  <2>2. CASE RegistersGood
    BY <2>2, GoodMatches, Zenon DEF RegistersMatchTable
  <2>3. QED BY <2>1, <2>2
<1>2. QED BY <1>1, RegistersInvariance, FlagsInvariance, PTL

\* The process never executes an instruction with a software breakpoint and
\* never runs on past one with a hardware breakpoint.
THEOREM BreakpointsStop == ASSUME Separate PROVE Spec => NoBreakpointMissed
<1> DEFINE Missed ==
      at' # at /\ mode # "shell" =>
        /\ pc \notin {bps[i].addr : i \in Soft}
        /\ ~manual /\ mode = "cont" /\ mode' = "cont" => at' \notin {bps[i].addr : i \in Hard}
<1>1. IInv /\ ((manual = TRUE \/ RegistersGood) /\ HereSteps) /\ [Next]_vars => [Missed]_vars
  <2> SUFFICES ASSUME IInv, manual = TRUE \/ RegistersGood, HereSteps, [Next]_vars,
                      at' # at, mode # "shell"
               PROVE  /\ pc \notin {bps[i].addr : i \in Soft}
                      /\ ~manual /\ mode = "cont" /\ mode' = "cont" => at' \notin {bps[i].addr : i \in Hard}
    BY Zenon
  <2>1. Execute
    BY DEF Next, vars, Process, Int3, Signal, SetCommand, RemoveCommand, RemoveAllCommand,
           DrCommand, DrReset, Load, Prompt, debug_step, debug_cont, debug_stepo, debug_cont_until,
           debug_contuh
  <2>2. pc \notin {bps[i].addr : i \in Soft}
    BY <2>1 DEF Execute, IInv, TableInv, MemoryMatchesTable
  <2>3. ASSUME mode = "cont", mode' = "cont", RegistersGood PROVE at' \notin {bps[i].addr : i \in Hard}
    <3>1. PICK s \in Succ[pc] :
            /\ at' = s
            /\ IF mode = "cont" /\ DrSame(dr, s, "x") = {}
               THEN Goto(s) /\ UNCHANGED <<table, mode, then>>
               ELSE Trap(s)
      BY <2>1 DEF Execute
    <3>2. CASE DrSame(dr, s, "x") # {}
      <4>1. Trap(s)
        BY <3>1, <3>2
      <4>2. then.op # "here"
        BY <2>3 DEF HereSteps
      <4>3. QED BY <2>3, <4>1, <4>2 DEF Trap, Return
    <3>3. CASE DrSame(dr, s, "x") = {}
      <4>1. ASSUME NEW i \in Hard, s = bps[i].addr PROVE FALSE
        <5>1. PICK k \in DR : dr[k].addr = s
          BY <4>1, <2>3 DEF RegistersGood
        <5>2. dr[k].type = "x"
          BY <2>3 DEF RegistersGood
        <5>3. dr[k] \in [addr : Addr \union {0}, type : {"r", "x"}]
          BY DEF IInv, TableInv
        <5>4. dr[k] = [addr |-> s, type |-> "x"]
          BY <5>1, <5>2, <5>3
        <5>5. QED BY <5>4, <3>3 DEF DrSame
      <4>2. QED BY <4>1, <3>1
    <3>4. QED BY <3>2, <3>3
  <2>4. ~manual => RegistersGood
    BY Zenon
  <2>5. QED BY <2>2, <2>3, <2>4, Zenon
<1>2. QED BY <1>1, Invariance, RegistersInvariance, PTL DEF Spec, NoBreakpointMissed

=============================================================================
