---------------------------- MODULE TablesProofs ----------------------------
(***************************************************************************)
(* Proofs about the tables of a session, each for every size of its table: *)
(* the remote hosts, sections, IO maps, watchpoints, macros, traces, and   *)
(* the items, comments and references of a project.                        *)
(***************************************************************************)
EXTENDS Tables, FiniteSetTheorems, WellFoundedInduction, TLAPS

\* A set of natural numbers has a smallest element.
LEMMA Smallest ==
  ASSUME NEW T, T \subseteq Nat, T # {}
  PROVE  \E x \in T : \A y \in T : x <= y
<1> DEFINE R == OpToRel(<, Nat)
<1>1. IsWellFoundedOn(R, Nat)
  BY NatLessThanWellFounded
<1>2. R = {p \in Nat \X Nat : p[1] < p[2]}
  BY Zenon DEF OpToRel
<1>3. ASSUME NEW x \in Nat, NEW y \in Nat, y < x PROVE <<y, x>> \in R
  <2>1. <<y, x>> \in {p \in Nat \X Nat : p[1] < p[2]}
    BY <1>3
  <2>2. QED BY <2>1, <1>2
<1> HIDE DEF R
<1>4. PICK x \in T : \A y \in T : ~(<<y, x>> \in R)
  BY <1>1, WFMin, Zenon
<1>5. ASSUME NEW y \in T PROVE x <= y
  <2>1. x \in Nat /\ y \in Nat
    OBVIOUS
  <2>2. ~(y < x)
    BY <1>3, <1>4, <2>1
  <2>3. QED BY <2>1, <2>2
<1>6. QED BY <1>5

\* A bounded set of natural numbers has a largest element.
LEMMA Largest ==
  ASSUME NEW n \in Nat, NEW T, T \subseteq 0 .. n, T # {}
  PROVE  \E x \in T : \A y \in T : y <= x
<1> DEFINE U == {n - x : x \in T}
<1>1. U \subseteq Nat /\ U # {}
  <2>1. \A x \in T : n - x \in Nat
    OBVIOUS
  <2>2. QED BY <2>1
<1>2. PICK u \in U : \A y \in U : u <= y
  <2> HIDE DEF U
  <2> QED BY <1>1, Smallest
<1>3. PICK x \in T : u = n - x
  OBVIOUS
<1>4. ASSUME NEW y \in T PROVE y <= x
  <2>1. n - x <= n - y
    BY <1>2, <1>3
  <2>2. QED BY <2>1
<1>5. QED BY <1>4

\* Induction up to n: a set with 0 that has k whenever it has k - 1 has all.
LEMMA Climbs ==
  ASSUME NEW n \in Nat, NEW P, 0 \in P, \A k \in 1 .. n : k - 1 \in P => k \in P
  PROVE  \A k \in 0 .. n : k \in P
<1> DEFINE Bad == (0 .. n) \ P
<1>1. SUFFICES ASSUME Bad # {} PROVE FALSE
  OBVIOUS
<1>2. PICK m \in Bad : \A y \in Bad : m <= y
  <2>1. Bad \subseteq Nat
    OBVIOUS
  <2> HIDE DEF Bad
  <2>2. QED BY <1>1, <2>1, Smallest
<1>3. m \in 1 .. n /\ m - 1 \in 0 .. n /\ ~(m <= m - 1)
  OBVIOUS
<1>4. m - 1 \in P
  BY <1>2, <1>3
<1>5. QED BY <1>3, <1>4

\* A function on 0 .. n that has the value v at 0 and goes from each value to
\* the next by a step.
Steps(n, V) == [1 .. n -> [V -> V]]
Iterates(g, n, V, v, step) ==
  g \in [0 .. n -> V] /\ g[0] = v /\ \A k \in 1 .. n : g[k] = step[k][g[k - 1]]

\* Such a function exists.
LEMMA Recursion ==
  ASSUME NEW n \in Nat, NEW V, NEW v \in V, NEW step \in Steps(n, V)
  PROVE  \E g : Iterates(g, n, V, v, step)
<1> USE DEF Steps
<1> DEFINE G(m) == {g \in [0 .. m -> V] : g[0] = v /\ \A k \in 1 .. m : g[k] = step[k][g[k - 1]]}
           P == {m \in 0 .. n : G(m) # {}}
<1>1. 0 \in P
  <2> DEFINE z == [k \in 0 .. 0 |-> v]
  <2>1. z \in [0 .. 0 -> V] /\ z[0] = v /\ 1 .. 0 = {}
    OBVIOUS
  <2>2. z \in G(0)
    <3> HIDE DEF z
    <3> QED BY <2>1
  <2>3. QED BY <2>2
<1>2. ASSUME NEW m \in 1 .. n, m - 1 \in P PROVE m \in P
  <2>1. PICK g : g \in G(m - 1)
    BY <1>2
  <2> DEFINE w == step[m][g[m - 1]]
             h == [k \in 0 .. m |-> IF k = m THEN w ELSE g[k]]
  <2>2. g \in [0 .. m - 1 -> V] /\ g[0] = v /\ \A k \in 1 .. m - 1 : g[k] = step[k][g[k - 1]]
    BY <2>1
  <2>3. w \in V
    BY <2>2
  <2>4. h \in [0 .. m -> V] /\ h[0] = v
    <3> HIDE DEF w
    <3> QED BY <2>2, <2>3
  <2>5. ASSUME NEW k \in 1 .. m PROVE h[k] = step[k][h[k - 1]]
    <3>1. h[k - 1] = g[k - 1]
      <4> HIDE DEF w
      <4> QED OBVIOUS
    <3>2. CASE k = m
      BY <3>1, <3>2
    <3>3. CASE k # m
      <4>1. k \in 1 .. m - 1 /\ h[k] = g[k]
        BY <3>3
      <4>2. QED BY <4>1, <3>1, <2>2
    <3>4. QED BY <3>2, <3>3
  <2>6. h \in G(m)
    <3> HIDE DEF h
    <3> QED BY <2>4, <2>5
  <2>7. QED BY <2>6
<1>3. n \in P
  <2>1. \A m \in 1 .. n : m - 1 \in P => m \in P
    BY <1>2
  <2> HIDE DEF P
  <2>2. \A m \in 0 .. n : m \in P
    BY <1>1, <2>1, Climbs
  <2>3. QED BY <2>2
<1>4. QED BY <1>3 DEF Iterates

------------------------------------------------------------------------------
(***************************************************************************)
(* Remote hosts.  The invariant also says that a connection the table      *)
(* never held is open: its number is not given again while it is.          *)
(***************************************************************************)
HostInv == HostTypeOK /\ SelectedIsChosen /\ ConnectionsListed /\ lost \subseteq open

\* A loop over the table finds the first slot that holds one of fds, or runs
\* to the end.
LEMMA SlotFacts ==
  ASSUME NEW t, NEW fds
  PROVE  /\ SlotOf(t, fds) \in 0 .. RTR_MAX_HOSTS
         /\ SlotOf(t, fds) < RTR_MAX_HOSTS => SlotOf(t, fds) \in HostSlot /\ t[SlotOf(t, fds)] \in fds
         /\ (\E k \in HostSlot : t[k] \in fds) => SlotOf(t, fds) < RTR_MAX_HOSTS
<1> DEFINE S == {k \in HostSlot : t[k] \in fds}
<1>1. S \subseteq HostSlot /\ HostSlot \subseteq Nat /\ RTR_MAX_HOSTS \in Nat
  BY HostAssumption DEF HostSlot
<1>2. SlotOf(t, fds) = IF S = {} THEN RTR_MAX_HOSTS ELSE Lowest(S)
  BY DEF SlotOf
<1>3. S # {} => Lowest(S) \in S
  <2>1. S # {} => \E x \in S : \A y \in S : x <= y
    <3> HIDE DEF S
    <3> QED BY <1>1, Smallest
  <2>2. QED BY <2>1 DEF Lowest
<1>4. S # {} => Lowest(S) \in HostSlot /\ t[Lowest(S)] \in fds /\ Lowest(S) < RTR_MAX_HOSTS
  BY <1>1, <1>3 DEF HostSlot
<1> HIDE DEF S
<1>5. (\E k \in HostSlot : t[k] \in fds) => S # {}
  BY DEF S
<1>6. HostSlot \subseteq 0 .. RTR_MAX_HOSTS /\ RTR_MAX_HOSTS \in 0 .. RTR_MAX_HOSTS
      /\ ~(RTR_MAX_HOSTS < RTR_MAX_HOSTS)
  BY <1>1 DEF HostSlot
<1>7. CASE S = {}
  BY <1>2, <1>5, <1>6, <1>7
<1>8. CASE S # {}
  BY <1>2, <1>4, <1>6, <1>8
<1>9. QED BY <1>7, <1>8

\* =+ host.
LEMMA AddKeeps ==
  ASSUME HostInv, NEW accepted \in BOOLEAN, rtr_add(accepted)
  PROVE  HostInv'
<1> DEFINE fd == Lowest(Fd \ open)
           k == SlotForNew
<1>1. fd \in Fd /\ fd \notin open
  <2>1. Fd \ open # {} /\ Fd \ open \subseteq Nat
    BY HostAssumption DEF rtr_add, Fd
  <2>2. \E x \in Fd \ open : \A y \in Fd \ open : x <= y
    BY <2>1, Smallest
  <2>3. QED BY <2>2 DEF Lowest
<1>2. k \in 0 .. RTR_MAX_HOSTS /\ (k < RTR_MAX_HOSTS => k \in HostSlot /\ rtr_host[k] = 0)
  BY SlotFacts DEF SlotForNew, Free
<1>3. open' = open \union {fd} /\ 0 \in Fd
  BY HostAssumption DEF rtr_add, Fd
<1>4. HostTypeOK /\ SelectedIsChosen /\ ConnectionsListed /\ lost \subseteq open
  BY DEF HostInv
<1>5. CASE accepted /\ k < RTR_MAX_HOSTS
  <2>1. /\ rtr_host' = [rtr_host EXCEPT ![k] = fd] /\ rtr_n' = k /\ chosen' = fd
        /\ lost' = IF fd = 0 THEN lost \union {0} ELSE lost
    BY <1>5 DEF rtr_add
  <2> HIDE DEF fd, k
  <2>2. HostTypeOK'
    BY <1>1, <1>2, <1>3, <1>4, <1>5, <2>1 DEF HostTypeOK
  <2>3. SelectedIsChosen'
    BY <1>2, <1>4, <1>5, <2>1 DEF HostTypeOK, SelectedIsChosen
  <2>4. lost' \subseteq open'
    BY <1>3, <1>4, <2>1
  <2>5. \A j \in HostSlot : rtr_host'[j] = IF j = k THEN fd ELSE rtr_host[j]
    BY <1>4, <2>1 DEF HostTypeOK
  <2>6. \A j \in HostSlot : rtr_host[j] # 0 => rtr_host[j] \in open
    BY <1>4 DEF ConnectionsListed
  <2>7. {rtr_host'[j] : j \in HostSlot} \ {0} = ({rtr_host[j] : j \in HostSlot} \union {fd}) \ {0}
    BY <1>2, <1>5, <2>5
  <2>8. ConnectionsListed'
    <3>1. (open \ (lost \union {0}))' = ({rtr_host[j] : j \in HostSlot} \union {fd}) \ {0}
      BY <1>1, <1>3, <1>4, <2>1 DEF ConnectionsListed
    <3>2. ASSUME NEW i \in HostSlot, NEW j \in HostSlot, rtr_host'[j] # 0, rtr_host'[j] = rtr_host'[i]
          PROVE  j = i
      BY <1>1, <1>4, <2>5, <2>6, <3>2 DEF ConnectionsListed
    <3>3. QED BY <2>7, <3>1, <3>2 DEF ConnectionsListed
  <2>9. QED BY <2>2, <2>3, <2>4, <2>8 DEF HostInv
<1>6. CASE ~(accepted /\ k < RTR_MAX_HOSTS)
  <2>1. lost' = lost \union {fd} /\ UNCHANGED <<rtr_host, rtr_n, chosen>>
    BY <1>6 DEF rtr_add
  <2> HIDE DEF fd, k
  <2>2. QED
    BY <1>1, <1>3, <1>4, <2>1 DEF HostInv, HostTypeOK, SelectedIsChosen, ConnectionsListed
<1>7. QED BY <1>5, <1>6

\* =-fd.
LEMMA RemoveKeeps ==
  ASSUME HostInv, NEW fd \in Fd, rtr_remove(fd)
  PROVE  /\ HostInv'
         /\ fd # 0 /\ (\E k \in HostSlot : rtr_host'[k] # 0) /\ rtr_n < RTR_MAX_HOSTS
            /\ rtr_host[rtr_n] # 0 => rtr_n' < RTR_MAX_HOSTS /\ rtr_host'[rtr_n'] # 0
<1> DEFINE k == SlotOf(rtr_host, {fd})
           t == [rtr_host EXCEPT ![k] = 0]
           s == SlotOf(t, Fd \ {0})
<1>1. /\ k < RTR_MAX_HOSTS /\ rtr_host' = t /\ rtr_n' = Selected(t, k)
      /\ open' = open \ {fd} /\ chosen' = (IF chosen = fd THEN 0 ELSE chosen)
      /\ lost' = lost \ {fd}
  BY DEF rtr_remove
<1>2. k \in HostSlot /\ rtr_host[k] = fd
  BY <1>1, SlotFacts
<1>3. rtr_n' = IF rtr_n = k THEN s ELSE rtr_n
  BY <1>1 DEF Selected
<1>4. /\ s \in 0 .. RTR_MAX_HOSTS
      /\ s < RTR_MAX_HOSTS => s \in HostSlot /\ t[s] \in Fd \ {0}
      /\ (\E j \in HostSlot : t[j] \in Fd \ {0}) => s < RTR_MAX_HOSTS
  BY SlotFacts
<1>5. HostTypeOK /\ SelectedIsChosen /\ ConnectionsListed /\ lost \subseteq open /\ 0 \in Fd
  BY HostAssumption DEF HostInv, Fd
<1> HIDE DEF k, s
<1>6. \A j \in HostSlot : t[j] = IF j = k THEN 0 ELSE rtr_host[j]
  BY <1>2, <1>5 DEF HostTypeOK
<1>7. t \in [HostSlot -> Fd]
  BY <1>2, <1>5 DEF HostTypeOK
<1> HIDE DEF t
<1>8. HostTypeOK'
  BY <1>1, <1>3, <1>4, <1>5, <1>7 DEF HostTypeOK
<1>9. rtr_n \in 0 .. RTR_MAX_HOSTS /\ RTR_MAX_HOSTS \in Nat
  BY <1>5, HostAssumption DEF HostTypeOK
<1>10. rtr_n < RTR_MAX_HOSTS => rtr_n \in HostSlot
  BY <1>9 DEF HostSlot
<1>11. SelectedIsChosen'
  <2>1. SUFFICES ASSUME chosen' # 0 PROVE rtr_n' < RTR_MAX_HOSTS /\ rtr_host'[rtr_n'] = chosen'
    BY DEF SelectedIsChosen
  <2>2. chosen' = chosen /\ chosen # fd /\ chosen # 0
    BY <1>1, <2>1
  <2>3. rtr_n < RTR_MAX_HOSTS /\ rtr_host[rtr_n] = chosen
    BY <1>5, <2>2 DEF SelectedIsChosen
  <2>4. rtr_n # k
    BY <1>2, <2>2, <2>3
  <2>5. QED BY <1>1, <1>3, <1>6, <1>10, <2>2, <2>3, <2>4
<1>12. ConnectionsListed'
  <2>1. {t[j] : j \in HostSlot} \ {0} = ({rtr_host[j] : j \in HostSlot} \ {0}) \ {fd}
    <3>1. ASSUME NEW j \in HostSlot, t[j] # 0
          PROVE  t[j] \in ({rtr_host[i] : i \in HostSlot} \ {0}) \ {fd}
      BY <1>2, <1>5, <1>6, <3>1 DEF ConnectionsListed
    <3>2. ASSUME NEW j \in HostSlot, rtr_host[j] # 0, rtr_host[j] # fd
          PROVE  rtr_host[j] \in {t[i] : i \in HostSlot} \ {0}
      <4>1. t[j] = rtr_host[j]
        BY <1>2, <1>6, <3>2
      <4>2. QED BY <3>2, <4>1
    <3>3. QED BY <3>1, <3>2
  <2>2. (open \ (lost \union {0}))' = (open \ (lost \union {0})) \ {fd}
    BY <1>1
  <2>3. \A i, j \in HostSlot : t[j] # 0 /\ t[j] = t[i] => j = i
    BY <1>5, <1>6 DEF ConnectionsListed
  <2>4. QED BY <1>1, <1>5, <2>1, <2>2, <2>3 DEF ConnectionsListed
<1>13. lost' \subseteq open'
  BY <1>1, <1>5
<1>14. ASSUME \E j \in HostSlot : rtr_host'[j] # 0, rtr_n < RTR_MAX_HOSTS, rtr_host[rtr_n] # 0
       PROVE  rtr_n' < RTR_MAX_HOSTS /\ rtr_host'[rtr_n'] # 0
  BY <1>1, <1>3, <1>4, <1>6, <1>7, <1>10, <1>14
<1>15. QED BY <1>8, <1>11, <1>12, <1>13, <1>14 DEF HostInv

\* =-* and the selection of a host.
LEMMA SelectKeeps ==
  ASSUME HostInv, rtr_remove_all \/ \E fd \in Fd : Select(fd)
  PROVE  HostInv'
<1>1. HostTypeOK /\ SelectedIsChosen /\ ConnectionsListed /\ lost \subseteq open /\ 0 \in Fd
      /\ RTR_MAX_HOSTS \in Nat
  BY HostAssumption DEF HostInv, Fd
<1>2. CASE rtr_remove_all
  <2>1. rtr_host' = [k \in HostSlot |-> 0] /\ rtr_n' = 0 /\ chosen' = 0 /\ lost' = lost
    BY <1>2 DEF rtr_remove_all
  <2>2. open' = open \ (open \ (lost \union {0}))
    BY <1>1, <1>2 DEF rtr_remove_all, ConnectionsListed
  <2>3. HostTypeOK' /\ SelectedIsChosen' /\ lost' \subseteq open'
    BY <1>1, <2>1, <2>2 DEF HostTypeOK, SelectedIsChosen
  <2>4. {rtr_host'[k] : k \in HostSlot} \ {0} = {} /\ \A k \in HostSlot : rtr_host'[k] = 0
    BY <2>1
  <2>5. ConnectionsListed'
    BY <2>1, <2>2, <2>4 DEF ConnectionsListed
  <2>6. QED BY <2>3, <2>5 DEF HostInv
<1>3. ASSUME NEW fd \in Fd, Select(fd) PROVE HostInv'
  <2> DEFINE k == SlotOf(rtr_host, {fd})
  <2>1. k \in 0 .. RTR_MAX_HOSTS /\ (k < RTR_MAX_HOSTS => k \in HostSlot /\ rtr_host[k] = fd)
    BY SlotFacts
  <2>2. /\ rtr_n' = k /\ chosen' = (IF k = RTR_MAX_HOSTS THEN 0 ELSE fd)
        /\ rtr_host' = rtr_host /\ open' = open /\ lost' = lost
    BY <1>3 DEF Select
  <2> HIDE DEF k
  <2>3. HostTypeOK' /\ SelectedIsChosen'
    BY <1>1, <2>1, <2>2 DEF HostTypeOK, SelectedIsChosen
  <2>4. QED BY <1>1, <2>2, <2>3 DEF HostInv, ConnectionsListed
<1>4. QED BY <1>2, <1>3

\* A step of another part leaves the hosts alone.
LEMMA HostSteps == [Next]_vars => [HostNext]_hostvars
BY DEF Next, vars, hostvars, OnlyMacros

\* Every step keeps the table of hosts true.
LEMMA HostNextKeeps == HostInv /\ [HostNext]_hostvars => HostInv'
<1> SUFFICES ASSUME HostInv, [HostNext]_hostvars PROVE HostInv'
  OBVIOUS
<1>1. CASE UNCHANGED hostvars
  BY <1>1 DEF hostvars, HostInv, HostTypeOK, SelectedIsChosen, ConnectionsListed
<1>2. QED BY <1>1, AddKeeps, RemoveKeeps, SelectKeeps DEF HostNext

\* The table starts empty.
LEMMA HostInitHolds == Init => HostInv
BY HostAssumption
   DEF Init, HostInit, HostInv, HostTypeOK, SelectedIsChosen, ConnectionsListed, Fd, HostSlot

\* After the removal of the selected host another one is selected.
LEMMA FallsBackStep ==
  ASSUME HostInv
  PROVE  \A fd \in Fd : rtr_remove(fd) /\ fd # 0 /\ (\E k \in HostSlot : rtr_host'[k] # 0)
           /\ rtr_n < RTR_MAX_HOSTS /\ rtr_host[rtr_n] # 0 =>
           rtr_n' < RTR_MAX_HOSTS /\ rtr_host'[rtr_n'] # 0
BY RemoveKeeps

\* The table of rtr.c lists the connections that are open and its selected
\* slot is that of the host the user means, for every size of the table.
THEOREM HostsCorrect == Spec => HostsTrue
<1>1. HostInv => HostTypeOK /\ SelectedIsChosen /\ ConnectionsListed
  BY DEF HostInv
<1>2. QED
  BY <1>1, HostInitHolds, HostSteps, HostNextKeeps, FallsBackStep, PTL
     DEF Spec, HostsTrue, FallsBack

------------------------------------------------------------------------------
(***************************************************************************)
(* Sections.  Only the type of the state is needed: the claims hold for    *)
(* every list of sections, however it came about.                          *)
(***************************************************************************)
\* The offset of an address that section_align does not remember.
Translated(a) ==
  IF Containing(a) # {}
  THEN sections[Greatest(Containing(a))].paddr + a - sections[Greatest(Containing(a))].from
  ELSE a - vaddr + paddr

\* What section_align returns and remembers.
LEMMA AlignFacts ==
  ASSUME NEW a, NEW last
  PROVE  /\ section_align(a, last).offset = IF a = last THEN last ELSE Translated(a)
         /\ section_align(a, last).last = IF a = last \/ Containing(a) # {} THEN last ELSE Translated(a)
BY DEF section_align, Translated

\* What radare_seek makes of a position.
LEMMA SeekFacts ==
  ASSUME NEW p, NEW a
  PROVE  /\ vaddr = 0 => /\ radare_seek(p, a).seek = a /\ radare_seek(p, a).offset = a
                         /\ radare_seek(p, a).last = p.last
         /\ vaddr # 0 => /\ radare_seek(p, a).seek = Absolute(a) - vaddr
                         /\ radare_seek(p, a).offset = section_align(Absolute(a), p.last).offset
                         /\ radare_seek(p, a).last = section_align(Absolute(a), p.last).last
BY DEF radare_seek

\* An element of a sequence is in the set the sequence is over.
LEMMA ElementOf ==
  ASSUME NEW S, NEW s \in Seq(S), NEW k \in DOMAIN s
  PROVE  s[k] \in S
OBVIOUS

\* An address becomes an offset of a file: no number is negative.
LEMMA TranslatedType ==
  ASSUME SecTypeOK, NEW a \in Nat, a >= vaddr
  PROVE  Translated(a) \in Nat
<1>1. vaddr \in Nat /\ paddr \in Nat
  BY SectionAssumption DEF SecTypeOK
<1>2. CASE Containing(a) = {}
  BY <1>1, <1>2 DEF Translated
<1>3. CASE Containing(a) # {}
  <2> DEFINE k == Greatest(Containing(a))
  <2>1. sections \in Seq([from : Nat, to : Nat, paddr : Nat, w : BOOLEAN])
    BY DEF SecTypeOK
  <2>2. Containing(a) \subseteq 0 .. Len(sections) /\ Containing(a) \subseteq DOMAIN sections
        /\ Len(sections) \in Nat
    BY <2>1 DEF Containing
  <2>3. \E x \in Containing(a) : \A y \in Containing(a) : y <= x
    BY <1>3, <2>2, Largest
  <2>4. k \in Containing(a)
    BY <2>3 DEF Greatest
  <2> HIDE DEF k
  <2>5. sections[k] \in [from : Nat, to : Nat, paddr : Nat, w : BOOLEAN] /\ k \in DOMAIN sections
    BY <2>1, <2>2, <2>4, ElementOf
  <2>6. sections[k].from \in Nat /\ sections[k].to \in Nat /\ sections[k].paddr \in Nat
    BY <2>5
  <2>7. a >= sections[k].from
    BY <2>4, <2>6 DEF Containing
  <2>8. sections[k].paddr + a - sections[k].from \in Nat
    BY <2>6, <2>7
  <2>9. QED BY <1>3, <2>8 DEF Translated, k
<1>4. QED BY <1>2, <1>3

\* A seek leads to a position.
LEMMA SeekType ==
  ASSUME SecTypeOK, NEW p \in [seek : Nat, offset : Nat, last : Nat], NEW a \in Nat
  PROVE  radare_seek(p, a) \in [seek : Nat, offset : Nat, last : Nat]
<1>1. vaddr \in Nat /\ p.last \in Nat
  BY SectionAssumption DEF SecTypeOK
<1>2. CASE vaddr = 0
  BY <1>1, <1>2 DEF radare_seek
<1>3. CASE vaddr # 0
  <2> DEFINE b == Absolute(a)
             t == section_align(b, p.last)
  <2>1. b \in Nat /\ b >= vaddr /\ b - vaddr \in Nat
    BY <1>1 DEF Absolute
  <2>2. radare_seek(p, a) = [seek |-> b - vaddr, offset |-> t.offset, last |-> t.last]
    BY <1>3 DEF radare_seek
  <2> HIDE DEF b
  <2>3. Translated(b) \in Nat
    BY <2>1, TranslatedType
  <2>4. t.offset \in Nat /\ t.last \in Nat
    <3>1. /\ t.offset = IF b = p.last THEN p.last ELSE Translated(b)
          /\ t.last = IF b = p.last \/ Containing(b) # {} THEN p.last ELSE Translated(b)
      BY AlignFacts
    <3> HIDE DEF t
    <3>2. QED BY <1>1, <2>3, <3>1
  <2> HIDE DEF t
  <2>5. QED BY <2>1, <2>2, <2>4
<1>4. QED BY <1>2, <1>3

\* Seeks, reads and writes elsewhere, and the commands on sections.
LEMMA SecNextKeeps == SecTypeOK /\ [SecNext]_secvars => SecTypeOK'
<1> SUFFICES ASSUME SecTypeOK, [SecNext]_secvars PROVE SecTypeOK'
  OBVIOUS
<1> DEFINE Section == [from : Nat, to : Nat, paddr : Nat, w : BOOLEAN]
           Position == [seek : Nat, offset : Nat, last : Nat]
<1>0. /\ sections \in Seq(Section) /\ Len(sections) <= MaxSections /\ Len(sections) \in Nat
      /\ vaddr \in Base /\ paddr \in Disk /\ pos \in Position /\ vaddr \in Nat
      /\ pos.seek \in Nat /\ MaxSections \in Nat /\ SecAddr \subseteq Nat
  BY SectionAssumption DEF SecTypeOK
<1>1. ASSUME NEW q \in Position, pos' = q, UNCHANGED <<sections, vaddr, paddr>> PROVE SecTypeOK'
  BY <1>0, <1>1 DEF SecTypeOK
<1>2. ASSUME NEW l \in Seq(Section), Len(l) <= MaxSections, sections' = l,
             UNCHANGED <<vaddr, paddr, pos>>
      PROVE  SecTypeOK'
  BY <1>0, <1>2 DEF SecTypeOK
<1>3. ASSUME NEW a \in SecAddr, Seek(a) \/ ReadAt(a) \/ \E n \in NestedReads : WriteAt(a, n)
      PROVE  SecTypeOK'
  <2>0. a \in Nat
    BY <1>0
  <2>1. ASSUME NEW p \in Position PROVE radare_seek(p, a) \in Position /\ radare_read_at(p, a) \in Position
    <3>1. radare_seek(p, a) \in Position /\ p.seek \in Nat
      BY <2>0, SeekType
    <3>2. radare_seek(radare_seek(p, a), p.seek) \in Position
      BY <3>1, SeekType
    <3> HIDE DEF Position
    <3>3. QED BY <3>1, <3>2 DEF radare_read_at
  <2>2. ASSUME NEW n PROVE BeforeWrite(pos, a, n) \in Position
    <3> HIDE DEF Position
    <3> QED BY <1>0, <2>1 DEF BeforeWrite
  <2>3. ASSUME NEW n PROVE radare_write_at(pos, a, n) \in Position
    <3>1. radare_seek(BeforeWrite(pos, a, n), pos.seek) \in Position
      BY <1>0, <2>2, SeekType
    <3> HIDE DEF Position
    <3>2. QED BY <1>0, <2>1, <3>1 DEF radare_write_at
  <2> HIDE DEF Position
  <2>4. QED BY <1>0, <1>1, <1>3, <2>1, <2>3 DEF Seek, ReadAt, WriteAt
<1>4. CASE radare_read
  <2>1. radare_seek(pos, pos.seek) \in Position
    BY <1>0, SeekType
  <2> HIDE DEF Position
  <2>2. QED BY <1>1, <1>4, <2>1 DEF radare_read, Seek
<1>5. CASE section_rm
  <2> DEFINE l == SubSeq(sections, 1, Len(sections) - 1)
  <2>1. Len(sections) >= 1
    BY <1>0, <1>5 DEF section_rm
  <2>2. l \in Seq(Section) /\ Len(l) <= MaxSections
    <3> HIDE DEF Section
    <3> QED BY <1>0, <2>1
  <2>3. sections' = l /\ UNCHANGED <<vaddr, paddr, pos>>
    BY <1>5 DEF section_rm
  <2> HIDE DEF l
  <2>4. QED BY <1>2, <2>2, <2>3
<1>6. ASSUME NEW len \in SecLen, NEW d \in Disk, section_add(len, d) PROVE SecTypeOK'
  <2> DEFINE s == [from |-> pos.seek + vaddr, to |-> pos.seek + len + vaddr, paddr |-> d, w |-> TRUE]
             l == <<s>> \o sections
  <2>1. s \in Section
    BY <1>0, SectionAssumption
  <2>2. sections' = l /\ UNCHANGED <<vaddr, paddr, pos>> /\ Len(sections) < MaxSections
    BY <1>6 DEF section_add
  <2>3. l \in Seq(Section) /\ Len(l) = Len(sections) + 1
    <3> HIDE DEF s, Section
    <3> QED BY <1>0, <2>1
  <2> HIDE DEF l
  <2>4. QED BY <1>0, <1>2, <2>2, <2>3
<1>7. ASSUME NEW new, section_set(new), \A k \in DOMAIN sections : new[k] \in Section PROVE SecTypeOK'
  <2> DEFINE l == [k \in DOMAIN sections |-> IF sections[k].from = pos.seek THEN new[k] ELSE sections[k]]
  <2>1. sections' = l /\ UNCHANGED <<vaddr, paddr, pos>>
    BY <1>7 DEF section_set
  <2>2. DOMAIN sections = 1 .. Len(sections) /\ \A k \in DOMAIN sections : sections[k] \in Section
    <3> HIDE DEF Section
    <3> QED BY <1>0
  <2>3. l \in [1 .. Len(sections) -> Section]
    <3> HIDE DEF Section
    <3> QED BY <1>7, <2>2
  <2> HIDE DEF l
  <2>4. l \in Seq(Section) /\ Len(l) = Len(sections)
    <3> HIDE DEF Section
    <3> QED BY <1>0, <2>3
  <2>5. QED BY <1>0, <1>2, <2>1, <2>4
<1>8. \A k \in DOMAIN sections : sections[k] \in Section
  <2> HIDE DEF Section
  <2> QED BY <1>0
<1>9. ASSUME NEW a \in SecAddr, SetEnd(a) PROVE SecTypeOK'
  <2> DEFINE new == [k \in DOMAIN sections |-> [sections[k] EXCEPT !.to = a]]
  <2>1. \A k \in DOMAIN sections : new[k] \in Section
    BY <1>0, <1>8
  <2>2. section_set(new)
    BY <1>9, Zenon DEF SetEnd
  <2> HIDE DEF new
  <2>3. QED BY <1>7, <2>1, <2>2
<1>10. ASSUME NEW d \in Disk, SetDisk(d) PROVE SecTypeOK'
  <2> DEFINE new == [k \in DOMAIN sections |-> [sections[k] EXCEPT !.paddr = d]]
  <2>1. \A k \in DOMAIN sections : new[k] \in Section
    BY <1>8, SectionAssumption
  <2>2. section_set(new)
    BY <1>10, Zenon DEF SetDisk
  <2> HIDE DEF new
  <2>3. QED BY <1>7, <2>1, <2>2
<1>11. ASSUME NEW w \in BOOLEAN, SetPerm(w) PROVE SecTypeOK'
  <2> DEFINE new == [k \in DOMAIN sections |-> [sections[k] EXCEPT !.w = w]]
  <2>1. \A k \in DOMAIN sections : new[k] \in Section
    BY <1>8
  <2>2. section_set(new)
    BY <1>11, Zenon DEF SetPerm
  <2> HIDE DEF new
  <2>3. QED BY <1>7, <2>1, <2>2
<1>12. ASSUME \/ \E d \in Disk : SetPaddr(d)
              \/ \E b \in Base : SetVaddr(b)
              \/ UNCHANGED secvars
       PROVE  SecTypeOK'
  BY <1>12 DEF SetPaddr, SetVaddr, secvars, SecTypeOK
<1>13. QED BY <1>3, <1>4, <1>5, <1>6, <1>9, <1>10, <1>11, <1>12 DEF SecNext

\* A step of another part leaves the sections alone.
LEMMA SecSteps == [Next]_vars => [SecNext]_secvars
BY DEF Next, vars, secvars, OnlyMacros

\* There is no section at first.
LEMMA SecInitHolds == Init => SecTypeOK
BY SectionAssumption DEF Init, SecInit, SecTypeOK

\* To translate an address again changes nothing.
LEMMA AlignAgain ==
  ASSUME NEW a, NEW last
  PROVE  /\ section_align(a, section_align(a, last).last).offset = section_align(a, last).offset
         /\ section_align(a, section_align(a, last).last).last = section_align(a, last).last
<1> DEFINE t == section_align(a, last)
<1>1. /\ t.offset = IF a = last THEN last ELSE Translated(a)
      /\ t.last = IF a = last \/ Containing(a) # {} THEN last ELSE Translated(a)
  BY AlignFacts
<1> HIDE DEF t
<1>2. /\ section_align(a, t.last).offset = IF a = t.last THEN t.last ELSE Translated(a)
      /\ section_align(a, t.last).last =
           IF a = t.last \/ Containing(a) # {} THEN t.last ELSE Translated(a)
  BY AlignFacts
<1>3. section_align(a, t.last).offset = t.offset /\ section_align(a, t.last).last = t.last
  BY <1>1, <1>2
<1>4. QED BY <1>3 DEF t

\* A seek to the same absolute address changes nothing.
LEMMA SeekAgain ==
  ASSUME NEW p, NEW a, NEW c,
         vaddr = 0 => c = a, vaddr # 0 => Absolute(c) = Absolute(a)
  PROVE  radare_seek(radare_seek(p, a), c) = radare_seek(p, a)
<1>1. CASE vaddr = 0
  BY <1>1 DEF radare_seek
<1>2. CASE vaddr # 0
  <2> DEFINE b == Absolute(a)
             t == section_align(b, p.last)
             q == [seek |-> b - vaddr, offset |-> t.offset, last |-> t.last]
  <2>1. radare_seek(p, a) = q
    BY <1>2 DEF radare_seek
  <2>2. section_align(b, t.last).offset = t.offset /\ section_align(b, t.last).last = t.last
    BY AlignAgain
  <2>3. Absolute(c) = b
    BY <1>2
  <2> HIDE DEF b, t
  <2>4. q.last = t.last
    OBVIOUS
  <2>5. radare_seek(q, c) = [seek |-> b - vaddr, offset |-> section_align(b, t.last).offset,
                             last |-> section_align(b, t.last).last]
    BY <1>2, <2>3, <2>4 DEF radare_seek
  <2>6. radare_seek(q, c) = q
    BY <2>2, <2>5
  <2>7. QED BY <2>1, <2>6
<1>3. QED BY <1>1, <1>2

\* A relative position means the absolute address that led there.
LEMMA RelativeMeans ==
  ASSUME SecTypeOK, NEW p, NEW a \in Nat, Relative(radare_seek(p, a))
  PROVE  /\ vaddr = 0 => radare_seek(p, a).seek = a
         /\ vaddr # 0 => Absolute(radare_seek(p, a).seek) = Absolute(a)
<1>1. vaddr \in Nat /\ Absolute(a) \in Nat /\ Absolute(a) >= vaddr
  BY SectionAssumption DEF SecTypeOK, Absolute
<1>2. CASE vaddr = 0
  BY <1>2, SeekFacts
<1>3. CASE vaddr # 0
  <2>1. radare_seek(p, a).seek = Absolute(a) - vaddr
    BY <1>3, SeekFacts
  <2>2. radare_seek(p, a).seek < vaddr
    BY <1>3 DEF Relative
  <2> DEFINE s == radare_seek(p, a).seek
             b == Absolute(a)
  <2>3. s < vaddr /\ s = b - vaddr /\ b \in Nat
    BY <1>1, <2>1, <2>2
  <2> HIDE DEF s, b
  <2>4. Absolute(s) = b
    BY <1>1, <2>3 DEF Absolute
  <2>5. QED BY <1>3, <2>4 DEF s, b
<1>4. QED BY <1>2, <1>3

\* The addresses the properties ask about.
LEMMA AskedNat == Asked \subseteq Nat
BY SectionAssumption DEF Asked

\* Seeks can be repeated: the second translation of an address is the first.
LEMMA StableSeeks == SecTypeOK => SeekIsStable
<1> SUFFICES ASSUME SecTypeOK, NEW a \in Asked, Relative(radare_seek(pos, a))
             PROVE  LET p == radare_seek(pos, a)
                    IN  /\ radare_seek(p, p.seek).seek = p.seek
                        /\ radare_seek(p, p.seek).offset = p.offset
  BY DEF SeekIsStable
<1> DEFINE p == radare_seek(pos, a)
<1>1. radare_seek(p, p.seek) = p
  BY AskedNat, RelativeMeans, SeekAgain
<1> HIDE DEF p
<1>2. QED BY <1>1 DEF p

\* The offset of an address depends on what was translated before only when
\* it equals an offset section_align remembers, and reads of a relative
\* address between the seek and the write change nothing.
LEMMA WritesWhereRead == SecTypeOK => WriteWhereRead
<1> SUFFICES ASSUME SecTypeOK, NEW a \in Asked, NEW n,
                    vaddr = 0 \/ Absolute(a) \notin {pos.last, radare_read_at(pos, a).last},
                    n = 0 \/ Relative(radare_seek(pos, a))
             PROVE  BeforeWrite(radare_read_at(pos, a), a, n).offset = radare_seek(pos, a).offset
  BY DEF WriteWhereRead
<1> DEFINE p == radare_read_at(pos, a)
           there == radare_seek(p, a)
<1>1. there.offset = radare_seek(pos, a).offset /\ there.seek = radare_seek(pos, a).seek
  <2> HIDE DEF p
  <2>1. CASE vaddr = 0
    BY <2>1, SeekFacts
  <2>2. CASE vaddr # 0
    <3>1. Absolute(a) # pos.last /\ Absolute(a) # p.last
      BY <2>2 DEF p
    <3>2. section_align(Absolute(a), p.last).offset = section_align(Absolute(a), pos.last).offset
      BY <3>1, AlignFacts
    <3>3. QED BY <2>2, <3>2, SeekFacts
  <2>3. QED BY <2>1, <2>2
<1>2. BeforeWrite(p, a, n) = there
  <2>1. CASE n = 0
    BY <2>1 DEF BeforeWrite
  <2>2. CASE n # 0
    <3>1. Relative(there)
      BY <1>1, <2>2 DEF Relative
    <3> HIDE DEF p
    <3>2. radare_seek(there, a) = there
      BY SeekAgain
    <3>3. radare_seek(there, there.seek) = there
      BY <3>1, AskedNat, RelativeMeans, SeekAgain
    <3> HIDE DEF there
    <3>4. radare_read_at(there, a) = there
      BY <3>2, <3>3 DEF radare_read_at
    <3>5. QED BY <3>4 DEF BeforeWrite, there
  <2>3. QED BY <2>1, <2>2
<1> HIDE DEF there
<1>3. QED BY <1>1, <1>2

\* A write that reads first, at an address whose position is not relative: the
\* read seeks back to the absolute address of that name.
LEMMA SlippingWrites == SecTypeOK => WriteSlips
<1> SUFFICES ASSUME SecTypeOK, NEW a \in Asked, ~Relative(radare_seek(pos, a))
             PROVE  LET there == radare_seek(pos, a)
                    IN  /\ BeforeWrite(pos, a, 1).seek = there.seek - vaddr
                        /\ BeforeWrite(pos, a, 2).seek <= there.seek - vaddr
                        /\ there.seek \notin {pos.last, there.last} =>
                             BeforeWrite(pos, a, 1).offset = radare_seek(pos, there.seek).offset
  BY DEF WriteSlips
<1> DEFINE there == radare_seek(pos, a)
           s == there.seek
           recorded == radare_seek(there, s)
<1>1. vaddr \in Nat /\ vaddr # 0 /\ Absolute(a) \in Nat
  BY AskedNat, SectionAssumption DEF SecTypeOK, Absolute, Relative
<1>2. s \in Nat /\ s >= vaddr
  <2>1. s = Absolute(a) - vaddr
    BY <1>1, SeekFacts
  <2>2. ~(s < vaddr)
    BY DEF Relative
  <2> HIDE DEF s
  <2>3. QED BY <1>1, <2>1, <2>2
<1>3. radare_read_at(there, a) = recorded
  <2>1. radare_seek(there, a) = there
    BY SeekAgain
  <2> HIDE DEF there
  <2>2. QED BY <2>1 DEF radare_read_at
<1> HIDE DEF there, s
<1>4. Absolute(s) = s
  BY <1>1, <1>2 DEF Absolute
<1>5. recorded.seek = s - vaddr /\ recorded.offset = section_align(s, there.last).offset
  BY <1>1, <1>4, SeekFacts
<1>6. s \notin {pos.last, there.last} => recorded.offset = radare_seek(pos, s).offset
  <2>1. radare_seek(pos, s).offset = section_align(s, pos.last).offset
    BY <1>1, <1>4, SeekFacts
  <2>2. QED BY <1>5, <2>1, AlignFacts
<1> HIDE DEF recorded
<1>7. radare_read_at(recorded, a).seek <= s - vaddr
  <2>1. radare_read_at(recorded, a).seek = Absolute(s - vaddr) - vaddr
    BY <1>1, <1>5, SeekFacts DEF radare_read_at
  <2>2. Absolute(s - vaddr) <= s /\ Absolute(s - vaddr) \in Nat
    BY <1>1, <1>2 DEF Absolute
  <2>3. QED BY <1>1, <1>2, <2>1, <2>2
<1>8. BeforeWrite(pos, a, 1) = recorded /\ BeforeWrite(pos, a, 2) = radare_read_at(recorded, a)
  BY <1>3 DEF BeforeWrite, there
<1>9. QED BY <1>5, <1>6, <1>7, <1>8 DEF there, s

\* A read or write elsewhere comes back.
LEMMA SeeksComeBack == SecTypeOK => ComesBack
<1> SUFFICES ASSUME SecTypeOK, Relative(pos), NEW p PROVE radare_seek(p, pos.seek).seek = pos.seek
  BY DEF ComesBack, radare_read_at, radare_write_at
<1>1. vaddr \in Nat /\ pos.seek \in Nat
  BY SectionAssumption DEF SecTypeOK
<1>2. CASE vaddr = 0
  BY <1>2, SeekFacts
<1>3. CASE vaddr # 0
  <2>1. Absolute(pos.seek) - vaddr = pos.seek
    BY <1>1, <1>3 DEF Absolute, Relative
  <2>2. QED BY <1>3, <2>1, SeekFacts
<1>4. QED BY <1>2, <1>3

\* For every list of sections and every value of io.vaddr and io.paddr, seeks
\* can be repeated, reads and writes elsewhere come back, and a write hits the
\* byte a read of the same address showed.  Excepted are an address that equals
\* an offset section_align remembers, and a write with file.undowrite or a mask
\* at an address at or above twice io.vaddr: the read in radare_write_at moves
\* the descriptor, and it is stated to which address.
THEOREM SectionsCorrect == Spec => []SectionsTrue
<1>1. SecTypeOK => SectionsTrue
  BY StableSeeks, WritesWhereRead, SlippingWrites, SeeksComeBack DEF SectionsTrue
<1>2. QED BY <1>1, SecInitHolds, SecSteps, SecNextKeeps, PTL DEF Spec

------------------------------------------------------------------------------
(***************************************************************************)
(* IO maps.  The invariant says what makes undoing everything safe: for an *)
(* address that was never written through a map, the oldest entry of the   *)
(* history that covers it holds the byte the open file had at first, and   *)
(* without an entry the file still has it.                                 *)
(***************************************************************************)
Covers(i, a) == a - undow[i].off + 1 \in 1 .. Len(undow[i].o)
OldByte(i, a) == undow[i].o[a - undow[i].off + 1]
Oldest(i, a) == i \in DOMAIN undow /\ Covers(i, a) /\ \A j \in DOMAIN undow : Covers(j, a) => i <= j

OldestKnowsOriginal ==
  \A a \in IoAddr \ through :
    /\ (\A i \in DOMAIN undow : ~Covers(i, a)) => main[a] = Original[a]
    /\ \A i \in DOMAIN undow : Oldest(i, a) => OldByte(i, a) = Original[a]

MapInv == IoTypeOK /\ OldestKnowsOriginal

\* What the type of the history says of one of its entries.
LEMMA EntryFacts ==
  ASSUME IoTypeOK, NEW i \in DOMAIN undow
  PROVE  /\ undow[i].off \in Nat /\ undow[i].off \in IoAddr
         /\ undow[i].o \in Seq(Bytes) /\ undow[i].n \in Seq(Bytes)
         /\ Len(undow[i].o) \in Nat /\ Len(undow[i].o) = Len(undow[i].n)
         /\ DOMAIN undow[i].o = 1 .. Len(undow[i].o) /\ DOMAIN undow[i].n = 1 .. Len(undow[i].o)
<1>1. undow[i] \in [off : IoAddr, n : Seq(Bytes), o : Seq(Bytes)]
  BY ElementOf DEF IoTypeOK
<1>2. undow[i].off \in IoAddr /\ undow[i].o \in Seq(Bytes) /\ undow[i].n \in Seq(Bytes)
  BY <1>1
<1>3. Len(undow[i].o) = Len(undow[i].n)
  BY DEF IoTypeOK
<1>4. undow[i].off \in Nat
  BY <1>2 DEF IoAddr
<1>5. QED BY <1>2, <1>3, <1>4

\* A write changes the addresses its data covers and no others.
LEMMA WrittenFacts ==
  ASSUME NEW f \in [IoAddr -> Bytes], NEW off \in Nat, NEW bytes \in Seq(Bytes)
  PROVE  /\ Written(f, off, bytes) \in [IoAddr -> Bytes]
         /\ \A a \in IoAddr :
              Written(f, off, bytes)[a] = IF a - off + 1 \in 1 .. Len(bytes) THEN bytes[a - off + 1] ELSE f[a]
<1>1. DOMAIN bytes = 1 .. Len(bytes) /\ \A k \in DOMAIN bytes : bytes[k] \in Bytes
  BY ElementOf
<1>2. \A a \in IoAddr : Written(f, off, bytes)[a] = IF a - off + 1 \in DOMAIN bytes THEN bytes[a - off + 1] ELSE f[a]
  BY DEF Written
<1>3. \A a \in IoAddr : Written(f, off, bytes)[a] \in Bytes
  BY <1>1, <1>2
<1>4. Written(f, off, bytes) \in [IoAddr -> Bytes]
  BY <1>3 DEF Written
<1>5. QED BY <1>1, <1>2, <1>4

\* The same for one address.
LEMMA WrittenAt ==
  ASSUME NEW f \in [IoAddr -> Bytes], NEW off \in Nat, NEW bytes \in Seq(Bytes), NEW a \in IoAddr
  PROVE  Written(f, off, bytes)[a] = IF a - off + 1 \in 1 .. Len(bytes) THEN bytes[a - off + 1] ELSE f[a]
BY WrittenFacts

\* Undoing everything visits the entries from the newest to the oldest.
LEMMA UndoAllUnfolds ==
  ASSUME IoTypeOK, NEW f \in [IoAddr -> Bytes]
  PROVE  \E g \in [0 .. Len(undow) -> [IoAddr -> Bytes]] :
            /\ UndoAll(f) = g[Len(undow)] /\ g[0] = f
            /\ \A k \in 1 .. Len(undow) :
                 LET u == undow[Len(undow) + 1 - k] IN g[k] = Written(g[k - 1], u.off, u.o)
<1> DEFINE n == Len(undow)
           V == [IoAddr -> Bytes]
           at(k) == undow[Len(undow) + 1 - k]
           Value(h, k) == IF k = 0 THEN f ELSE Written(h[k - 1], at(k).off, at(k).o)
           step == [k \in 1 .. n |-> [w \in V |-> Written(w, at(k).off, at(k).o)]]
<1>1. n \in Nat /\ DOMAIN undow = 1 .. n
  BY DEF IoTypeOK
<1>2. ASSUME NEW k \in 1 .. n, NEW w \in V PROVE Written(w, at(k).off, at(k).o) \in V
  <2>1. n + 1 - k \in DOMAIN undow
    BY <1>1
  <2>2. at(k).off \in Nat /\ at(k).o \in Seq(Bytes)
    BY <2>1, EntryFacts
  <2> HIDE DEF at
  <2>3. QED BY <2>2, WrittenFacts
<1>3. step \in Steps(n, V)
  <2>1. \A k \in 1 .. n : [w \in V |-> Written(w, at(k).off, at(k).o)] \in [V -> V]
    BY <1>2
  <2> HIDE DEF V, at
  <2>2. QED BY <2>1 DEF Steps
<1>4. PICK g : Iterates(g, n, V, f, step)
  <2> HIDE DEF step, n, V
  <2>1. f \in V
    BY DEF V
  <2>2. QED BY <1>1, <1>3, <2>1, Recursion
<1>5. g \in [0 .. n -> V] /\ g[0] = f /\ \A k \in 1 .. n : g[k] = step[k][g[k - 1]]
  BY <1>4, Zenon DEF Iterates
<1>6. ASSUME NEW k \in 1 .. n PROVE g[k] = Written(g[k - 1], at(k).off, at(k).o)
  <2>1. g[k - 1] \in V
    BY <1>1, <1>5
  <2>2. step[k][g[k - 1]] = Written(g[k - 1], at(k).off, at(k).o)
    <3> HIDE DEF V, at
    <3> QED BY <2>1
  <2>3. QED BY <1>5, <2>2
<1>7. g = [k \in 0 .. n |-> Value(g, k)]
  <2>1. ASSUME NEW k \in 0 .. n PROVE g[k] = Value(g, k)
    <3>1. k = 0 \/ k \in 1 .. n
      BY <1>1
    <3> HIDE DEF at
    <3>2. QED BY <3>1, <1>5, <1>6
  <2> HIDE DEF Value
  <2>2. QED BY <2>1, <1>5
<1> DEFINE c == CHOOSE c : c = [k \in 0 .. n |-> Value(c, k)]
<1>8. c = [k \in 0 .. n |-> Value(c, k)]
  <2> HIDE DEF Value
  <2> QED BY <1>7
<1>9. UndoAll(f) = c[n]
  BY Zenon DEF UndoAll
<1> HIDE DEF c
<1>10. \A k \in 0 .. n : c[k] = Value(c, k) /\ g[k] = Value(g, k)
  <2> HIDE DEF Value
  <2> QED BY <1>7, <1>8
<1>11. c[n] = g[n]
  <2> DEFINE P == {k \in 0 .. n : c[k] = g[k]}
  <2>1. 0 \in P
    BY <1>1, <1>10
  <2>2. ASSUME NEW k \in 1 .. n, k - 1 \in P PROVE k \in P
    <3>1. c[k - 1] = g[k - 1] /\ k \in 0 .. n /\ k # 0
      BY <1>1, <2>2
    <3> HIDE DEF at
    <3>2. QED BY <3>1, <1>10
  <2>3. \A k \in 1 .. n : k - 1 \in P => k \in P
    BY <2>2
  <2> HIDE DEF P
  <2>4. \A k \in 0 .. n : k \in P
    BY <1>1, <2>1, <2>3, Climbs
  <2>5. n \in P
    BY <2>4, <1>1
  <2>6. QED BY <2>5 DEF P
<1>12. QED BY <1>5, <1>6, <1>9, <1>11

\* Undoing everything gives an address the byte that the oldest entry noted
\* for it, and leaves an address no entry covers alone.
LEMMA UndoAllFacts ==
  ASSUME IoTypeOK, NEW f \in [IoAddr -> Bytes], NEW a \in IoAddr
  PROVE  /\ UndoAll(f) \in [IoAddr -> Bytes]
         /\ (\A i \in DOMAIN undow : ~Covers(i, a)) => UndoAll(f)[a] = f[a]
         /\ \A i \in DOMAIN undow : Oldest(i, a) => UndoAll(f)[a] = OldByte(i, a)
<1> DEFINE n == Len(undow)
           V == [IoAddr -> Bytes]
<1>1. PICK g \in [0 .. n -> V] :
         /\ UndoAll(f) = g[n] /\ g[0] = f
         /\ \A k \in 1 .. n : LET u == undow[n + 1 - k] IN g[k] = Written(g[k - 1], u.off, u.o)
  BY UndoAllUnfolds
<1>2. n \in Nat /\ DOMAIN undow = 1 .. n
  BY DEF IoTypeOK
<1>3. ASSUME NEW k \in 1 .. n
      PROVE  /\ n + 1 - k \in DOMAIN undow
             /\ g[k][a] = IF Covers(n + 1 - k, a) THEN OldByte(n + 1 - k, a) ELSE g[k - 1][a]
  <2> DEFINE i == n + 1 - k
  <2>1. i \in DOMAIN undow /\ k - 1 \in 0 .. n
    BY <1>2
  <2>2. undow[i].off \in Nat /\ undow[i].o \in Seq(Bytes)
    BY <2>1, EntryFacts
  <2>3. g[k] = Written(g[k - 1], undow[i].off, undow[i].o)
    BY <1>1
  <2>4. g[k - 1] \in V
    BY <1>1, <2>1
  <2> HIDE DEF i
  <2>5. g[k][a] = IF a - undow[i].off + 1 \in 1 .. Len(undow[i].o)
                  THEN undow[i].o[a - undow[i].off + 1] ELSE g[k - 1][a]
    <3> DEFINE w == g[k - 1]
               x == undow[i].off
               y == undow[i].o
    <3>1. w \in [IoAddr -> Bytes] /\ x \in Nat /\ y \in Seq(Bytes)
      BY <2>2, <2>4
    <3> HIDE DEF w, x, y
    <3>2. Written(w, x, y)[a] = IF a - x + 1 \in 1 .. Len(y) THEN y[a - x + 1] ELSE w[a]
      BY <3>1, WrittenFacts
    <3>3. QED BY <3>2, <2>3 DEF w, x, y
  <2>6. g[k][a] = IF Covers(i, a) THEN OldByte(i, a) ELSE g[k - 1][a]
    BY <2>5 DEF Covers, OldByte
  <2>7. QED BY <2>1, <2>6 DEF i
<1>4. UndoAll(f) \in V
  <2>1. n \in 0 .. n
    BY <1>2
  <2> HIDE DEF n, V
  <2>2. QED BY <1>1, <2>1
<1>5. ASSUME \A i \in DOMAIN undow : ~Covers(i, a) PROVE UndoAll(f)[a] = f[a]
  <2> DEFINE P == {k \in 0 .. n : g[k][a] = f[a]}
  <2>1. 0 \in P
    BY <1>1, <1>2
  <2>2. ASSUME NEW k \in 1 .. n, k - 1 \in P PROVE k \in P
    <3>1. g[k - 1][a] = f[a] /\ k \in 0 .. n
      BY <1>2, <2>2
    <3>2. g[k][a] = g[k - 1][a]
      BY <1>3, <1>5
    <3>3. QED BY <3>1, <3>2
  <2>3. \A k \in 1 .. n : k - 1 \in P => k \in P
    BY <2>2
  <2> HIDE DEF P
  <2>4. \A k \in 0 .. n : k \in P
    BY <1>2, <2>1, <2>3, Climbs
  <2>5. n \in P
    BY <2>4, <1>2
  <2>6. QED BY <2>5, <1>1 DEF P
<1>6. ASSUME NEW i \in DOMAIN undow, Oldest(i, a) PROVE UndoAll(f)[a] = OldByte(i, a)
  <2>0. Covers(i, a) /\ \A j \in DOMAIN undow : Covers(j, a) => i <= j
    BY <1>6 DEF Oldest
  <2> DEFINE P == {k \in 0 .. n : k >= n + 1 - i => g[k][a] = OldByte(i, a)}
  <2>1. 0 \in P
    BY <1>2
  <2>2. ASSUME NEW k \in 1 .. n, k - 1 \in P PROVE k \in P
    <3>1. k \in 0 .. n /\ (k - 1 >= n + 1 - i => g[k - 1][a] = OldByte(i, a))
      BY <1>2, <2>2
    <3>2. CASE k = n + 1 - i
      <4>1. n + 1 - k = i
        BY <1>2, <3>2
      <4>2. g[k][a] = OldByte(i, a)
        BY <1>3, <2>0, <4>1
      <4>3. QED BY <3>1, <4>2
    <3>3. CASE k > n + 1 - i
      <4>1. ~(i <= n + 1 - k) /\ k - 1 >= n + 1 - i
        BY <1>2, <3>3
      <4>2. ~Covers(n + 1 - k, a)
        BY <1>3, <2>0, <4>1
      <4>3. g[k][a] = OldByte(i, a)
        BY <1>3, <3>1, <4>1, <4>2
      <4>4. QED BY <3>1, <4>3
    <3>4. CASE k < n + 1 - i
      BY <1>2, <3>1, <3>4
    <3>5. QED BY <1>2, <3>2, <3>3, <3>4
  <2>3. \A k \in 1 .. n : k - 1 \in P => k \in P
    BY <2>2
  <2> HIDE DEF P
  <2>4. \A k \in 0 .. n : k \in P
    BY <1>2, <2>1, <2>3, Climbs
  <2>5. n \in P /\ n >= n + 1 - i
    BY <2>4, <1>2
  <2>6. QED BY <2>5, <1>1 DEF P
<1>7. QED BY <1>4, <1>5, <1>6

\* The bytes io_read gives are bytes of the open file, of a map, or none.
LEMMA ReadFacts ==
  ASSUME IoTypeOK, NEW off \in IoAddr, NEW len \in Nat
  PROVE  /\ io_read(off, len) \in Seq(Bytes) /\ Len(io_read(off, len)) = len
<1> DEFINE r == io_map_read_at(off, len)
           S == Holding(off)
           m == maps[CHOOSE i \in S : \A j \in S : i <= j]
           first == off - m.from + m.delta
           q == IF off + len > m.to THEN m.to - off ELSE len
<1>1. maps \in Seq([file : MapFile, from : IoAddr, to : Nat, delta : Nat]) /\ IoAddr \subseteq Nat
  BY DEF IoTypeOK, IoAddr
<1>2. S \subseteq DOMAIN maps /\ DOMAIN maps \subseteq Nat
  BY <1>1 DEF Holding
<1>3. ASSUME S # {}
      PROVE  /\ m \in [file : MapFile, from : IoAddr, to : Nat, delta : Nat]
             /\ off >= m.from /\ off < m.to
  <2> DEFINE c == CHOOSE i \in S : \A j \in S : i <= j
  <2>1. \E i \in S : \A j \in S : i <= j
    <3> HIDE DEF S
    <3> QED BY <1>2, <1>3, Smallest
  <2>2. c \in S
    <3> HIDE DEF S
    <3> QED BY <2>1
  <2> HIDE DEF c
  <2>3. m = maps[c]
    BY DEF c
  <2>4. c \in DOMAIN maps /\ off >= maps[c].from /\ off < maps[c].to
    BY <2>2 DEF Holding
  <2>5. maps[c] \in [file : MapFile, from : IoAddr, to : Nat, delta : Nat]
    BY <1>1, <2>4, ElementOf
  <2> HIDE DEF m
  <2>6. QED BY <2>3, <2>4, <2>5
<1>4. r = IF S = {} THEN <<>>
          ELSE [i \in {k \in 1 .. q : first + k - 1 < MapLen[m.file]} |-> <<m.file, first + i - 1>>]
  BY DEF io_map_read_at, ReadMap
<1> HIDE DEF r, m, S
<1>5. ASSUME NEW i \in DOMAIN r PROVE r[i] \in Bytes
  <2>1. S # {}
    BY <1>4
  <2>2. /\ m.file \in MapFile /\ m.from \in Nat /\ m.delta \in Nat /\ m.to \in Nat
        /\ off \in Nat /\ off >= m.from /\ off < m.to
    BY <1>1, <1>3, <2>1
  <2>3. i \in 1 .. q /\ first + i - 1 < MapLen[m.file] /\ r[i] = <<m.file, first + i - 1>>
    BY <1>4, <2>1
  <2>4. MapLen[m.file] \in Nat
    BY <2>2, MapAssumption
  <2>5. first + i - 1 \in 0 .. MapLen[m.file] - 1
    BY <2>2, <2>3, <2>4
  <2> HIDE DEF first
  <2>6. r[i] \in UNION {{<<f, o>> : o \in 0 .. MapLen[f] - 1} : f \in MapFile}
    BY <2>2, <2>3, <2>5
  <2>7. QED BY <2>6 DEF Bytes
<1>6. ASSUME NEW i \in 1 .. len PROVE io_read(off, len)[i] \in Bytes
  <2>1. Pad \in Bytes
    BY DEF Bytes
  <2>2. off + i - 1 \in IoAddr => main[off + i - 1] \in Bytes
    BY DEF IoTypeOK
  <2>3. io_read(off, len)[i] = CASE i \in DOMAIN r -> r[i]
                            [] r = <<>> /\ off + i - 1 \in IoAddr -> main[off + i - 1]
                            [] OTHER -> Pad
    BY DEF io_read, r
  <2>4. QED BY <1>5, <2>1, <2>2, <2>3
<1>7. io_read(off, len) = [i \in 1 .. len |-> io_read(off, len)[i]]
  BY DEF io_read
<1>8. QED BY <1>6, <1>7

\* A block that is read holds at every address the byte of that address.
LEMMA BlocksTrue == IoTypeOK => BlockTrue
<1> SUFFICES ASSUME IoTypeOK, NEW off \in IoAddr, NEW len \in 1 .. 3, NEW i \in 1 .. len
             PROVE  LET block == io_read(off, len)
                        newest == {k \in Holding(off) : \A j \in Holding(off) : k <= j}
                        owed(m, a) == <<m.file, a - m.from + m.delta>>
                        given(m) == off - m.from + m.delta < MapLen[m.file]
                        a == off + i - 1
                    IN  \/ \E k \in newest : given(maps[k]) /\ a < maps[k].to /\ block[i] = owed(maps[k], a)
                        \/ a \in IoAddr /\ block[i] = main[a] /\ \A k \in newest : ~given(maps[k])
                        \/ i > 1 /\ block[i] = Pad
                        \/ a \notin IoAddr /\ block[i] = Pad
  BY DEF BlockTrue
<1> DEFINE r == io_map_read_at(off, len)
           S == Holding(off)
           c == CHOOSE k \in S : \A j \in S : k <= j
           m == maps[c]
           first == off - m.from + m.delta
           q == IF off + len > m.to THEN m.to - off ELSE len
           a == off + i - 1
           newest == {k \in S : \A j \in S : k <= j}
           block == io_read(off, len)
           given(x) == off - x.from + x.delta < MapLen[x.file]
<1>1. /\ maps \in Seq([file : MapFile, from : IoAddr, to : Nat, delta : Nat])
      /\ IoAddr = 0 .. MaxIoAddr /\ MaxIoAddr \in Nat /\ off \in Nat
  BY MapAssumption DEF IoTypeOK, IoAddr
<1>2. S \subseteq DOMAIN maps /\ DOMAIN maps \subseteq Nat
  BY <1>1 DEF Holding
<1>3. ASSUME S # {}
      PROVE  /\ newest = {c} /\ m \in [file : MapFile, from : IoAddr, to : Nat, delta : Nat]
             /\ off >= m.from /\ off < m.to
  <2>1. \E k \in S : \A j \in S : k <= j
    <3> HIDE DEF S
    <3> QED BY <1>2, <1>3, Smallest
  <2>2. c \in S /\ \A j \in S : c <= j
    <3> HIDE DEF S
    <3> QED BY <2>1
  <2> HIDE DEF c
  <2>3. newest = {c}
    <3> HIDE DEF S
    <3>1. ASSUME NEW k \in newest PROVE k = c
      <4>1. k \in Nat /\ c \in Nat /\ k <= c /\ c <= k
        BY <1>2, <2>2
      <4>2. QED BY <4>1
    <3>2. QED BY <2>2, <3>1
  <2>4. c \in DOMAIN maps /\ off >= maps[c].from /\ off < maps[c].to
    BY <2>2 DEF Holding
  <2>5. maps[c] \in [file : MapFile, from : IoAddr, to : Nat, delta : Nat]
    BY <1>1, <2>4, ElementOf
  <2>6. QED BY <2>3, <2>4, <2>5
<1>4. r = IF S = {} THEN <<>>
          ELSE [j \in {k \in 1 .. q : first + k - 1 < MapLen[m.file]} |-> <<m.file, first + j - 1>>]
  BY DEF io_map_read_at, ReadMap
<1>5. block[i] = CASE i \in DOMAIN r -> r[i]
                   [] r = <<>> /\ a \in IoAddr -> main[a]
                   [] OTHER -> Pad
  BY DEF io_read
<1> HIDE DEF r, c, S, block
<1>6. CASE S = {}
  <2>1. r = <<>> /\ newest = {}
    BY <1>4, <1>6
  <2>2. block[i] = IF a \in IoAddr THEN main[a] ELSE Pad
    BY <1>5, <2>1
  <2>3. QED BY <2>1, <2>2 DEF block, S
<1>7. CASE S # {}
  <2>1. /\ m.file \in MapFile /\ m.from \in Nat /\ m.to \in Nat /\ m.delta \in Nat
        /\ off >= m.from /\ off < m.to /\ newest = {c} /\ MapLen[m.file] \in Nat
    BY <1>1, <1>3, <1>7, MapAssumption
  <2>2. r = [j \in {k \in 1 .. q : first + k - 1 < MapLen[m.file]} |-> <<m.file, first + j - 1>>]
    BY <1>4, <1>7
  <2>0. /\ first \in Nat /\ q \in Nat /\ q >= 1 /\ q <= m.to - off /\ i \in Nat /\ i >= 1
        /\ first + i - 1 = a - m.from + m.delta
    <3> DEFINE x == m.from
               y == m.to
               z == m.delta
    <3>1. x \in Nat /\ y \in Nat /\ z \in Nat /\ off \in Nat /\ off >= x /\ off < y
      BY <1>1, <2>1
    <3>2. len \in Nat /\ len >= 1 /\ i \in Nat /\ i >= 1
      OBVIOUS
    <3> HIDE DEF x, y, z
    <3>3. first = off - x + z /\ q = IF off + len > y THEN y - off ELSE len
      BY DEF x, y, z
    <3> HIDE DEF first, q
    <3>4. first \in Nat /\ q \in Nat /\ q >= 1 /\ q <= y - off /\ first + i - 1 = a - x + z
      BY <3>1, <3>2, <3>3
    <3>5. QED BY <3>2, <3>4 DEF x, y, z
  <2> HIDE DEF first, q
  <2>3. CASE i \in DOMAIN r
    <3>1. /\ i \in 1 .. q /\ first + i - 1 < MapLen[m.file] /\ block[i] = <<m.file, first + i - 1>>
      BY <1>5, <2>2, <2>3
    <3>2. first < MapLen[m.file] /\ a < m.to /\ first + i - 1 = a - m.from + m.delta
      <4> DEFINE L == MapLen[m.file]
                 y == m.to
      <4>1. /\ first \in Nat /\ q \in Nat /\ i \in Nat /\ i >= 1 /\ i <= q /\ q <= y - off
            /\ L \in Nat /\ first + i - 1 < L /\ y \in Nat /\ off \in Nat
        <5> HIDE DEF m
        <5>1. off \in Nat /\ y \in Nat /\ L \in Nat
          BY <1>1, <2>1
        <5>2. i <= q
          BY <2>0, <3>1
        <5>3. QED BY <2>0, <3>1, <5>1, <5>2
      <4> HIDE DEF L, y
      <4>2. first < L /\ off + i - 1 < y
        BY <4>1
      <4>3. QED BY <2>0, <4>2 DEF L, y
    <3>3. \E k \in newest : given(maps[k]) /\ a < maps[k].to
                            /\ block[i] = <<maps[k].file, a - maps[k].from + maps[k].delta>>
      BY <2>1, <3>1, <3>2 DEF first
    <3>4. QED BY <3>3 DEF block, S
  <2>4. CASE r = <<>>
    <3>1. i \notin DOMAIN r /\ 1 \notin DOMAIN r
      BY <2>4
    <3>2. block[i] = IF a \in IoAddr THEN main[a] ELSE Pad
      BY <1>5, <2>4, <3>1
    <3>3. 1 \in 1 .. q
      BY <2>0
    <3>4. ~(first < MapLen[m.file])
      BY <2>0, <2>2, <3>1, <3>3
    <3>5. \A k \in newest : ~given(maps[k])
      BY <2>1, <3>4 DEF first
    <3>6. QED BY <3>2, <3>5 DEF block, S
  <2>5. CASE i \notin DOMAIN r /\ r # <<>>
    <3>1. block[i] = Pad
      BY <1>5, <2>5
    <3>2. 1 \in DOMAIN r
      <4>1. PICK k \in DOMAIN r : TRUE
        BY <2>2, <2>5
      <4>2. k \in 1 .. q /\ first + k - 1 < MapLen[m.file]
        BY <2>2
      <4>3. 1 \in 1 .. q /\ first + 1 - 1 < MapLen[m.file]
        <5> HIDE DEF m
        <5> QED BY <2>0, <2>1, <4>2
      <4>4. QED BY <2>2, <4>3
    <3>3. i > 1
      BY <2>5, <3>2
    <3>4. QED BY <3>1, <3>3 DEF block
  <2>6. QED BY <2>3, <2>4, <2>5
<1>8. QED BY <1>6, <1>7

\* A write notes what the file had, or is noted already.
LEMMA MapWriteKeeps ==
  ASSUME MapInv, NEW off \in IoAddr, NEW v \in UserByte, NEW len \in IoLen, MapWrite(off, v, len)
  PROVE  MapInv'
<1> DEFINE d == [i \in 1 .. len |-> <<"user", v>>]
           old == io_read(off, len)
           E == [off |-> off, n |-> d, o |-> old]
           same == \E i \in DOMAIN undow : undow[i].off = off /\ undow[i].n = d
           Entry == [off : IoAddr, n : Seq(Bytes), o : Seq(Bytes)]
           hit(a) == a - off + 1 \in 1 .. len
<1>1. IoTypeOK /\ OldestKnowsOriginal
  BY DEF MapInv
<1>2. len \in Nat /\ off \in Nat /\ IoAddr \subseteq Nat /\ off + len - 1 \in IoAddr
  BY MapAssumption DEF IoAddr, MapWrite
<1>3. d \in Seq(Bytes) /\ Len(d) = len
  <2>1. <<"user", v>> \in Bytes
    BY DEF Bytes
  <2>2. QED BY <1>2, <2>1
<1>4. old \in Seq(Bytes) /\ Len(old) = len
  BY <1>1, <1>2, ReadFacts
<1>5. /\ undow' = IF same THEN undow ELSE Append(undow, E)
      /\ main' = Written(main, off, d)
      /\ through' = through \union {a \in off .. off + len - 1 : old[a - off + 1] # main[a]}
      /\ maps' = maps
  BY <1>3 DEF MapWrite, undo_write_new, Noting
<1> HIDE DEF d, old
<1>6. undow \in Seq(Entry) /\ main \in [IoAddr -> Bytes] /\ through \subseteq IoAddr
      /\ Len(undow) \in Nat /\ DOMAIN undow = 1 .. Len(undow)
  BY <1>1 DEF IoTypeOK
<1>7. main' \in [IoAddr -> Bytes]
  BY <1>2, <1>3, <1>5, <1>6, WrittenFacts
<1>8. ASSUME NEW a \in IoAddr, ~hit(a) PROVE main'[a] = main[a]
  <2>1. Written(main, off, d)[a] = IF a - off + 1 \in 1 .. Len(d) THEN d[a - off + 1] ELSE main[a]
    <3>1. main \in [IoAddr -> Bytes] /\ off \in Nat /\ d \in Seq(Bytes)
      BY <1>2, <1>3, <1>6
    <3>2. QED BY <3>1, WrittenAt
  <2>2. QED BY <1>3, <1>5, <1>8, <2>1
<1>9. through' \subseteq IoAddr
  <2>1. off .. off + len - 1 \subseteq IoAddr
    BY <1>2, MapAssumption DEF IoAddr
  <2>2. QED BY <1>5, <1>6, <2>1
<1>10. ASSUME NEW a \in IoAddr \ through', hit(a) PROVE old[a - off + 1] = main[a]
  <2>1. a \in off .. off + len - 1
    BY <1>2, <1>10
  <2>2. QED BY <1>5, <2>1
<1>11. CASE same
  <2>1. undow' = undow
    BY <1>5, <1>11
  <2>2. IoTypeOK'
    BY <1>1, <1>5, <1>7, <1>9, <2>1 DEF IoTypeOK
  <2>3. PICK i \in DOMAIN undow : undow[i].off = off /\ undow[i].n = d
    BY <1>11
  <2>4. \A a : hit(a) => Covers(i, a)
    BY <1>1, <1>3, <2>3, EntryFacts DEF Covers
  <2>5. ASSUME NEW a \in IoAddr \ through'
        PROVE  /\ (\A j \in DOMAIN undow' : ~Covers(j, a)') => main'[a] = Original[a]
               /\ \A j \in DOMAIN undow' : Oldest(j, a)' => OldByte(j, a)' = Original[a]
    <3>1. a \in IoAddr \ through
      BY <1>5
    <3>2. /\ \A j : Covers(j, a)' <=> Covers(j, a)
          /\ \A j : Oldest(j, a)' <=> Oldest(j, a)
          /\ \A j : OldByte(j, a)' = OldByte(j, a)
      BY <2>1 DEF Covers, Oldest, OldByte
    <3>3. QED BY <1>1, <1>8, <2>1, <2>4, <3>1, <3>2 DEF OldestKnowsOriginal
  <2>6. OldestKnowsOriginal'
    BY <2>5 DEF OldestKnowsOriginal, Original
  <2>7. QED BY <2>2, <2>6 DEF MapInv
<1>12. CASE ~same
  <2>0. PICK N \in Nat : N = Len(undow)
    BY <1>6
  <2>1. undow' = Append(undow, E)
    BY <1>5, <1>12
  <2>2. E \in Entry
    BY <1>3, <1>4
  <2>3. undow' \in Seq(Entry) /\ DOMAIN undow' = 1 .. N + 1
        /\ undow'[N + 1] = E /\ \A j \in DOMAIN undow : undow'[j] = undow[j]
    <3> HIDE DEF E, Entry
    <3> QED BY <1>6, <2>0, <2>1, <2>2
  <2>4. IoTypeOK'
    <3>1. ASSUME NEW j \in DOMAIN undow'
          PROVE  Len(undow'[j].o) = Len(undow'[j].n) /\ undow'[j].off + Len(undow'[j].n) - 1 \in IoAddr
      <4>1. CASE j = N + 1
        BY <1>2, <1>3, <1>4, <2>3, <4>1
      <4>2. CASE j \in DOMAIN undow
        BY <1>1, <2>3, <4>2 DEF IoTypeOK
      <4>3. QED BY <1>6, <2>0, <2>3, <4>1, <4>2
    <3> HIDE DEF E
    <3>2. QED BY <1>1, <1>5, <1>7, <1>9, <2>3, <3>1 DEF IoTypeOK
  <2>5. ASSUME NEW a \in IoAddr \ through'
        PROVE  /\ (\A j \in DOMAIN undow' : ~Covers(j, a)') => main'[a] = Original[a]
               /\ \A j \in DOMAIN undow' : Oldest(j, a)' => OldByte(j, a)' = Original[a]
    <3>1. a \in IoAddr \ through
      BY <1>5
    <3>2. /\ Covers(N + 1, a)' <=> hit(a)
          /\ OldByte(N + 1, a)' = old[a - off + 1]
      <4>1. undow'[N + 1].off = off /\ undow'[N + 1].o = old
        BY <2>3
      <4>2. QED BY <1>4, <4>1 DEF Covers, OldByte
    <3> HIDE DEF hit
    <3>3. \A j \in DOMAIN undow : (Covers(j, a)' <=> Covers(j, a)) /\ OldByte(j, a)' = OldByte(j, a)
      BY <2>3 DEF Covers, OldByte
    <3>4. DOMAIN undow' = DOMAIN undow \union {N + 1}
      BY <1>6, <2>0, <2>3
    <3>5. (\A j \in DOMAIN undow' : ~Covers(j, a)') => main'[a] = Original[a]
      BY <1>1, <1>8, <3>1, <3>2, <3>3, <3>4 DEF OldestKnowsOriginal
    <3>6. ASSUME NEW j \in DOMAIN undow', Oldest(j, a)' PROVE OldByte(j, a)' = Original[a]
      <4>1. Covers(j, a)' /\ \A k \in DOMAIN undow' : Covers(k, a)' => j <= k
        BY <3>6 DEF Oldest
      <4>2. CASE j \in DOMAIN undow
        <5>1. Oldest(j, a)
          BY <3>3, <3>4, <4>1, <4>2 DEF Oldest
        <5>2. QED BY <1>1, <3>1, <3>3, <4>2, <5>1 DEF OldestKnowsOriginal
      <4>3. CASE j = N + 1
        <5>1. \A k \in DOMAIN undow : ~Covers(k, a)
          <6>1. \A k \in DOMAIN undow : ~(j <= k)
            BY <1>6, <2>0, <4>3
          <6>2. QED BY <3>3, <3>4, <4>1, <6>1
        <5>2. main[a] = Original[a]
          BY <1>1, <3>1, <5>1 DEF OldestKnowsOriginal
        <5>3. hit(a)
          BY <3>2, <4>1, <4>3
        <5>4. QED BY <1>10, <3>2, <4>3, <5>2, <5>3
      <4>4. QED BY <3>4, <4>2, <4>3
    <3>7. QED BY <3>5, <3>6
  <2>6. OldestKnowsOriginal'
    BY <2>5 DEF OldestKnowsOriginal, Original
  <2>7. QED BY <2>4, <2>6 DEF MapInv
<1>13. QED BY <1>11, <1>12

\* A change of the open file that leaves alone what no entry covers.
LEMMA MapUndoKeeps ==
  ASSUME MapInv, UNCHANGED <<maps, undow, through>>, main' \in [IoAddr -> Bytes],
         \A a \in IoAddr : (\A i \in DOMAIN undow : ~Covers(i, a)) => main'[a] = main[a]
  PROVE  MapInv'
<1>1. IoTypeOK'
  BY DEF MapInv, IoTypeOK
<1>2. /\ \A j, a : Covers(j, a)' <=> Covers(j, a)
      /\ \A j, a : Oldest(j, a)' <=> Oldest(j, a)
      /\ \A j, a : OldByte(j, a)' = OldByte(j, a)
  BY DEF Covers, Oldest, OldByte
<1>3. ASSUME NEW a \in IoAddr \ through'
      PROVE  /\ (\A j \in DOMAIN undow' : ~Covers(j, a)') => main'[a] = Original[a]
             /\ \A j \in DOMAIN undow' : Oldest(j, a)' => OldByte(j, a)' = Original[a]
  BY <1>2 DEF MapInv, OldestKnowsOriginal
<1>4. OldestKnowsOriginal'
  BY <1>3 DEF OldestKnowsOriginal, Original
<1>5. QED BY <1>1, <1>4 DEF MapInv

\* The invariant of the maps is preserved.
LEMMA MapNextKeeps == MapInv /\ [IoNext]_iovars => MapInv'
<1> SUFFICES ASSUME MapInv, [IoNext]_iovars PROVE MapInv'
  OBVIOUS
<1> DEFINE Entry == [file : MapFile, from : IoAddr, to : Nat, delta : Nat]
<1>0. IoTypeOK /\ OldestKnowsOriginal /\ maps \in Seq(Entry) /\ main \in [IoAddr -> Bytes]
  BY DEF MapInv, IoTypeOK
<1>1. ASSUME NEW f \in MapFile, NEW off \in IoAddr, NEW delta \in 0 .. 1, NEW size \in 0 .. 2,
             io_map(f, off, delta, size)
      PROVE  MapInv'
  <2> DEFINE m == [file |-> f, from |-> off, to |-> off + (IF size = 0 THEN MapLen[f] ELSE size),
                   delta |-> delta]
  <2>1. m \in Entry
    BY MapAssumption DEF IoAddr
  <2>2. maps' = <<m>> \o maps /\ UNCHANGED <<main, undow, through>>
    BY <1>1 DEF io_map
  <2>3. maps' \in Seq(Entry)
    <3> HIDE DEF m, Entry
    <3> QED BY <1>0, <2>1, <2>2
  <2>4. IoTypeOK'
    BY <1>0, <2>2, <2>3 DEF IoTypeOK
  <2>5. OldestKnowsOriginal'
    BY <1>0, <2>2 DEF OldestKnowsOriginal, Oldest, Covers, OldByte, Original
  <2>6. QED BY <2>4, <2>5 DEF MapInv
<1>2. ASSUME NEW off \in IoAddr, NEW v \in UserByte, NEW len \in IoLen, MapWrite(off, v, len)
      PROVE  MapInv'
  BY <1>2, MapWriteKeeps
<1>3. ASSUME NEW i \in DOMAIN undow, NEW set \in BOOLEAN, MapUndo(i, set) PROVE MapInv'
  <2> DEFINE b == IF set THEN undow[i].n ELSE undow[i].o
  <2>1. main' = Written(main, undow[i].off, b) /\ UNCHANGED <<maps, undow, through>>
    BY <1>3 DEF MapUndo
  <2>2. undow[i].off \in Nat /\ b \in Seq(Bytes) /\ Len(b) = Len(undow[i].o)
    BY <1>0, EntryFacts
  <2> HIDE DEF b
  <2>3. /\ Written(main, undow[i].off, b) \in [IoAddr -> Bytes]
        /\ \A a \in IoAddr :
             Written(main, undow[i].off, b)[a] =
               IF a - undow[i].off + 1 \in 1 .. Len(b) THEN b[a - undow[i].off + 1] ELSE main[a]
    <3> DEFINE x == undow[i].off
    <3> HIDE DEF x
    <3>1. x \in Nat
      BY <2>2 DEF x
    <3>2. /\ Written(main, x, b) \in [IoAddr -> Bytes]
          /\ \A a \in IoAddr :
             Written(main, x, b)[a] = IF a - x + 1 \in 1 .. Len(b) THEN b[a - x + 1] ELSE main[a]
      BY <1>0, <2>2, <3>1, WrittenFacts
    <3>3. QED BY <3>2 DEF x
  <2>4. \A a \in IoAddr : ~Covers(i, a) => main'[a] = main[a]
    BY <2>1, <2>2, <2>3 DEF Covers
  <2>5. QED BY <2>1, <2>3, <2>4, MapUndoKeeps
<1>4. CASE MapUndoAll
  <2>1. main' = UndoAll(main) /\ UNCHANGED <<maps, undow, through>>
    BY <1>4 DEF MapUndoAll
  <2>2. UndoAll(main) \in [IoAddr -> Bytes]
    <3>1. 0 \in IoAddr
      BY MapAssumption DEF IoAddr
    <3>2. QED BY <1>0, <3>1, UndoAllFacts
  <2>3. \A a \in IoAddr : (\A i \in DOMAIN undow : ~Covers(i, a)) => UndoAll(main)[a] = main[a]
    BY <1>0, UndoAllFacts
  <2>4. QED BY <2>1, <2>2, <2>3, MapUndoKeeps
<1>5. CASE UNCHANGED iovars
  <2>1. UNCHANGED <<maps, undow, through>> /\ main' = main
    BY <1>5 DEF iovars
  <2>2. QED BY <1>0, <2>1, MapUndoKeeps
<1>6. QED BY <1>1, <1>2, <1>3, <1>4, <1>5 DEF IoNext

\* At first nothing is mapped and nothing was written.
LEMMA MapInitHolds == Init => MapInv
<1> SUFFICES ASSUME Init PROVE MapInv
  OBVIOUS
<1>1. maps = <<>> /\ main = Original /\ undow = <<>> /\ through = {}
  BY DEF Init, IoInit
<1>2. main \in [IoAddr -> Bytes]
  BY <1>1 DEF Original, Bytes
<1>3. IoTypeOK
  BY <1>1, <1>2 DEF IoTypeOK
<1>4. OldestKnowsOriginal
  BY <1>1 DEF OldestKnowsOriginal
<1>5. QED BY <1>3, <1>4 DEF MapInv

\* What the invariant says of undoing everything.
LEMMA MapInvSaysTrue == MapInv => MapsTrue
<1> SUFFICES ASSUME MapInv PROVE MapsTrue
  OBVIOUS
<1>1. IoTypeOK /\ OldestKnowsOriginal /\ main \in [IoAddr -> Bytes]
  BY DEF MapInv, IoTypeOK
<1>2. ASSUME NEW a \in IoAddr \ through PROVE UndoAll(main)[a] = Original[a]
  <2> DEFINE C == {i \in DOMAIN undow : Covers(i, a)}
  <2>1. CASE C = {}
    BY <1>1, <2>1, UndoAllFacts DEF OldestKnowsOriginal
  <2>2. CASE C # {}
    <3>1. C \subseteq Nat
      BY <1>1 DEF IoTypeOK
    <3>2. PICK i \in C : \A j \in C : i <= j
      <4> HIDE DEF C
      <4> QED BY <2>2, <3>1, Smallest
    <3>3. Oldest(i, a) /\ i \in DOMAIN undow
      BY <3>2 DEF Oldest
    <3>4. QED BY <1>1, <3>3, UndoAllFacts DEF OldestKnowsOriginal
  <2>3. QED BY <2>1, <2>2
<1>3. UndoKeepsFile
  BY <1>2 DEF UndoKeepsFile
<1>4. QED BY <1>1, <1>3, BlocksTrue DEF MapsTrue

\* A step of the session is one on the maps or leaves them alone.
LEMMA MapSteps == [Next]_vars => [IoNext]_iovars
BY DEF Next, vars, iovars, OnlyMacros

\* Reads through the maps give each address its own byte, and undoing every
\* write keeps the bytes of mapped files out of the open file, for every
\* number and length of maps and writes.
THEOREM MapsCorrect == Spec => []MapsTrue
<1>1. QED BY MapInitHolds, MapSteps, MapNextKeeps, MapInvSaysTrue, PTL DEF Spec

------------------------------------------------------------------------------
(***************************************************************************)
(* Watchpoints.  eval_cond goes over a list from the left and skips; what  *)
(* a condition means is said from the right.  The proof that they agree is *)
(* an induction over the list: as long as nothing is skipped, the value of *)
(* the whole is the value of what is left.                                 *)
(***************************************************************************)
Operators == {"", "and", "or"}
Evaluation == [val : BOOLEAN, op : Operators]
Evaluated(r, v, op) ==
  IF PassedOver(r) THEN r ELSE [val |-> v, op |-> IF op = "" THEN r.op ELSE op]

\* A step of the evaluation keeps its type.
LEMMA EvaluatedType ==
  ASSUME NEW r \in Evaluation, NEW v \in BOOLEAN, NEW op \in Operators
  PROVE  Evaluated(r, v, op) \in Evaluation
BY DEF Evaluated, Evaluation, Operators

\* eval_cond goes over the list once.
LEMMA EvalUnfolds ==
  ASSUME NEW n \in Nat, NEW vals \in [1 .. n -> BOOLEAN], NEW ops \in [1 .. n -> Operators]
  PROVE  \E f \in [0 .. n -> Evaluation] :
            /\ eval_list(vals, ops) = f[n].val /\ f[0] = [val |-> TRUE, op |-> ""]
            /\ \A k \in 1 .. n : f[k] = Evaluated(f[k - 1], vals[k], ops[k])
<1> DEFINE Value(h, k) == IF k = 0 THEN [val |-> TRUE, op |-> ""]
                          ELSE IF PassedOver(h[k - 1]) THEN h[k - 1]
                          ELSE [val |-> vals[k], op |-> IF ops[k] = "" THEN h[k - 1].op ELSE ops[k]]
           step == [k \in 1 .. n |-> [r \in Evaluation |-> Evaluated(r, vals[k], ops[k])]]
           start == [val |-> TRUE, op |-> ""]
<1>0. Len(vals) = n
  OBVIOUS
<1>1. ASSUME NEW k \in 1 .. n, NEW r \in Evaluation PROVE Evaluated(r, vals[k], ops[k]) \in Evaluation
  BY EvaluatedType
<1>2. step \in Steps(n, Evaluation)
  BY <1>1 DEF Steps
<1>3. start \in Evaluation
  BY DEF Evaluation, Operators
<1>4. PICK g : Iterates(g, n, Evaluation, start, step)
  <2> HIDE DEF step, start
  <2>1. QED BY <1>2, <1>3, Recursion
<1>5. g \in [0 .. n -> Evaluation] /\ g[0] = start /\ \A k \in 1 .. n : g[k] = step[k][g[k - 1]]
  BY <1>4, Zenon DEF Iterates
<1>6. ASSUME NEW k \in 1 .. n PROVE g[k] = Evaluated(g[k - 1], vals[k], ops[k])
  <2>1. g[k - 1] \in Evaluation
    <3>1. k - 1 \in 0 .. n
      OBVIOUS
    <3>2. g \in [0 .. n -> Evaluation]
      BY <1>5, Zenon
    <3>3. QED BY <3>1, <3>2
  <2>2. step[k][g[k - 1]] = Evaluated(g[k - 1], vals[k], ops[k])
    BY <2>1
  <2>3. QED BY <1>5, <2>2
<1>7. g = [k \in 0 .. n |-> Value(g, k)]
  <2>1. ASSUME NEW k \in 0 .. n PROVE g[k] = Value(g, k)
    <3>1. CASE k = 0
      BY <3>1, <1>5
    <3>2. CASE k \in 1 .. n
      <4>1. k # 0
        BY <3>2
      <4>2. g[k] = Evaluated(g[k - 1], vals[k], ops[k])
        BY <3>2, <1>6
      <4>3. QED BY <4>1, <4>2 DEF Evaluated
    <3>3. k = 0 \/ k \in 1 .. n
      OBVIOUS
    <3>4. QED BY <3>1, <3>2, <3>3
  <2> HIDE DEF Value
  <2>2. QED BY <2>1, <1>5
<1> DEFINE c == CHOOSE c : c = [k \in 0 .. n |-> Value(c, k)]
<1>8. c = [k \in 0 .. n |-> Value(c, k)]
  <2> HIDE DEF Value
  <2> QED BY <1>7
<1>9. eval_list(vals, ops) = c[n].val
  BY <1>0, Zenon DEF eval_list
<1> HIDE DEF c
<1>10. \A k \in 0 .. n : c[k] = Value(c, k) /\ g[k] = Value(g, k)
  <2> HIDE DEF Value
  <2> QED BY <1>7, <1>8
<1>11. c[n] = g[n]
  <2> DEFINE P == {k \in 0 .. n : c[k] = g[k]}
  <2>1. 0 \in P
    <3>1. 0 \in 0 .. n
      OBVIOUS
    <3>2. QED BY <3>1, <1>10
  <2>2. ASSUME NEW k \in 1 .. n, k - 1 \in P PROVE k \in P
    <3>1. c[k - 1] = g[k - 1] /\ k \in 0 .. n /\ k # 0
      BY <2>2
    <3>2. QED BY <3>1, <1>10
  <2>3. \A k \in 1 .. n : k - 1 \in P => k \in P
    BY <2>2
  <2> HIDE DEF P
  <2>4. \A k \in 0 .. n : k \in P
    BY <2>1, <2>3, Climbs
  <2>5. n \in P
    BY <2>4
  <2>6. QED BY <2>5 DEF P
<1>12. QED BY <1>5, <1>6, <1>9, <1>11

\* The value of a token with everything behind it.
Combined(v, op, w) == IF op = "and" THEN v /\ w ELSE v \/ w

MeansBy(f, n, vals, ops) ==
  /\ f \in [1 .. n -> BOOLEAN] /\ ListMeans(vals, ops) = f[1] /\ f[n] = vals[n]
  /\ \A k \in 1 .. n - 1 : f[k] = Combined(vals[k], ops[k], f[k + 1])

\* What a list means is said by its last token and one step to the left.
LEMMA MeansUnfolds ==
  ASSUME NEW n \in Nat, n # 0, NEW vals \in [1 .. n -> BOOLEAN], NEW ops
  PROVE  \E f : MeansBy(f, n, vals, ops)
<1> DEFINE Value(h, k) == IF k = Len(vals) THEN vals[k]
                          ELSE IF ops[k] = "and" THEN vals[k] /\ h[k + 1] ELSE vals[k] \/ h[k + 1]
           step == [k \in 1 .. n - 1 |-> [w \in BOOLEAN |-> Combined(vals[n - k], ops[n - k], w)]]
<1>0. Len(vals) = n /\ n - 1 \in Nat /\ vals[n] \in BOOLEAN
  OBVIOUS
<1>1. step \in Steps(n - 1, BOOLEAN)
  <2>1. ASSUME NEW k \in 1 .. n - 1, NEW w \in BOOLEAN
        PROVE  Combined(vals[n - k], ops[n - k], w) \in BOOLEAN
    BY Zenon DEF Combined
  <2>2. QED BY <2>1 DEF Steps
<1>2. PICK h : Iterates(h, n - 1, BOOLEAN, vals[n], step)
  <2> HIDE DEF step
  <2>1. QED BY <1>0, <1>1, Recursion
<1>3. /\ h \in [0 .. n - 1 -> BOOLEAN] /\ h[0] = vals[n]
      /\ \A k \in 1 .. n - 1 : h[k] = step[k][h[k - 1]]
  BY <1>2, Zenon DEF Iterates
<1> DEFINE g == [k \in 1 .. n |-> h[n - k]]
<1>4. g \in [1 .. n -> BOOLEAN] /\ g[n] = vals[n]
  <2>1. \A k \in 1 .. n : n - k \in 0 .. n - 1
    OBVIOUS
  <2>2. \A k \in 1 .. n : h[n - k] \in BOOLEAN
    BY <1>3, <2>1
  <2>3. g[n] = h[n - n] /\ n - n = 0
    OBVIOUS
  <2>4. QED BY <1>3, <2>2, <2>3
<1>5. ASSUME NEW k \in 1 .. n - 1 PROVE g[k] = Combined(vals[k], ops[k], g[k + 1])
  <2>1. n - k \in 1 .. n - 1 /\ n - (n - k) = k /\ n - (k + 1) = (n - k) - 1 /\ k + 1 \in 1 .. n
        /\ k \in 1 .. n /\ (n - k) - 1 \in 0 .. n - 1
    OBVIOUS
  <2>2. g[k] = h[n - k] /\ g[k + 1] = h[(n - k) - 1]
    BY <2>1
  <2>3. h[n - k] = step[n - k][h[(n - k) - 1]] /\ h[(n - k) - 1] \in BOOLEAN
    BY <1>3, <2>1
  <2> HIDE DEF g
  <2>4. step[n - k][h[(n - k) - 1]] = Combined(vals[k], ops[k], h[(n - k) - 1])
    BY <2>1, <2>3
  <2>5. QED BY <2>2, <2>3, <2>4
<1> HIDE DEF g
<1>6. ASSUME NEW k \in 1 .. n, NEW f
      PROVE  /\ k = n => Value(f, k) = vals[k]
             /\ k # n => Value(f, k) = Combined(vals[k], ops[k], f[k + 1])
  BY <1>0, Zenon DEF Combined
<1>7. g = [k \in 1 .. n |-> Value(g, k)]
  <2>1. ASSUME NEW k \in 1 .. n PROVE g[k] = Value(g, k)
    <3>1. k # n => k \in 1 .. n - 1
      OBVIOUS
    <3> HIDE DEF Value
    <3>2. QED BY <1>4, <1>5, <1>6, <3>1
  <2> HIDE DEF Value
  <2>2. QED BY <2>1, <1>4
<1> DEFINE c == CHOOSE c : c = [k \in 1 .. Len(vals) |-> Value(c, k)]
<1>8. c = [k \in 1 .. n |-> Value(c, k)]
  <2> HIDE DEF Value
  <2>1. g = [k \in 1 .. Len(vals) |-> Value(g, k)]
    BY <1>0, <1>7
  <2>2. c = [k \in 1 .. Len(vals) |-> Value(c, k)]
    BY <2>1
  <2>3. QED BY <1>0, <2>2
<1>9. ListMeans(vals, ops) = c[1]
  BY Zenon DEF ListMeans
<1> HIDE DEF c
<1>10. \A k \in 1 .. n : c[k] = Value(c, k)
  <2> HIDE DEF Value
  <2> QED BY <1>8
<1>11. c[n] = vals[n]
  <2>1. n \in 1 .. n /\ c[n] = Value(c, n)
    BY <1>0, <1>10
  <2> HIDE DEF c
  <2>2. QED BY <1>0, <2>1
<1>12. \A k \in 1 .. n - 1 : c[k] = Combined(vals[k], ops[k], c[k + 1])
  <2> SUFFICES ASSUME NEW k \in 1 .. n - 1 PROVE c[k] = Combined(vals[k], ops[k], c[k + 1])
    OBVIOUS
  <2>1. k \in 1 .. n /\ k # n
    OBVIOUS
  <2> HIDE DEF Value
  <2>2. QED BY <1>6, <1>10, <1>11, <2>1
<1>13. c[1] = g[1]
  <2> DEFINE P == {k \in 0 .. n - 1 : c[n - k] = g[n - k]}
  <2>1. 0 \in P
    BY <1>0, <1>4, <1>11
  <2>2. ASSUME NEW k \in 1 .. n - 1, k - 1 \in P PROVE k \in P
    <3>1. c[n - (k - 1)] = g[n - (k - 1)] /\ k \in 0 .. n - 1
      BY <2>2
    <3>2. n - k \in 1 .. n - 1 /\ (n - k) + 1 = n - (k - 1)
      OBVIOUS
    <3>3. c[n - k] = g[n - k]
      BY <1>5, <1>12, <3>1, <3>2
    <3>4. QED BY <3>1, <3>3
  <2>3. \A k \in 1 .. n - 1 : k - 1 \in P => k \in P
    BY <2>2
  <2> HIDE DEF P
  <2>4. \A k \in 0 .. n - 1 : k \in P
    BY <1>0, <2>1, <2>3, Climbs
  <2>5. n - 1 \in P /\ n - (n - 1) = 1
    BY <2>4, <1>0
  <2>6. QED BY <2>5 DEF P
<1>14. QED BY <1>4, <1>5, <1>9, <1>13 DEF MeansBy

\* Nothing is skipped at first.
LEMMA StartSkipsNothing ==
  ASSUME NEW r, r = [val |-> TRUE, op |-> ""]
  PROVE  ~PassedOver(r)
BY DEF PassedOver

\* A token that is not skipped gives the evaluation its value.
LEMMA EvaluatedValue ==
  ASSUME NEW r, NEW v, NEW op, ~PassedOver(r)
  PROVE  Evaluated(r, v, op).val = v
BY DEF Evaluated

\* Evaluating a list from the left gives what it means from the right.
LEMMA ListAgrees ==
  ASSUME NEW n \in Nat, n # 0, NEW vals \in [1 .. n -> BOOLEAN], NEW ops \in [1 .. n -> Operators],
         \A k \in 1 .. n - 1 : ops[k] \in {"and", "or"}
  PROVE  eval_list(vals, ops) = ListMeans(vals, ops) /\ eval_list(vals, ops) \in BOOLEAN
<1>1. PICK e \in [0 .. n -> Evaluation] :
         /\ eval_list(vals, ops) = e[n].val /\ e[0] = [val |-> TRUE, op |-> ""]
         /\ \A k \in 1 .. n : e[k] = Evaluated(e[k - 1], vals[k], ops[k])
  BY EvalUnfolds
<1>0. PICK m : MeansBy(m, n, vals, ops)
  BY MeansUnfolds
<1>2. /\ m \in [1 .. n -> BOOLEAN] /\ ListMeans(vals, ops) = m[1] /\ m[n] = vals[n]
      /\ \A k \in 1 .. n - 1 : m[k] = Combined(vals[k], ops[k], m[k + 1])
  BY <1>0, Zenon DEF MeansBy
<1> DEFINE Good(k) == m[1] = IF PassedOver(e[k]) THEN e[k].val ELSE m[k + 1]
           P == {k \in 0 .. n - 1 : Good(k)}
<1>3. 0 \in P
  <2>1. ~PassedOver(e[0])
    BY <1>1, StartSkipsNothing, Zenon
  <2>2. QED BY <2>1
<1>4. ASSUME NEW k \in 1 .. n - 1, k - 1 \in P PROVE k \in P
  <2>1. k \in 1 .. n /\ k - 1 \in 0 .. n /\ k + 1 \in 1 .. n /\ k \in 0 .. n - 1 /\ (k - 1) + 1 = k
    OBVIOUS
  <2>2. m[1] = IF PassedOver(e[k - 1]) THEN e[k - 1].val ELSE m[k]
    BY <1>4, <2>1
  <2>3. /\ e[k] = Evaluated(e[k - 1], vals[k], ops[k]) /\ ops[k] \in {"and", "or"}
        /\ m[k] = Combined(vals[k], ops[k], m[k + 1]) /\ vals[k] \in BOOLEAN /\ m[k + 1] \in BOOLEAN
    BY <1>1, <1>2, <2>1
  <2>4. CASE PassedOver(e[k - 1])
    <3>1. e[k] = e[k - 1]
      BY <2>3, <2>4 DEF Evaluated
    <3>2. Good(k)
      BY <2>2, <2>4, <3>1
    <3>3. QED BY <2>1, <3>2
  <2>5. CASE ~PassedOver(e[k - 1])
    <3>1. e[k] = [val |-> vals[k], op |-> ops[k]] /\ m[1] = m[k]
      BY <2>2, <2>3, <2>5 DEF Evaluated
    <3>2. PassedOver(e[k]) <=> (vals[k] /\ ops[k] = "or") \/ (~vals[k] /\ ops[k] = "and")
      BY <3>1 DEF PassedOver
    <3>3. Good(k)
      <4>1. CASE ops[k] = "and" /\ vals[k] = TRUE
        BY <2>3, <3>1, <3>2, <4>1 DEF Combined
      <4>2. CASE ops[k] = "and" /\ vals[k] = FALSE
        BY <2>3, <3>1, <3>2, <4>2 DEF Combined
      <4>3. CASE ops[k] = "or" /\ vals[k] = TRUE
        BY <2>3, <3>1, <3>2, <4>3 DEF Combined
      <4>4. CASE ops[k] = "or" /\ vals[k] = FALSE
        BY <2>3, <3>1, <3>2, <4>4 DEF Combined
      <4>5. QED BY <2>3, <4>1, <4>2, <4>3, <4>4
    <3>4. QED BY <2>1, <3>3
  <2>6. QED BY <2>4, <2>5
<1>5. n - 1 \in P
  <2>1. \A k \in 1 .. n - 1 : k - 1 \in P => k \in P
    BY <1>4
  <2>2. n - 1 \in Nat
    OBVIOUS
  <2> HIDE DEF P
  <2>3. \A k \in 0 .. n - 1 : k \in P
    BY <1>3, <2>1, <2>2, Climbs
  <2>4. QED BY <2>2, <2>3
<1>6. m[1] = IF PassedOver(e[n - 1]) THEN e[n - 1].val ELSE m[n]
  BY <1>5
<1>7. e[n] = Evaluated(e[n - 1], vals[n], ops[n]) /\ e[n] \in Evaluation
  <2>1. n \in 1 .. n /\ n \in 0 .. n
    OBVIOUS
  <2>2. QED BY <1>1, <2>1
<1>8. e[n].val = m[1]
  <2>1. CASE PassedOver(e[n - 1])
    BY <1>6, <1>7, <2>1 DEF Evaluated
  <2>2. CASE ~PassedOver(e[n - 1])
    <3>1. e[n].val = vals[n]
      <4> DEFINE r == e[n - 1]
                 v == vals[n]
                 op == ops[n]
      <4>1. e[n] = Evaluated(r, v, op)
        BY <1>7
      <4>2. ~PassedOver(r)
        BY <2>2
      <4> HIDE DEF r, v, op
      <4>3. Evaluated(r, v, op).val = v
        BY <4>2, EvaluatedValue
      <4>4. QED BY <4>1, <4>3 DEF v
    <3>2. m[1] = vals[n]
      BY <1>2, <1>6, <2>2, Zenon
    <3>3. QED BY <3>1, <3>2
  <2>3. QED BY <2>1, <2>2
<1>9. e[n].val \in BOOLEAN
  BY <1>7 DEF Evaluation
<1>10. QED BY <1>1, <1>2, <1>8, <1>9

\* The same for the values and operators of a list of tokens.
LEMMA TokensAgree ==
  ASSUME NEW l, IsList(l), NEW vals \in [DOMAIN l -> BOOLEAN], NEW ops,
         ops = [k \in DOMAIN l |-> l[k].op]
  PROVE  eval_list(vals, ops) = ListMeans(vals, ops) /\ eval_list(vals, ops) \in BOOLEAN
<1> DEFINE n == Len(l)
<1>1. /\ n \in Nat /\ n # 0 /\ DOMAIN l = 1 .. n
      /\ \A k \in 1 .. n : l[k].op \in IF k = n THEN {""} ELSE {"and", "or"}
  BY DEF IsList
<1>2. ops \in [1 .. n -> Operators]
  BY <1>1 DEF Operators
<1>3. \A k \in 1 .. n - 1 : ops[k] \in {"and", "or"}
  <2> SUFFICES ASSUME NEW k \in 1 .. n - 1 PROVE ops[k] \in {"and", "or"}
    OBVIOUS
  <2>1. k \in 1 .. n /\ k # n
    <3>1. n \in Nat
      BY <1>1
    <3> HIDE DEF n
    <3>2. QED BY <3>1
  <2>2. QED BY <1>1, <2>1
<1>4. vals \in [1 .. n -> BOOLEAN]
  BY <1>1
<1> HIDE DEF n
<1>5. QED BY <1>1, <1>2, <1>3, <1>4, ListAgrees

\* A token, comparison or group, yields what it means.
LEMMA TokenAgrees ==
  ASSUME NEW c \in Condition, NEW k \in DOMAIN c, NEW p \in [Comparison -> BOOLEAN]
  PROVE  eval_token(c[k], p) = TokenMeans(c[k], p) /\ eval_token(c[k], p) \in BOOLEAN
<1> DEFINE t == c[k]
           vals == [j \in DOMAIN t.group |-> p[t.group[j].cmp]]
           ops == [j \in DOMAIN t.group |-> t.group[j].op]
<1>1. IF t.group = <<>> THEN t.cmp \in Comparison
      ELSE IsList(t.group) /\ \A j \in DOMAIN t.group : t.group[j].cmp \in Comparison
  BY WatchAssumption
<1> HIDE DEF t
<1>2. CASE t.group = <<>>
  <2>1. p[t.cmp] \in BOOLEAN
    BY <1>1, <1>2
  <2>2. eval_token(t, p) = p[t.cmp] /\ TokenMeans(t, p) = p[t.cmp]
    BY <1>2, Zenon DEF eval_token, TokenMeans
  <2>3. QED BY <2>1, <2>2 DEF t
<1>3. CASE t.group # <<>>
  <2>1. IsList(t.group) /\ vals \in [DOMAIN t.group -> BOOLEAN]
    BY <1>1, <1>3
  <2>2. eval_token(t, p) = eval_list(vals, ops) /\ TokenMeans(t, p) = ListMeans(vals, ops)
    BY <1>3, Zenon DEF eval_token, TokenMeans
  <2>3. ops = [j \in DOMAIN t.group |-> t.group[j].op]
    OBVIOUS
  <2> HIDE DEF vals, ops
  <2>4. eval_list(vals, ops) = ListMeans(vals, ops) /\ eval_list(vals, ops) \in BOOLEAN
    BY <2>1, <2>3, TokensAgree
  <2>5. QED BY <2>2, <2>4 DEF t
<1>4. QED BY <1>2, <1>3

\* eval_cond yields what the condition means.
LEMMA CondAgrees ==
  ASSUME NEW c \in Condition, NEW p \in [Comparison -> BOOLEAN]
  PROVE  eval_cond(c, p) = Means(c, p) /\ eval_cond(c, p) \in BOOLEAN
<1> DEFINE vals == [k \in DOMAIN c |-> eval_token(c[k], p)]
           ops == [k \in DOMAIN c |-> c[k].op]
<1>1. IsList(c)
  BY WatchAssumption
<1>2. vals \in [DOMAIN c -> BOOLEAN] /\ vals = [k \in DOMAIN c |-> TokenMeans(c[k], p)]
  BY TokenAgrees
<1>3. eval_cond(c, p) = eval_list(vals, ops)
  BY Zenon DEF eval_cond
<1>4. Means(c, p) = ListMeans(vals, ops)
  <2>1. Means(c, p) = ListMeans([k \in DOMAIN c |-> TokenMeans(c[k], p)], ops)
    BY Zenon DEF Means
  <2> HIDE DEF vals, ops
  <2>2. QED BY <1>2, <2>1, Zenon
<1>5. ops = [k \in DOMAIN c |-> c[k].op]
  OBVIOUS
<1> HIDE DEF vals, ops
<1>6. QED BY <1>1, <1>2, <1>3, <1>4, <1>5, TokensAgree

WpInv == WpTypeOK /\ StopsWhereItHolds

\* The table is finite, and a condition is never the mark of a free slot.
LEMMA TableFacts ==
  ASSUME WpTypeOK
  PROVE  /\ IsFiniteSet(Used) /\ Cardinality(Used) \in Nat /\ Cardinality(Used) <= WpSlots
         /\ \A i \in Used : wps[i] \in Condition
         /\ <<>> \notin Condition /\ Wp \subseteq Nat /\ Used \subseteq Wp
<1>1. WpSlots \in Nat /\ Wp = 0 .. WpSlots - 1 /\ Wp \subseteq Nat
  BY WatchAssumption DEF Wp
<1>2. IsFiniteSet(Wp) /\ Cardinality(Wp) = WpSlots
  BY <1>1, FS_Interval
<1>3. Used \subseteq Wp /\ \A i \in Used : wps[i] \in Condition
  BY DEF Used, WpTypeOK
<1>4. IsFiniteSet(Used) /\ Cardinality(Used) <= WpSlots
  BY <1>2, <1>3, FS_Subset
<1>5. Cardinality(Used) \in Nat
  BY <1>4, FS_CardinalityType
<1>6. <<>> \notin Condition
  <2>1. ASSUME NEW c \in Condition, c = <<>> PROVE FALSE
    <3>1. Len(c) # 0
      BY WatchAssumption DEF IsList
    <3>2. QED BY <2>1, <3>1
  <2>2. QED BY <2>1
<1>7. QED BY <1>1, <1>3, <1>4, <1>5, <1>6

\* The scan reaches every watchpoint, whatever the table looks like.
LEMMA AllScanned ==
  ASSUME WpInv, NEW i \in Used
  PROVE  Scanned(i)
<1> DEFINE B == {j \in Used : j < i}
<1>1. IsFiniteSet(Used) /\ Cardinality(Used) \in Nat /\ Used \subseteq Nat
  BY TableFacts DEF WpInv
<1>2. B \subseteq Used /\ i \notin B
  BY <1>1
<1>3. B # Used
  BY <1>2
<1> HIDE DEF B
<1>4. Cardinality(B) <= Cardinality(Used) /\ Cardinality(B) # Cardinality(Used) /\ IsFiniteSet(B)
  BY <1>1, <1>2, <1>3, FS_Subset, FS_CardinalityType
<1>5. Cardinality(B) \in Nat
  BY <1>4, FS_CardinalityType
<1>6. Cardinality(B) < wps_n
  BY <1>1, <1>4, <1>5 DEF WpInv, StopsWhereItHolds
<1>7. QED BY <1>6 DEF Scanned, B

\* debug_wp_match returns the lowest watchpoint that holds, -1 if none does.
LEMMA MatchFacts ==
  ASSUME WpInv, NEW p \in [Comparison -> BOOLEAN]
  PROVE  LET r == debug_wp_match(p)
         IN  \/ r = -1 /\ \A i \in Used : ~Means(wps[i], p)
             \/ r \in Used /\ Means(wps[r], p) /\ \A j \in Used : j < r => ~Means(wps[j], p)
<1> DEFINE M == {i \in Used : Scanned(i) /\ eval_cond(wps[i], p)}
           H == {i \in Used : Means(wps[i], p)}
           r == debug_wp_match(p)
<1>1. Used \subseteq Nat /\ \A i \in Used : wps[i] \in Condition
  BY TableFacts DEF WpInv
<1>2. ASSUME NEW i \in Used PROVE i \in M <=> i \in H
  <2>1. eval_cond(wps[i], p) = Means(wps[i], p)
    BY <1>1, CondAgrees
  <2>2. Scanned(i)
    BY AllScanned
  <2>3. QED BY <2>1, <2>2, Zenon
<1>3. M = H /\ H \subseteq Nat
  BY <1>1, <1>2
<1>4. r = IF M = {} THEN -1 ELSE CHOOSE i \in M : \A j \in M : i <= j
  BY Zenon DEF debug_wp_match
<1> HIDE DEF M, r
<1>5. CASE H = {}
  <2>1. r = -1
    BY <1>3, <1>4, <1>5
  <2>2. \A i \in Used : ~Means(wps[i], p)
    BY <1>5, Zenon
  <2>3. QED BY <2>1, <2>2 DEF r
<1>6. CASE H # {}
  <2>1. \E i \in H : \A j \in H : i <= j
    <3> HIDE DEF H
    <3> QED BY <1>3, <1>6, Smallest
  <2>2. r \in H /\ \A j \in H : r <= j
    <3> HIDE DEF H
    <3> QED BY <1>3, <1>4, <1>6, <2>1
  <2>3. r \in Used /\ Means(wps[r], p)
    BY <2>2, Zenon
  <2>4. ASSUME NEW j \in Used, j < r PROVE ~Means(wps[j], p)
    <3>1. ~(r <= j)
      BY <1>1, <2>3, <2>4
    <3>2. j \notin H
      <4> HIDE DEF H
      <4> QED BY <2>2, <3>1
    <3>3. QED BY <3>2, Zenon
  <2>5. QED BY <2>3, <2>4 DEF r
<1>7. QED BY <1>5, <1>6

\* While nothing runs, the table may change as long as the count follows it.
LEMMA WpTableKeeps ==
  ASSUME WpInv, contwp' # "matched", wps' \in [Wp -> Condition \union {<<>>}],
         wps_n' = Cardinality(Used'), process' = process, ret' = ret,
         contwp' \in {"no", "steps", "matched"}, wptrace' \in BOOLEAN
  PROVE  WpInv'
<1>1. process \in [Comparison -> BOOLEAN] /\ ret \in {-1} \union Wp
  BY DEF WpInv, WpTypeOK
<1>2. WpSlots \in Nat /\ Wp = 0 .. WpSlots - 1
  BY WatchAssumption DEF Wp
<1>3. IsFiniteSet(Wp) /\ Cardinality(Wp) = WpSlots
  BY <1>2, FS_Interval
<1>4. Used' \subseteq Wp
  BY DEF Used
<1>5. IsFiniteSet(Used') /\ Cardinality(Used') <= WpSlots
  BY <1>3, <1>4, FS_Subset
<1>6. Cardinality(Used') \in Nat
  BY <1>5, FS_CardinalityType
<1>7. wps_n' \in 0 .. WpSlots
  BY <1>2, <1>5, <1>6
<1>8. WpTypeOK'
  <2>1. Wp' = Wp
    BY DEF Wp
  <2>2. QED BY <1>1, <1>7, <2>1 DEF WpTypeOK
<1>9. StopsWhereItHolds'
  BY DEF StopsWhereItHolds
<1>10. QED BY <1>8, <1>9 DEF WpInv

\* The invariant of the watchpoints is preserved.
LEMMA WpNextKeeps == WpInv /\ [WpNext]_wpvars => WpInv'
<1> SUFFICES ASSUME WpInv, [WpNext]_wpvars PROVE WpInv'
  OBVIOUS
<1>0. WpTypeOK /\ StopsWhereItHolds /\ wps_n = Cardinality(Used)
  BY DEF WpInv, StopsWhereItHolds
<1>1. ASSUME NEW c \in Condition, debug_wp_add(c) PROVE WpInv'
  <2> DEFINE i == FirstFree
  <2>1. i \in Wp \ Used
    <3>1. Wp \ Used # {} /\ Wp \ Used \subseteq Nat
      BY <1>0, <1>1, TableFacts DEF debug_wp_add
    <3>2. \E x \in Wp \ Used : \A y \in Wp \ Used : x <= y
      BY <3>1, Smallest
    <3>3. QED BY <3>2 DEF FirstFree
  <2> HIDE DEF i
  <2>2. /\ wps' = [wps EXCEPT ![i] = c] /\ wps_n' = wps_n + 1 /\ contwp = "no"
        /\ process' = process /\ contwp' = contwp /\ ret' = ret /\ wptrace' = wptrace
    BY <1>1 DEF debug_wp_add, i
  <2>3. wps \in [Wp -> Condition \union {<<>>}] /\ c # <<>> /\ wptrace \in BOOLEAN
    BY <1>0, TableFacts DEF WpTypeOK
  <2>4. Used' = Used \union {i}
    BY <2>1, <2>2, <2>3 DEF Used, Wp
  <2>5. Cardinality(Used') = Cardinality(Used) + 1
    BY <1>0, <2>1, <2>4, TableFacts, FS_AddElement
  <2>6. wps' \in [Wp -> Condition \union {<<>>}]
    BY <2>1, <2>2, <2>3
  <2>7. QED BY <1>0, <2>2, <2>3, <2>5, <2>6, WpTableKeeps
<1>2. ASSUME NEW i \in Wp, debug_wp_rm(i) PROVE WpInv'
  <2>1. /\ wps' = [wps EXCEPT ![i] = <<>>] /\ wps_n' = wps_n - 1 /\ contwp = "no" /\ wps[i] # <<>>
        /\ process' = process /\ contwp' = contwp /\ ret' = ret /\ wptrace' = wptrace
    BY <1>2 DEF debug_wp_rm
  <2>2. wps \in [Wp -> Condition \union {<<>>}] /\ wptrace \in BOOLEAN
    BY <1>0 DEF WpTypeOK
  <2>3. Used' = Used \ {i} /\ i \in Used
    BY <2>1, <2>2 DEF Used, Wp
  <2>4. Cardinality(Used') = Cardinality(Used) - 1
    BY <1>0, <2>3, TableFacts, FS_RemoveElement
  <2>5. wps' \in [Wp -> Condition \union {<<>>}]
    BY <2>1, <2>2
  <2>6. QED BY <1>0, <2>1, <2>2, <2>4, <2>5, WpTableKeeps
<1>3. ASSUME debug_contwp \/ Stopped \/ \E b \in BOOLEAN : SetWptrace(b) PROVE WpInv'
  <2>1. /\ wps' = wps /\ wps_n' = wps_n /\ process' = process /\ ret' = ret
        /\ contwp' \in {"no", "steps"} /\ wptrace' \in BOOLEAN
    BY <1>0, <1>3 DEF WpTypeOK, debug_contwp, Stopped, SetWptrace
  <2>2. Used' = Used /\ wps \in [Wp -> Condition \union {<<>>}]
    BY <1>0, <2>1 DEF Used, Wp, WpTypeOK
  <2>3. QED BY <1>0, <2>1, <2>2, WpTableKeeps
<1>4. ASSUME NEW p \in [Comparison -> BOOLEAN], Step(p) PROVE WpInv'
  <2> DEFINE r == debug_wp_match(p)
  <2>1. /\ process' = p /\ ret' = r /\ wps' = wps /\ wps_n' = wps_n /\ wptrace' = wptrace
        /\ contwp' = IF r = -1 \/ wptrace THEN "steps" ELSE "matched"
    BY <1>4 DEF Step
  <2>2. \/ r = -1 /\ \A i \in Used : ~Means(wps[i], p)
        \/ r \in Used /\ Means(wps[r], p) /\ \A j \in Used : j < r => ~Means(wps[j], p)
    BY MatchFacts
  <2> HIDE DEF r
  <2>3. Used' = Used /\ Used \subseteq Wp
    BY <2>1 DEF Used, Wp
  <2>4. WpTypeOK'
    BY <1>0, <2>1, <2>2, <2>3 DEF WpTypeOK, Wp
  <2>5. wps_n' = Cardinality(Used')
    BY <1>0, <2>1, <2>3
  <2>6. ASSUME contwp' = "matched"
        PROVE  ret' \in Used' /\ Means(wps'[ret'], process')
               /\ \A j \in Used' : j < ret' => ~Means(wps'[j], process')
    <3>1. r # -1
      BY <2>1, <2>6
    <3>2. r \in Used /\ Means(wps[r], p) /\ \A j \in Used : j < r => ~Means(wps[j], p)
      BY <2>2, <3>1, Zenon
    <3>3. QED BY <2>1, <2>3, <3>2, Zenon
  <2>7. StopsWhereItHolds'
    BY <2>5, <2>6, Zenon DEF StopsWhereItHolds
  <2>8. QED BY <2>4, <2>7 DEF WpInv
<1>5. CASE UNCHANGED wpvars
  BY <1>5 DEF wpvars, WpInv, WpTypeOK, StopsWhereItHolds, Used, Wp
<1>6. QED BY <1>1, <1>2, <1>3, <1>4, <1>5 DEF WpNext

\* The table is empty at first.
LEMMA WpInitHolds == Init => WpInv
<1> SUFFICES ASSUME WpInit PROVE WpInv
  BY DEF Init
<1>1. Used = {}
  BY DEF WpInit, Used
<1>2. Cardinality(Used) = 0
  BY <1>1, FS_EmptySet
<1>3. WpTypeOK
  BY WatchAssumption DEF WpInit, WpTypeOK, Wp
<1>4. QED BY <1>2, <1>3 DEF WpInit, WpInv, StopsWhereItHolds

\* A step of !contwp that goes on passes nothing.
LEMMA PassesNothing ==
  ASSUME WpInv, [WpNext]_wpvars
  PROVE  [contwp = "steps" /\ contwp' = "steps" /\ ~wptrace =>
            \A i \in Used : ~Means(wps[i], process')]_wpvars
<1> SUFFICES ASSUME WpNext, contwp = "steps", contwp' = "steps", ~wptrace
             PROVE  \A i \in Used : ~Means(wps[i], process')
  OBVIOUS
<1>1. PICK p \in [Comparison -> BOOLEAN] : Step(p)
  BY DEF WpNext, debug_wp_add, debug_wp_rm, debug_contwp, Stopped, SetWptrace
<1>2. process' = p /\ debug_wp_match(p) = -1
  BY <1>1 DEF Step
<1>3. -1 \notin Used
  BY TableFacts DEF WpInv
<1>4. QED BY <1>2, <1>3, MatchFacts

\* A step of the session is one on the watchpoints or leaves them alone.
LEMMA WpSteps == [Next]_vars => [WpNext]_wpvars
BY DEF Next, vars, wpvars, OnlyMacros

\* Watchpoints stop the process where their conditions hold, and only there,
\* for every size of the table and all conditions of whatever length.
THEOREM WatchCorrect == Spec => WatchTrue
<1>1. WpInv => WpTypeOK /\ StopsWhereItHolds
  BY DEF WpInv
<1>2. QED
  BY <1>1, WpInitHolds, WpSteps, WpNextKeeps, PassesNothing, PTL DEF Spec, WatchTrue, NothingPassed

------------------------------------------------------------------------------
(***************************************************************************)
(* Macros.  Every call but the last waits for one above it; the line ends  *)
(* overwritten are those of failed jumps and those of the waiting lines    *)
(* that had one, each overwritten once; a waiting line without one is the  *)
(* last of its macro, or was cut by a failed jump or by a call further     *)
(* down, which is there as long as it waits.  A label lies behind.         *)
(***************************************************************************)
CutAt(s, m, l) == \E k \in DOMAIN s : s[k].mac = m /\ s[k].end /\ s[k].line = l

CallersWait ==
  \A k \in DOMAIN stack :
    /\ k < Len(stack) => stack[k].waits
    /\ stack[k].end => stack[k].waits /\ stack[k].line < Len(code[stack[k].mac])
                       /\ stack[k].line \notin torn[stack[k].mac]
    /\ stack[k].label # NoLabel => stack[k].label[2] < stack[k].line

CutKnown == \A m \in Macro, l \in Nat : l \in cut[m] <=> l \in torn[m] \/ CutAt(stack, m, l)

CutOnce ==
  \A j, k \in DOMAIN stack :
    stack[j].mac = stack[k].mac /\ stack[j].end /\ stack[k].end /\ stack[j].line = stack[k].line => j = k

CallersStopped ==
  \A k \in DOMAIN stack :
    stack[k].waits /\ ~stack[k].end =>
      \/ stack[k].line = Len(code[stack[k].mac])
      \/ stack[k].line \in torn[stack[k].mac]
      \/ \E i \in DOMAIN stack :
           i < k /\ stack[i].mac = stack[k].mac /\ stack[i].end /\ stack[i].line = stack[k].line

BreakSeen == macro_break /\ stack # <<>> => stack[Len(stack)].waits

MacInv ==
  /\ MacTypeOK /\ CallersWait /\ CutKnown /\ CutOnce /\ CallersStopped
  /\ RecursionSeesPrefix /\ BreakSeen

\* The stack without its last call, and with another one in its place.
LEMMA StackFacts ==
  ASSUME NEW s \in Seq(Frame), s # <<>>, NEW F \in Frame
  PROVE  /\ Len(s) \in Nat \ {0} /\ DOMAIN s = 1 .. Len(s) /\ s[Len(s)] \in Frame
         /\ SubSeq(s, 1, Len(s) - 1) \in Seq(Frame) /\ Len(SubSeq(s, 1, Len(s) - 1)) = Len(s) - 1
         /\ \A k \in 1 .. Len(s) - 1 : SubSeq(s, 1, Len(s) - 1)[k] = s[k]
         /\ Append(SubSeq(s, 1, Len(s) - 1), F) \in Seq(Frame)
         /\ Len(Append(SubSeq(s, 1, Len(s) - 1), F)) = Len(s)
         /\ Append(SubSeq(s, 1, Len(s) - 1), F)[Len(s)] = F
         /\ \A k \in 1 .. Len(s) - 1 : Append(SubSeq(s, 1, Len(s) - 1), F)[k] = s[k]
<1> DEFINE n == Len(s)
           b == SubSeq(s, 1, n - 1)
<1>1. n \in Nat \ {0} /\ DOMAIN s = 1 .. n /\ s[n] \in Frame
  OBVIOUS
<1>2. b \in Seq(Frame) /\ Len(b) = n - 1 /\ \A k \in 1 .. n - 1 : b[k] = s[k]
  BY <1>1
<1>3. Append(b, F) \in Seq(Frame) /\ Len(Append(b, F)) = n /\ Append(b, F)[n] = F
  <2> HIDE DEF b, n
  <2> QED BY <1>1, <1>2
<1>4. \A k \in 1 .. n - 1 : Append(b, F)[k] = s[k]
  <2> HIDE DEF b, n
  <2> QED BY <1>1, <1>2
<1>5. QED BY <1>1, <1>2, <1>3, <1>4

\* A call whose line has an end is before the line of every waiting call of
\* its macro.
LEMMA BeforeCallers ==
  ASSUME MacInv, stack # <<>>, HasEnd(Top) \/ Top.end,
         NEW j \in 1 .. Len(stack) - 1, stack[j].mac = Top.mac
  PROVE  Top.line < stack[j].line
<1> DEFINE n == Len(stack)
<1>1. n \in Nat \ {0} /\ DOMAIN stack = 1 .. n /\ stack \in Seq(Frame) /\ Top = stack[n]
  BY DEF MacInv, MacTypeOK, Top
<1>2. Top \in Frame /\ stack[j] \in Frame /\ j \in DOMAIN stack /\ n \in DOMAIN stack /\ j < n
  BY <1>1
<1>3. Top.line \in Nat /\ stack[j].line \in Nat /\ Top.mac \in Macro
  BY <1>2 DEF Frame
<1>4. Top.line <= stack[j].line
  BY <1>1, <1>2 DEF MacInv, RecursionSeesPrefix
<1>5. stack[j].waits
  BY <1>2 DEF MacInv, CallersWait
<1>6. SUFFICES ASSUME Top.line = stack[j].line PROVE FALSE
  BY <1>3, <1>4
<1>7. CASE stack[j].end
  <2>1. Top.line \in cut[Top.mac]
    BY <1>2, <1>3, <1>6, <1>7 DEF MacInv, CutKnown, CutAt
  <2>2. Top.end
    BY <2>1 DEF HasEnd
  <2>3. j = n
    BY <2>2, <1>1, <1>2, <1>6, <1>7 DEF MacInv, CutOnce
  <2>4. QED BY <2>3, <1>2
<1>8. CASE ~stack[j].end
  <2>1. Top.line < Len(code[Top.mac])
    BY <1>1, <1>2 DEF HasEnd, MacInv, CallersWait
  <2>2. Top.line \notin torn[Top.mac]
    <3>1. CASE HasEnd(Top)
      BY <3>1, <1>3 DEF HasEnd, MacInv, CutKnown
    <3>2. CASE Top.end
      BY <3>2, <1>1, <1>2 DEF MacInv, CallersWait
    <3>3. QED BY <3>1, <3>2
  <2>3. PICK i \in DOMAIN stack : i < j /\ stack[i].mac = stack[j].mac /\ stack[i].end /\ stack[i].line = stack[j].line
    <3>1. stack[j].line # Len(code[stack[j].mac])
      <4>1. code[Top.mac] \in Body /\ Len(code[Top.mac]) \in Nat
        BY <1>3, MacAssumption DEF MacInv, MacTypeOK
      <4>2. QED BY <2>1, <4>1, <1>3, <1>6
    <3>2. QED BY <3>1, <2>2, <1>2, <1>5, <1>6, <1>8 DEF MacInv, CallersStopped
  <2>4. Top.line \in cut[Top.mac]
    BY <2>3, <1>3, <1>6 DEF MacInv, CutKnown, CutAt
  <2>5. Top.end
    BY <2>4 DEF HasEnd
  <2>6. i = n
    BY <2>3, <2>5, <1>1, <1>2, <1>6 DEF MacInv, CutOnce
  <2>7. QED BY <2>6, <2>3, <1>1, <1>2
<1>9. QED BY <1>7, <1>8

\* The fields of a call.
LEMMA FrameFacts ==
  ASSUME MacTypeOK
  PROVE  \A k \in DOMAIN stack : /\ stack[k] \in Frame /\ stack[k].mac \in Macro /\ stack[k].line \in Nat
                                 /\ stack[k].label # NoLabel => stack[k].label[2] \in Nat
<1>1. stack \in Seq(Frame)
  BY DEF MacTypeOK
<1>2. \A k \in DOMAIN stack : stack[k] \in Frame
  BY <1>1
<1>3. \A F \in Frame : F.mac \in Macro /\ F.line \in Nat /\ (F.label # NoLabel => F.label[2] \in Nat)
  BY DEF Frame
<1>4. QED BY <1>2, <1>3

\* A call returns: what held of the others still does.  A failed jump may
\* tear its line, which nobody had cut.
LEMMA PopKeeps ==
  ASSUME MacInv, stack # <<>>, stack' = Below, macro_level' = macro_level - 1, code' = code,
         cut' \in [Macro -> SUBSET Nat], torn' \in [Macro -> SUBSET Nat], macro_break' \in BOOLEAN,
         \A m \in Macro : torn[m] \subseteq torn'[m],
         \A m \in Macro : \A l \in torn'[m] : l \in torn[m] \/ (m = Top.mac /\ HasEnd(Top) /\ l = Top.line),
         CutKnown'
  PROVE  MacInv'
<1> DEFINE n == Len(stack)
<1>1. stack \in Seq(Frame) /\ n \in Nat \ {0} /\ DOMAIN stack = 1 .. n /\ Top = stack[n]
  BY DEF MacInv, MacTypeOK, Top
<1>2. /\ Top \in Frame
      /\ \A k \in 1 .. n : stack[k] \in Frame /\ stack[k].mac \in Macro /\ stack[k].line \in Nat
  BY <1>1, FrameFacts DEF MacInv
<1>3. stack' \in Seq(Frame) /\ Len(stack') = n - 1 /\ \A k \in 1 .. n - 1 : stack'[k] = stack[k]
  BY <1>1, <1>2, StackFacts DEF Below
<1>4. DOMAIN stack' = 1 .. n - 1
  BY <1>3
<1>n. n = Len(stack)
  OBVIOUS
<1> HIDE DEF n
<1>5. \A k \in DOMAIN stack' : k \in DOMAIN stack /\ k < n /\ stack'[k] = stack[k] /\ stack[k].mac \in Macro
  BY <1>1, <1>2, <1>3, <1>4
<1>6. MacTypeOK'
  <2>1. macro_level' = Len(stack') /\ macro_level' <= MACRO_LIMIT
    BY <1>n, <1>1, <1>3, MacAssumption DEF MacInv, MacTypeOK
  <2>2. QED BY <2>1, <1>3, <1>5 DEF MacInv, MacTypeOK
<1>7. ASSUME NEW k \in DOMAIN stack', stack[k].end PROVE stack[k].line \notin torn'[stack[k].mac]
  <2>1. stack[k].line \notin torn[stack[k].mac]
    BY <1>5, <1>7 DEF MacInv, CallersWait
  <2>2. stack[k].mac \in Macro /\ stack[k].line \in Nat /\ stack[k].line \in cut[stack[k].mac]
    <3>1. stack[k].mac \in Macro /\ stack[k].line \in Nat /\ k \in DOMAIN stack
      BY <1>1, <1>2, <1>5
    <3>2. QED BY <3>1, <1>7 DEF MacInv, CutKnown, CutAt
  <2>3. QED BY <2>1, <2>2 DEF HasEnd
<1>8. CallersWait'
  BY <1>n, <1>1, <1>3, <1>5, <1>7 DEF MacInv, CallersWait
<1>9. CutOnce'
  BY <1>5 DEF MacInv, CutOnce
<1>10. CallersStopped'
  <2>1. SUFFICES ASSUME NEW k \in DOMAIN stack', stack[k].waits, ~stack[k].end,
                        stack[k].line # Len(code[stack[k].mac]), stack[k].line \notin torn'[stack[k].mac]
                 PROVE  \E i \in DOMAIN stack' : i < k /\ stack'[i].mac = stack'[k].mac
                                                 /\ stack'[i].end /\ stack'[i].line = stack'[k].line
    BY <1>5 DEF CallersStopped
  <2>2. stack[k].line \notin torn[stack[k].mac]
    BY <2>1, <1>5
  <2>3. PICK i \in DOMAIN stack : i < k /\ stack[i].mac = stack[k].mac /\ stack[i].end /\ stack[i].line = stack[k].line
    BY <2>1, <2>2, <1>5 DEF MacInv, CallersStopped
  <2>4. i \in DOMAIN stack'
    BY <2>3, <1>1, <1>4, <1>5
  <2>5. QED BY <2>3, <2>4, <1>5
<1>11. RecursionSeesPrefix'
  BY <1>5 DEF MacInv, RecursionSeesPrefix
<1>12. BreakSeen'
  <2>1. SUFFICES ASSUME stack' # <<>> PROVE stack'[Len(stack')].waits
    BY DEF BreakSeen
  <2>2. Len(stack') \in DOMAIN stack' /\ Len(stack') < n
    BY <2>1, <1>1, <1>3, <1>4
  <2>3. QED BY <1>n, <2>2, <1>5 DEF MacInv, CallersWait
<1>13. QED BY <1>6, <1>8, <1>9, <1>10, <1>11, <1>12 DEF MacInv

\* A call goes on with another line, no further than the next.
LEMMA PutKeeps ==
  ASSUME MacInv, stack # <<>>, NEW F \in Frame, stack' = Append(Below, F),
         macro_level' = macro_level, code' = code, torn' = torn, macro_break' = FALSE,
         cut' \in [Macro -> SUBSET Nat], CutKnown', HasEnd(Top) \/ Top.end,
         F.mac = Top.mac, ~F.waits, ~F.end, F.line \in 1 .. Top.line + 1,
         F.label # NoLabel => F.label[2] < F.line
  PROVE  MacInv'
<1> DEFINE n == Len(stack)
<1>1. stack \in Seq(Frame) /\ n \in Nat \ {0} /\ DOMAIN stack = 1 .. n /\ Top = stack[n]
  BY DEF MacInv, MacTypeOK, Top
<1>2. /\ Top \in Frame /\ Top.line \in Nat /\ Top.mac \in Macro
      /\ \A k \in 1 .. n : stack[k] \in Frame /\ stack[k].mac \in Macro /\ stack[k].line \in Nat
  BY <1>1, FrameFacts DEF MacInv
<1>3. /\ stack' \in Seq(Frame) /\ Len(stack') = n /\ stack'[n] = F
      /\ \A k \in 1 .. n - 1 : stack'[k] = stack[k]
  BY <1>1, StackFacts DEF Below
<1>4. DOMAIN stack' = 1 .. n
  BY <1>3
<1>n. n = Len(stack)
  OBVIOUS
<1> HIDE DEF n
<1>5. \A k \in 1 .. n - 1 : k \in DOMAIN stack /\ k < n /\ stack'[k] = stack[k] /\ stack[k].mac \in Macro
  BY <1>1, <1>2, <1>3
<1>6. MacTypeOK'
  <2>1. F.line \in DOMAIN code[F.mac]
    <3>1. code[Top.mac] \in Seq(MacLine)
      BY <1>2, MacAssumption DEF MacInv, MacTypeOK
    <3>2. Top.line < Len(code[Top.mac])
      BY <1>1 DEF HasEnd, MacInv, CallersWait
    <3>3. QED BY <3>1, <3>2, <1>2
  <2>2. \A k \in DOMAIN stack' : stack'[k].line \in DOMAIN code[stack'[k].mac]
    <3>1. \A k \in 1 .. n - 1 : stack'[k].line \in DOMAIN code[stack'[k].mac]
      BY <1>5 DEF MacInv, MacTypeOK
    <3>2. \A k \in 1 .. n : k \in 1 .. n - 1 \/ k = n
      BY <1>1
    <3>3. QED BY <3>1, <3>2, <2>1, <1>3, <1>4
  <2>3. QED BY <1>n, <2>2, <1>3 DEF MacInv, MacTypeOK
<1>7. \A k \in DOMAIN stack' : k \in 1 .. n - 1 \/ k = n
  BY <1>1, <1>4
<1>8. CallersWait'
  <2>1. \A k \in 1 .. n - 1 :
          /\ stack'[k].waits
          /\ stack'[k].end => stack'[k].line < Len(code[stack'[k].mac]) /\ stack'[k].line \notin torn[stack'[k].mac]
          /\ stack'[k].label # NoLabel => stack'[k].label[2] < stack'[k].line
    BY <1>n, <1>5 DEF MacInv, CallersWait
  <2>2. QED BY <2>1, <1>1, <1>3, <1>7 DEF CallersWait
<1>9. CutOnce'
  BY <1>5, <1>7, <1>3 DEF MacInv, CutOnce
<1>10. CallersStopped'
  <2>1. SUFFICES ASSUME NEW k \in 1 .. n - 1, stack[k].waits, ~stack[k].end,
                        stack[k].line # Len(code[stack[k].mac]), stack[k].line \notin torn[stack[k].mac]
                 PROVE  \E i \in DOMAIN stack' : i < k /\ stack'[i].mac = stack'[k].mac
                                                 /\ stack'[i].end /\ stack'[i].line = stack'[k].line
    <3>1. SUFFICES ASSUME NEW k \in DOMAIN stack', stack'[k].waits, ~stack'[k].end
                   PROVE  \/ stack'[k].line = Len(code'[stack'[k].mac])
                          \/ stack'[k].line \in torn'[stack'[k].mac]
                          \/ \E i \in DOMAIN stack' : i < k /\ stack'[i].mac = stack'[k].mac
                                                       /\ stack'[i].end /\ stack'[i].line = stack'[k].line
      BY DEF CallersStopped
    <3>2. k \in 1 .. n - 1 /\ stack'[k] = stack[k]
      BY <3>1, <1>3, <1>5, <1>7
    <3>3. QED BY <3>1, <3>2, <2>1
  <2>2. PICK i \in DOMAIN stack : i < k /\ stack[i].mac = stack[k].mac /\ stack[i].end /\ stack[i].line = stack[k].line
    BY <2>1, <1>5 DEF MacInv, CallersStopped
  <2>3. i \in 1 .. n - 1 /\ i \in DOMAIN stack'
    BY <2>2, <1>1, <1>4
  <2>4. QED BY <2>2, <2>3, <1>5
<1>11. RecursionSeesPrefix'
  <2>1. SUFFICES ASSUME NEW j \in DOMAIN stack', NEW k \in DOMAIN stack', j < k, stack'[j].mac = stack'[k].mac
                 PROVE  stack'[k].line <= stack'[j].line
    BY DEF RecursionSeesPrefix
  <2>2. j \in 1 .. n - 1 /\ stack'[j] = stack[j]
    BY <2>1, <1>1, <1>4, <1>5
  <2>3. CASE k \in 1 .. n - 1
    BY <2>1, <2>2, <2>3, <1>5 DEF MacInv, RecursionSeesPrefix
  <2>4. CASE k = n
    <3>1. Top.line < stack[j].line
      BY <1>n, <2>1, <2>2, <2>4, <1>3, BeforeCallers
    <3>2. stack[j].line \in Nat
      BY <2>2, <1>1, <1>2
    <3>3. QED BY <3>1, <3>2, <2>2, <2>4, <1>2, <1>3
  <2>5. QED BY <2>3, <2>4, <1>7
<1>12. BreakSeen'
  BY DEF BreakSeen
<1>13. QED BY <1>6, <1>8, <1>9, <1>10, <1>11, <1>12 DEF MacInv

\* As long as the last call overwrites no line end, what is overwritten is
\* a matter of the others.
LEMMA CutSame ==
  ASSUME MacTypeOK, stack # <<>>, NEW t, NEW F, ~Top.end,
         \/ t = Below
         \/ F \in Frame /\ ~F.end /\ t = Append(Below, F)
  PROVE  \A m, l : CutAt(t, m, l) <=> CutAt(stack, m, l)
<1> DEFINE n == Len(stack)
<1>1. stack \in Seq(Frame) /\ n \in Nat \ {0} /\ DOMAIN stack = 1 .. n /\ Top = stack[n] /\ stack[n] \in Frame
  BY FrameFacts DEF MacTypeOK, Top
<1>2. \A k \in 1 .. n : k \in 1 .. n - 1 \/ k = n
  <2>1. \A a \in Nat \ {0} : \A k \in 1 .. a : k \in 1 .. a - 1 \/ k = a
    OBVIOUS
  <2> HIDE DEF n
  <2>2. QED BY <1>1, <2>1
<1>3. CASE t = Below
  <2>1. DOMAIN t = 1 .. n - 1 /\ \A k \in 1 .. n - 1 : t[k] = stack[k]
    BY <1>1, <1>3, StackFacts DEF Below
  <2> HIDE DEF n
  <2>2. QED BY <1>1, <1>2, <2>1 DEF CutAt
<1>4. CASE F \in Frame /\ ~F.end /\ t = Append(Below, F)
  <2>1. t \in Seq(Frame) /\ Len(t) = n /\ t[n] = F /\ \A k \in 1 .. n - 1 : t[k] = stack[k]
    <3> DEFINE u == Append(SubSeq(stack, 1, Len(stack) - 1), F)
    <3>1. /\ u \in Seq(Frame) /\ Len(u) = Len(stack) /\ u[Len(stack)] = F
          /\ \A k \in 1 .. Len(stack) - 1 : u[k] = stack[k]
      BY <1>1, <1>4, StackFacts, Zenon
    <3>2. t = u
      BY <1>4 DEF Below
    <3> HIDE DEF u
    <3>3. QED BY <3>1, <3>2
  <2>2. DOMAIN t = 1 .. n
    BY <2>1
  <2> HIDE DEF n
  <2>3. QED BY <1>1, <1>2, <1>4, <2>1, <2>2 DEF CutAt
<1>5. QED BY <1>3, <1>4

\* A running call is not waiting, and no break is under way.
LEMMA RunningFacts ==
  ASSUME MacInv, Running
  PROVE  /\ stack # <<>> /\ ~Top.waits /\ ~Top.end /\ macro_break = FALSE
         /\ Top \in Frame /\ Top.mac \in Macro /\ Top.line \in Nat \ {0} /\ Top.line \in DOMAIN code[Top.mac]
         /\ Top.label # NoLabel => Top.label[2] \in Nat /\ Top.label[2] < Top.line
         /\ Line \in MacLine
<1> DEFINE n == Len(stack)
<1>1. stack \in Seq(Frame) /\ stack # <<>> /\ Top = stack[Len(stack)]
  BY DEF MacInv, MacTypeOK, Running, Top
<1>2. Len(stack) \in DOMAIN stack
  BY <1>1
<1>3. /\ Top \in Frame /\ Top.mac \in Macro /\ Top.line \in Nat
      /\ Top.label # NoLabel => Top.label[2] \in Nat
  BY <1>1, <1>2, FrameFacts DEF MacInv
<1>4. ~Top.waits /\ ~Top.end /\ (Top.label # NoLabel => Top.label[2] < Top.line)
  BY <1>1, <1>2 DEF MacInv, CallersWait, Running
<1>5. macro_break = FALSE
  BY <1>1, <1>4 DEF MacInv, BreakSeen, MacTypeOK
<1>6. Top.line \in DOMAIN code[Top.mac]
  BY <1>1, <1>2 DEF MacInv, MacTypeOK
<1>7. code[Top.mac] \in Seq(MacLine)
  BY <1>3, MacAssumption DEF MacInv, MacTypeOK
<1>8. Top.line # 0 /\ Line \in MacLine
  BY <1>6, <1>7, <1>3 DEF Line
<1>9. QED BY <1>1, <1>3, <1>4, <1>5, <1>6, <1>8

\* A call that overwrites nothing returns.
LEMMA ReturnKeeps ==
  ASSUME MacInv, Running, Return, code' = code, cut' = cut, torn' = torn, macro_break' \in BOOLEAN
  PROVE  MacInv'
<1>1. stack # <<>> /\ ~Top.end /\ MacTypeOK
  BY RunningFacts DEF MacInv
<1>2. CutKnown'
  <2>1. \A m, l : CutAt(stack', m, l) <=> CutAt(stack, m, l)
    BY <1>1, CutSame DEF Return
  <2>2. QED BY <2>1 DEF MacInv, CutKnown
<1>3. QED BY <1>1, <1>2, PopKeeps DEF MacInv, MacTypeOK, Return

\* A call that overwrites nothing goes on at line l.
LEMMA LineKeeps ==
  ASSUME MacInv, Running, HasEnd(Top), NEW F \in Frame, stack' = Append(Below, F),
         F.mac = Top.mac, ~F.waits, ~F.end, F.line \in 1 .. Top.line + 1,
         F.label # NoLabel => F.label[2] < F.line,
         UNCHANGED <<code, cut, torn, macro_level, macro_break>>
  PROVE  MacInv'
<1>1. stack # <<>> /\ ~Top.end /\ MacTypeOK /\ macro_break' = FALSE
  BY RunningFacts DEF MacInv
<1>2. CutKnown'
  <2>1. \A m, l : CutAt(stack', m, l) <=> CutAt(stack, m, l)
    BY <1>1, CutSame
  <2>2. QED BY <2>1 DEF MacInv, CutKnown
<1>3. cut' \in [Macro -> SUBSET Nat]
  BY DEF MacInv, MacTypeOK
<1>4. QED BY <1>1, <1>2, <1>3, PutKeeps

\* A line that calls nothing.
LEMMA GoKeeps ==
  ASSUME MacInv, Running, NEW l \in 1 .. Top.line + 1, Go(l), Top.label # NoLabel => Top.label[2] < l,
         UNCHANGED <<code, cut, torn, macro_break>>
  PROVE  MacInv'
<1>1. CASE HasEnd(Top)
  <2> DEFINE F == [Top EXCEPT !.line = l]
  <2>1. Top \in Frame /\ ~Top.waits /\ ~Top.end /\ l \in Nat
    BY RunningFacts
  <2>2. /\ F \in Frame /\ F.mac = Top.mac /\ ~F.waits /\ ~F.end /\ F.line = l
        /\ F.label = Top.label
    BY <2>1 DEF Frame
  <2>3. stack' = Append(Below, F) /\ macro_level' = macro_level
    BY <1>1 DEF Go, JumpTo
  <2> HIDE DEF F
  <2>4. QED BY <1>1, <2>2, <2>3, LineKeeps
<1>2. CASE ~HasEnd(Top)
  <2>1. Return
    BY <1>2 DEF Go
  <2>2. macro_break' \in BOOLEAN
    BY DEF MacInv, MacTypeOK
  <2>3. QED BY <2>1, <2>2, ReturnKeeps
<1>3. QED BY <1>1, <1>2

\* A call that waits no longer.
LEMMA Resumed ==
  ASSUME NEW T \in Frame, NEW l \in Nat
  PROVE  /\ [T EXCEPT !.line = l, !.waits = FALSE, !.end = FALSE] \in Frame
         /\ [T EXCEPT !.line = l, !.waits = FALSE, !.end = FALSE].mac = T.mac
         /\ [T EXCEPT !.line = l, !.waits = FALSE, !.end = FALSE].line = l
         /\ [T EXCEPT !.line = l, !.waits = FALSE, !.end = FALSE].label = T.label
         /\ [T EXCEPT !.line = l, !.waits = FALSE, !.end = FALSE].waits = FALSE
         /\ [T EXCEPT !.line = l, !.waits = FALSE, !.end = FALSE].end = FALSE
<1> USE DEF Frame
<1>1. [T EXCEPT !.line = l, !.waits = FALSE, !.end = FALSE] \in Frame
  OBVIOUS
<1>2. /\ [T EXCEPT !.line = l, !.waits = FALSE, !.end = FALSE].mac = T.mac
      /\ [T EXCEPT !.line = l, !.waits = FALSE, !.end = FALSE].line = l
      /\ [T EXCEPT !.line = l, !.waits = FALSE, !.end = FALSE].label = T.label
      /\ [T EXCEPT !.line = l, !.waits = FALSE, !.end = FALSE].waits = FALSE
      /\ [T EXCEPT !.line = l, !.waits = FALSE, !.end = FALSE].end = FALSE
  OBVIOUS
<1>3. QED BY <1>1, <1>2

\* A label is noted where it stands, before the line that comes next.
LEMMA LabelKeeps == MacInv /\ macro_label => MacInv'
<1>1. SUFFICES ASSUME MacInv, macro_label PROVE MacInv'
  OBVIOUS
<1>2. /\ Running /\ Line[1] = "label"
      /\ UNCHANGED <<code, cut, macro_break, torn>>
  BY <1>1 DEF macro_label
<1>3. CASE HasEnd(Top)
  <2> DEFINE lb == IF Top.label = NoLabel THEN <<Line[2], Top.line>> ELSE Top.label
             F == [Top EXCEPT !.line = Top.line + 1, !.label = lb]
  <2>1. /\ Top \in Frame /\ ~Top.waits /\ ~Top.end /\ Top.line \in Nat \ {0}
        /\ Top.label # NoLabel => Top.label[2] \in Nat /\ Top.label[2] < Top.line
        /\ Line \in MacLine
    BY <1>1, <1>2, RunningFacts
  <2>2. Line[2] \in Label
    <3>1. Line \in {"label", "goto", "if"} \X Label
      BY <1>2, <2>1 DEF MacLine
    <3>2. QED BY <3>1
  <2>3. lb \in {NoLabel} \union (Label \X Nat)
    BY <2>1, <2>2 DEF Frame
  <2>4. lb[2] < Top.line + 1
    BY <2>1
  <2> HIDE DEF lb
  <2>5. /\ F \in Frame /\ F.mac = Top.mac /\ ~F.waits /\ ~F.end /\ F.line = Top.line + 1
        /\ F.label = lb
    <3>1. Top.line + 1 \in Nat
      BY <2>1
    <3>2. /\ F \in Frame /\ F.mac = Top.mac /\ F.waits = Top.waits /\ F.end = Top.end
          /\ F.line = Top.line + 1 /\ F.label = lb
      <4> DEFINE l == Top.line + 1
      <4>1. l \in Nat
        BY <3>1
      <4> HIDE DEF l
      <4>2. [Top EXCEPT !.line = l, !.label = lb] \in Frame
        BY <2>1, <2>3, <4>1 DEF Frame
      <4>3. /\ [Top EXCEPT !.line = l, !.label = lb].mac = Top.mac
            /\ [Top EXCEPT !.line = l, !.label = lb].waits = Top.waits
            /\ [Top EXCEPT !.line = l, !.label = lb].end = Top.end
            /\ [Top EXCEPT !.line = l, !.label = lb].line = l
            /\ [Top EXCEPT !.line = l, !.label = lb].label = lb
        BY <2>1 DEF Frame
      <4>4. QED BY <4>2, <4>3 DEF l
    <3> HIDE DEF F
    <3>3. QED BY <2>1, <3>2
  <2>6. stack' = Append(Below, F) /\ macro_level' = macro_level
    BY <1>1, <1>3 DEF macro_label, lb
  <2>7. Top.line + 1 \in 1 .. Top.line + 1
    BY <2>1
  <2> HIDE DEF F
  <2>8. QED BY <1>1, <1>2, <1>3, <2>4, <2>5, <2>6, <2>7, LineKeeps
<1>4. CASE ~HasEnd(Top)
  <2>1. Return
    BY <1>1, <1>4 DEF macro_label
  <2>2. macro_break' \in BOOLEAN
    BY <1>1, <1>2 DEF MacInv, MacTypeOK
  <2>3. QED BY <1>1, <1>2, <2>1, <2>2, ReturnKeeps
<1>5. QED BY <1>3, <1>4

\* Commands, jumps that are taken and calls that are refused.
LEMMA GoesKeep == MacInv /\ (Command \/ Jump \/ CallRefused) => MacInv'
<1>1. ASSUME MacInv, Command \/ CallRefused PROVE MacInv'
  <2>1. Running /\ Go(Top.line + 1) /\ UNCHANGED <<code, cut, macro_break, torn>>
    BY <1>1 DEF Command, CallRefused
  <2>2. /\ Top.line \in Nat \ {0}
        /\ Top.label # NoLabel => Top.label[2] \in Nat /\ Top.label[2] < Top.line
    BY <1>1, <2>1, RunningFacts
  <2>3. Top.line + 1 \in 1 .. Top.line + 1 /\ (Top.label # NoLabel => Top.label[2] < Top.line + 1)
    BY <2>2
  <2>4. QED BY <1>1, <2>1, <2>3, GoKeeps
<1>2. ASSUME MacInv, Jump PROVE MacInv'
  <2>1. Running /\ Go(Top.label[2] + 1) /\ Top.label # NoLabel /\ UNCHANGED <<code, cut, macro_break, torn>>
    BY <1>2 DEF Jump, Noted
  <2>2. Top.line \in Nat \ {0} /\ Top.label[2] \in Nat /\ Top.label[2] < Top.line
    BY <1>2, <2>1, RunningFacts
  <2>3. Top.label[2] + 1 \in 1 .. Top.line + 1 /\ Top.label[2] < Top.label[2] + 1
    BY <2>2
  <2>4. QED BY <1>2, <2>1, <2>3, GoKeeps
<1>3. QED BY <1>1, <1>2

\* A break ends its call.
LEMMA BreakKeeps == MacInv /\ radare_macro_break => MacInv'
  BY ReturnKeeps DEF radare_macro_break

\* A jump that fails tears a line nobody had cut.
LEMMA TornKeeps == MacInv /\ JumpFails => MacInv'
<1>1. SUFFICES ASSUME MacInv, JumpFails PROVE MacInv'
  OBVIOUS
<1> DEFINE at == IF HasEnd(Top) THEN {Top.line} ELSE {}
<1>2. /\ Running /\ Return /\ code' = code /\ macro_break' = macro_break
      /\ cut' = [cut EXCEPT ![Top.mac] = @ \union at]
      /\ torn' = [torn EXCEPT ![Top.mac] = @ \union at]
  BY <1>1 DEF JumpFails
<1>3. stack # <<>> /\ ~Top.end /\ MacTypeOK /\ Top.mac \in Macro /\ Top.line \in Nat
  BY <1>1, <1>2, RunningFacts DEF MacInv
<1>4. at \subseteq Nat /\ \A l \in at : HasEnd(Top) /\ l = Top.line
  BY <1>3
<1> HIDE DEF at
<1>5. /\ cut \in [Macro -> SUBSET Nat] /\ torn \in [Macro -> SUBSET Nat]
      /\ cut' \in [Macro -> SUBSET Nat] /\ torn' \in [Macro -> SUBSET Nat]
  BY <1>2, <1>3, <1>4 DEF MacTypeOK
<1>6. \A m \in Macro : /\ cut'[m] = IF m = Top.mac THEN cut[m] \union at ELSE cut[m]
                       /\ torn'[m] = IF m = Top.mac THEN torn[m] \union at ELSE torn[m]
  BY <1>2, <1>5
<1>7. CutKnown'
  <2>1. \A m, l : CutAt(stack', m, l) <=> CutAt(stack, m, l)
    BY <1>2, <1>3, CutSame DEF Return
  <2>2. \A m \in Macro, l \in Nat : l \in cut[m] <=> l \in torn[m] \/ CutAt(stack, m, l)
    BY <1>1 DEF MacInv, CutKnown
  <2>3. \A m \in Macro, l \in Nat : l \in cut'[m] <=> l \in torn'[m] \/ CutAt(stack', m, l)
    BY <2>1, <2>2, <1>6
  <2>4. QED BY <2>3 DEF CutKnown
<1>8. /\ \A m \in Macro : torn[m] \subseteq torn'[m]
      /\ \A m \in Macro : \A l \in torn'[m] : l \in torn[m] \/ (m = Top.mac /\ HasEnd(Top) /\ l = Top.line)
  BY <1>4, <1>6
<1>9. macro_break' \in BOOLEAN
  BY <1>2, <1>3 DEF MacTypeOK
<1>10. stack' = Below /\ macro_level' = macro_level - 1
  BY <1>2 DEF Return
<1>11. QED BY <1>1, <1>2, <1>3, <1>5, <1>7, <1>8, <1>9, <1>10, PopKeeps

\* The command of a line returns: only this call had overwritten its end.
LEMMA ResumeKeeps == MacInv /\ Resume => MacInv'
<1>1. SUFFICES ASSUME MacInv, Resume PROVE MacInv'
  OBVIOUS
<1> DEFINE n == Len(stack)
<1>2. /\ stack # <<>> /\ Top.waits /\ cut' = Restored
      /\ UNCHANGED <<code, macro_break, torn>>
  BY <1>1 DEF Resume
<1>3. stack \in Seq(Frame) /\ n \in Nat \ {0} /\ DOMAIN stack = 1 .. n /\ Top = stack[n]
  BY <1>1, <1>2 DEF MacInv, MacTypeOK, Top
<1>4. /\ Top \in Frame /\ Top.mac \in Macro /\ Top.line \in Nat
      /\ Top.label # NoLabel => Top.label[2] \in Nat
  BY <1>1, <1>3, FrameFacts DEF MacInv
<1>5. Top.end => Top.line < Len(code[Top.mac]) /\ Top.line \notin torn[Top.mac]
  BY <1>1, <1>3 DEF MacInv, CallersWait
<1>6. Top.label # NoLabel => Top.label[2] < Top.line
  BY <1>1, <1>3 DEF MacInv, CallersWait
<1>7. cut' \in [Macro -> SUBSET Nat]
  BY <1>1, <1>2, <1>4 DEF Restored, MacInv, MacTypeOK
<1>8. ASSUME NEW t, NEW F, t = Below \/ (F \in Frame /\ ~F.end /\ t = Append(Below, F)),
             NEW m \in Macro, NEW l \in Nat
      PROVE  l \in cut'[m] <=> l \in torn'[m] \/ CutAt(t, m, l)
  <2>1. \A k \in 1 .. n : k \in 1 .. n - 1 \/ k = n
    <3>1. \A a \in Nat \ {0} : \A k \in 1 .. a : k \in 1 .. a - 1 \/ k = a
      OBVIOUS
    <3> HIDE DEF n
    <3>2. QED BY <1>3, <3>1
  <2>2. CutAt(t, m, l) <=> \E k \in 1 .. n - 1 : stack[k].mac = m /\ stack[k].end /\ stack[k].line = l
    <3>1. CASE t = Below
      <4>1. DOMAIN t = 1 .. n - 1 /\ \A k \in 1 .. n - 1 : t[k] = stack[k]
        BY <1>3, <1>4, <3>1, StackFacts DEF Below
      <4> HIDE DEF n
      <4>2. QED BY <4>1 DEF CutAt
    <3>2. CASE F \in Frame /\ ~F.end /\ t = Append(Below, F)
      <4>1. t \in Seq(Frame) /\ Len(t) = n /\ t[n] = F /\ \A k \in 1 .. n - 1 : t[k] = stack[k]
        BY <1>2, <1>3, <3>2, StackFacts DEF Below
      <4>2. DOMAIN t = 1 .. n
        BY <4>1
      <4>3. \A k \in 1 .. n - 1 : k \in 1 .. n
        BY <1>3
      <4> HIDE DEF n
      <4>4. QED BY <2>1, <3>2, <4>1, <4>2, <4>3 DEF CutAt
    <3>3. QED BY <1>8, <3>1, <3>2
  <2>3. l \in cut[m] <=> l \in torn[m] \/ CutAt(stack, m, l)
    BY <1>1 DEF MacInv, CutKnown
  <2>4. n \in 1 .. n /\ \A k \in 1 .. n - 1 : k \in 1 .. n /\ k # n
    <3>1. \A a \in Nat \ {0} : a \in 1 .. a /\ \A k \in 1 .. a - 1 : k \in 1 .. a /\ k # a
      OBVIOUS
    <3> HIDE DEF n
    <3>2. QED BY <1>3, <3>1
  <2>5. CutAt(stack, m, l) <=> (Top.mac = m /\ Top.end /\ Top.line = l)
                               \/ \E k \in 1 .. n - 1 : stack[k].mac = m /\ stack[k].end /\ stack[k].line = l
    <3> HIDE DEF n
    <3> QED BY <1>3, <2>1, <2>4 DEF CutAt
  <2>6. cut'[m] = IF Top.end /\ m = Top.mac THEN cut[m] \ {Top.line} ELSE cut[m]
    BY <1>1, <1>2 DEF Restored, MacInv, MacTypeOK
  <2>7. \A k \in 1 .. n - 1 : Top.end /\ stack[k].mac = Top.mac /\ stack[k].end => stack[k].line # Top.line
    <3>1. \A k \in 1 .. n - 1 : k \in DOMAIN stack /\ n \in DOMAIN stack
      BY <1>3, <2>4
    <3>2. QED BY <1>1, <1>3, <2>4, <3>1 DEF MacInv, CutOnce
  <2>8. torn' = torn
    BY <1>2
  <2> HIDE DEF n
  <2>9. QED BY <1>5, <2>2, <2>3, <2>5, <2>6, <2>7, <2>8
<1>9. CASE GoesOn
  <2> DEFINE F == [Top EXCEPT !.line = Top.line + 1, !.waits = FALSE, !.end = FALSE]
  <2>1. /\ F \in Frame /\ F.mac = Top.mac /\ ~F.waits /\ ~F.end /\ F.line = Top.line + 1
        /\ F.label = Top.label
    <3>1. Top.line + 1 \in Nat
      BY <1>4
    <3>2. QED BY <1>4, <3>1, Resumed
  <2>2. stack' = Append(Below, F) /\ macro_level' = macro_level
    BY <1>1, <1>9 DEF Resume
  <2>3. macro_break' = FALSE /\ Top.end
    BY <1>1, <1>2, <1>9 DEF GoesOn, MacInv, MacTypeOK
  <2>4. F.line \in 1 .. Top.line + 1 /\ (F.label # NoLabel => F.label[2] < F.line)
    <3> HIDE DEF F
    <3> QED BY <1>4, <1>6, <2>1
  <2> HIDE DEF F
  <2>5. CutKnown'
    BY <1>8, <2>1, <2>2 DEF CutKnown
  <2>6. QED BY <1>1, <1>2, <1>7, <2>1, <2>2, <2>3, <2>4, <2>5, PutKeeps
<1>10. CASE ~GoesOn
  <2>1. stack' = Below /\ macro_level' = macro_level - 1
    BY <1>1, <1>10 DEF Resume, Return
  <2>2. CutKnown'
    BY <1>8, <2>1 DEF CutKnown
  <2>3. /\ torn' \in [Macro -> SUBSET Nat] /\ macro_break' \in BOOLEAN
        /\ \A m \in Macro : torn[m] \subseteq torn'[m]
        /\ \A m \in Macro : \A l \in torn'[m] : l \in torn[m]
    BY <1>1, <1>2 DEF MacInv, MacTypeOK
  <2>4. QED BY <1>1, <1>2, <1>7, <2>1, <2>2, <2>3, PopKeeps
<1>11. QED BY <1>9, <1>10

\* A new call: its caller waits, and overwrites the end of its line if it
\* has one.
LEMMA CallKeeps == MacInv /\ Call => MacInv'
<1>1. SUFFICES ASSUME MacInv, Call PROVE MacInv'
  OBVIOUS
<1> DEFINE n == Len(stack)
           W == [Top EXCEPT !.waits = TRUE, !.end = HasEnd(Top)]
           N == NewFrame(Line[2])
<1>2. /\ Running /\ Line[1] = "call" /\ macro_level < MACRO_LIMIT
      /\ stack' = Append(Append(Below, W), N)
      /\ cut' = [cut EXCEPT ![Top.mac] = @ \union IF HasEnd(Top) THEN {Top.line} ELSE {}]
      /\ macro_level' = macro_level + 1 /\ macro_break' = FALSE /\ code' = code /\ torn' = torn
  BY <1>1 DEF Call, Call_deeper
<1>3. /\ stack # <<>> /\ ~Top.end /\ Top \in Frame /\ Top.mac \in Macro /\ Top.line \in Nat \ {0}
      /\ Top.line \in DOMAIN code[Top.mac] /\ Line \in MacLine
      /\ Top.label # NoLabel => Top.label[2] \in Nat /\ Top.label[2] < Top.line
  BY <1>1, <1>2, RunningFacts
<1>4. stack \in Seq(Frame) /\ n \in Nat \ {0} /\ DOMAIN stack = 1 .. n /\ Top = stack[n]
  BY <1>1, <1>3 DEF MacInv, MacTypeOK, Top
<1>5. Line[2] \in Macro
  <2>1. Line \in {"call"} \X Macro
    BY <1>2, <1>3 DEF MacLine
  <2>2. QED BY <2>1
<1>6. /\ N \in Frame /\ N.mac \in Macro /\ N.line = 1 /\ N.label = NoLabel /\ ~N.waits /\ ~N.end
  BY <1>5 DEF NewFrame, Frame
<1>7. HasEnd(Top) \in BOOLEAN
  BY DEF HasEnd
<1>8. /\ W \in Frame /\ W.mac = Top.mac /\ W.line = Top.line /\ W.label = Top.label
      /\ W.waits /\ W.end = HasEnd(Top)
  <2> DEFINE e == HasEnd(Top)
  <2>1. e \in BOOLEAN
    BY <1>7
  <2> HIDE DEF e
  <2>2. [Top EXCEPT !.waits = TRUE, !.end = e] \in Frame
    BY <1>3, <2>1 DEF Frame
  <2>3. /\ [Top EXCEPT !.waits = TRUE, !.end = e].mac = Top.mac
        /\ [Top EXCEPT !.waits = TRUE, !.end = e].line = Top.line
        /\ [Top EXCEPT !.waits = TRUE, !.end = e].label = Top.label
        /\ [Top EXCEPT !.waits = TRUE, !.end = e].waits = TRUE
        /\ [Top EXCEPT !.waits = TRUE, !.end = e].end = e
    BY <1>3 DEF Frame
  <2>4. QED BY <2>2, <2>3 DEF e
<1> HIDE DEF W, N
<1>9. /\ stack' \in Seq(Frame) /\ Len(stack') = n + 1 /\ stack'[n] = W /\ stack'[n + 1] = N
      /\ \A k \in 1 .. n - 1 : stack'[k] = stack[k]
  <2> DEFINE b == Append(Below, W)
  <2>1. b \in Seq(Frame) /\ Len(b) = n /\ b[n] = W /\ \A k \in 1 .. n - 1 : b[k] = stack[k]
    BY <1>3, <1>4, <1>8, StackFacts DEF Below
  <2>2. stack' = Append(b, N)
    BY <1>2
  <2> HIDE DEF b, n
  <2>3. QED BY <1>4, <1>6, <2>1, <2>2
<1>10. DOMAIN stack' = 1 .. n + 1
  BY <1>9
<1>n. n = Len(stack) /\ n <= MACRO_LIMIT - 1 /\ macro_level = n
  BY <1>1, <1>2, <1>4, MacAssumption DEF MacInv, MacTypeOK
<1> HIDE DEF n
<1>11. /\ \A k \in 1 .. n + 1 : k \in 1 .. n - 1 \/ k = n \/ k = n + 1
       /\ \A k \in 1 .. n - 1 : k \in 1 .. n /\ k < n /\ k # n /\ k < n + 1 /\ k \in 1 .. n + 1
       /\ n \in 1 .. n + 1 /\ n + 1 \in 1 .. n + 1 /\ n < n + 1 /\ ~(n + 1 < n) /\ n \in 1 .. n
  BY <1>4
<1>12. \A k \in 1 .. n : stack[k] \in Frame /\ stack[k].mac \in Macro /\ stack[k].line \in Nat
  BY <1>1, <1>4, FrameFacts DEF MacInv
<1>13. code \in [Macro -> Body] /\ \A m \in Macro : code[m] \in Seq(MacLine) /\ code[m] # <<>>
  BY <1>1, MacAssumption DEF MacInv, MacTypeOK
<1>14. HasEnd(Top) => Top.line < Len(code[Top.mac]) /\ Top.line \notin cut[Top.mac]
  BY DEF HasEnd
<1>15. CutKnown'
  <2>1. SUFFICES ASSUME NEW m \in Macro, NEW l \in Nat
                 PROVE  l \in cut'[m] <=> l \in torn[m] \/ CutAt(stack', m, l)
    BY <1>2 DEF CutKnown
  <2>2. l \in cut[m] <=> l \in torn[m] \/ CutAt(stack, m, l)
    BY <1>1 DEF MacInv, CutKnown
  <2>3. cut'[m] = IF m = Top.mac /\ HasEnd(Top) THEN cut[m] \union {Top.line} ELSE cut[m]
    BY <1>1, <1>2 DEF MacInv, MacTypeOK
  <2>4. CutAt(stack, m, l) <=> \E k \in 1 .. n - 1 : stack[k].mac = m /\ stack[k].end /\ stack[k].line = l
    <3>1. \A k \in 1 .. n : k \in 1 .. n - 1 \/ k = n
      BY <1>4
    <3>2. QED BY <1>3, <1>4, <1>11, <3>1 DEF CutAt
  <2>5. CutAt(stack', m, l) <=> (Top.mac = m /\ HasEnd(Top) /\ Top.line = l)
                                \/ \E k \in 1 .. n - 1 : stack[k].mac = m /\ stack[k].end /\ stack[k].line = l
    BY <1>6, <1>8, <1>9, <1>10, <1>11 DEF CutAt
  <2>6. QED BY <2>2, <2>3, <2>4, <2>5
<1>16. MacTypeOK'
  <2>1. cut' \in [Macro -> SUBSET Nat]
    BY <1>1, <1>2, <1>3 DEF MacInv, MacTypeOK
  <2>2. macro_level' = Len(stack') /\ macro_level' <= MACRO_LIMIT
    <3>1. macro_level' = n + 1
      BY <1>2, <1>n
    <3>2. n + 1 <= MACRO_LIMIT
      BY <1>n, <1>4, MacAssumption
    <3>3. QED BY <3>1, <3>2, <1>9
  <2>3. \A k \in DOMAIN stack' : stack'[k].line \in DOMAIN code[stack'[k].mac]
    <3>1. \A k \in 1 .. n - 1 : stack[k].line \in DOMAIN code[stack[k].mac]
      BY <1>1, <1>4, <1>11 DEF MacInv, MacTypeOK
    <3>2. 1 \in DOMAIN code[N.mac]
      BY <1>6, <1>13
    <3>3. QED BY <3>1, <3>2, <1>3, <1>6, <1>8, <1>9, <1>10, <1>11
  <2>4. QED BY <2>1, <2>2, <2>3, <1>1, <1>2, <1>9 DEF MacInv, MacTypeOK
<1>17. CallersWait'
  <2>1. \A k \in 1 .. n - 1 :
          /\ stack[k].waits
          /\ stack[k].end => stack[k].line < Len(code[stack[k].mac]) /\ stack[k].line \notin torn[stack[k].mac]
          /\ stack[k].label # NoLabel => stack[k].label[2] < stack[k].line
    BY <1>n, <1>1, <1>4, <1>11 DEF MacInv, CallersWait
  <2>2. W.end => W.line < Len(code[W.mac]) /\ W.line \notin torn[W.mac]
    BY <1>1, <1>3, <1>8, <1>14 DEF MacInv, CutKnown
  <2>3. SUFFICES ASSUME NEW k \in DOMAIN stack'
                 PROVE  /\ k < Len(stack') => stack'[k].waits
                        /\ stack'[k].end => stack'[k].waits /\ stack'[k].line < Len(code[stack'[k].mac])
                                            /\ stack'[k].line \notin torn[stack'[k].mac]
                        /\ stack'[k].label # NoLabel => stack'[k].label[2] < stack'[k].line
    BY <1>2 DEF CallersWait
  <2>4. CASE k \in 1 .. n - 1
    BY <2>1, <2>4, <1>9
  <2>5. CASE k = n
    BY <2>2, <2>5, <1>3, <1>8, <1>9
  <2>6. CASE k = n + 1
    <3>1. ~(k < Len(stack'))
      BY <2>6, <1>4, <1>9
    <3>2. QED BY <2>6, <3>1, <1>6, <1>9
  <2>7. QED BY <2>4, <2>5, <2>6, <1>10, <1>11
<1>18. CutOnce'
  <2>1. \A k \in 1 .. n - 1 : stack[k].end /\ stack[k].mac = Top.mac /\ HasEnd(Top) => stack[k].line # Top.line
    <3>1. SUFFICES ASSUME NEW k \in 1 .. n - 1, stack[k].end, stack[k].mac = Top.mac, stack[k].line = Top.line
                   PROVE  Top.line \in cut[Top.mac]
      BY <1>14
    <3>2. CutAt(stack, Top.mac, Top.line)
      BY <3>1, <1>4, <1>11 DEF CutAt
    <3>3. QED BY <3>2, <1>1, <1>3 DEF MacInv, CutKnown
  <2>2. \A j, k \in 1 .. n - 1 :
          stack[j].mac = stack[k].mac /\ stack[j].end /\ stack[k].end /\ stack[j].line = stack[k].line => j = k
    BY <1>1, <1>4, <1>11 DEF MacInv, CutOnce
  <2>3. QED BY <2>1, <2>2, <1>6, <1>8, <1>9, <1>10, <1>11 DEF CutOnce
<1>19. CallersStopped'
  <2>1. SUFFICES ASSUME NEW k \in 1 .. n + 1, stack'[k].waits, ~stack'[k].end,
                        stack'[k].line # Len(code[stack'[k].mac]), stack'[k].line \notin torn[stack'[k].mac]
                 PROVE  \E i \in DOMAIN stack' : i < k /\ stack'[i].mac = stack'[k].mac
                                                 /\ stack'[i].end /\ stack'[i].line = stack'[k].line
    BY <1>2, <1>10 DEF CallersStopped
  <2>2. CASE k \in 1 .. n - 1
    <3>1. PICK i \in DOMAIN stack : i < k /\ stack[i].mac = stack[k].mac /\ stack[i].end /\ stack[i].line = stack[k].line
      BY <2>1, <2>2, <1>1, <1>4, <1>9, <1>11 DEF MacInv, CallersStopped
    <3>2. i \in 1 .. n - 1
      BY <3>1, <2>2, <1>4
    <3>3. QED BY <3>1, <3>2, <2>2, <1>9, <1>10, <1>11
  <2>3. CASE k = n
    <3>1. Top.line \in cut[Top.mac]
      <4>1. ~HasEnd(Top) /\ Top.line # Len(code[Top.mac])
        BY <2>1, <2>3, <1>8, <1>9
      <4>2. Len(code[Top.mac]) \in Nat /\ Top.line <= Len(code[Top.mac])
        BY <1>3, <1>13
      <4>3. QED BY <4>1, <4>2, <1>3 DEF HasEnd
    <3>2. CutAt(stack, Top.mac, Top.line)
      BY <3>1, <2>1, <2>3, <1>1, <1>3, <1>8, <1>9 DEF MacInv, CutKnown
    <3>3. PICK i \in 1 .. n : stack[i].mac = Top.mac /\ stack[i].end /\ stack[i].line = Top.line
      BY <3>2, <1>4 DEF CutAt
    <3>4. i # n
      BY <3>3, <1>3, <1>4
    <3>5. i \in 1 .. n - 1
      BY <3>4, <1>4
    <3>6. QED BY <3>3, <3>5, <2>3, <1>8, <1>9, <1>10, <1>11
  <2>4. CASE k = n + 1
    BY <2>1, <2>4, <1>6, <1>9
  <2>5. QED BY <2>2, <2>3, <2>4, <1>11
<1>20. RecursionSeesPrefix'
  <2>1. SUFFICES ASSUME NEW j \in 1 .. n + 1, NEW k \in 1 .. n + 1, j < k, stack'[j].mac = stack'[k].mac
                 PROVE  stack'[k].line <= stack'[j].line
    BY <1>10 DEF RecursionSeesPrefix
  <2>2. j \in 1 .. n /\ stack'[j].line \in Nat
    <3>1. j \in 1 .. n
      BY <2>1, <1>4
    <3>2. j \in 1 .. n - 1 \/ j = n
      BY <3>1, <1>4
    <3>3. QED BY <3>1, <3>2, <1>3, <1>8, <1>9, <1>11, <1>12
  <2>3. CASE k = n + 1
    <3>1. stack'[j].line # 0
      <4>1. stack'[j].line \in DOMAIN code[stack'[j].mac] /\ stack'[j].mac \in Macro
        <5>1. j \in 1 .. n - 1 \/ j = n
          BY <2>2, <1>4
        <5>2. QED BY <5>1, <2>2, <1>1, <1>2, <1>3, <1>8, <1>9, <1>10, <1>11, <1>12, <1>16 DEF MacTypeOK
      <4>2. QED BY <4>1, <1>13
    <3>2. QED BY <2>2, <2>3, <3>1, <1>6, <1>9
  <2>4. CASE k \in 1 .. n
    <3>1. j \in 1 .. n - 1
      BY <2>1, <2>4, <1>4
    <3>2. stack'[j] = stack[j] /\ stack'[k].line = stack[k].line /\ stack'[k].mac = stack[k].mac
      <4>1. k \in 1 .. n - 1 \/ k = n
        BY <2>4, <1>4
      <4>2. QED BY <3>1, <4>1, <1>4, <1>8, <1>9
    <3>3. QED BY <2>1, <2>4, <3>1, <3>2, <1>1, <1>4, <1>11 DEF MacInv, RecursionSeesPrefix
  <2>5. QED BY <2>3, <2>4, <1>4
<1>21. BreakSeen'
  BY <1>2 DEF BreakSeen
<1>22. QED BY <1>15, <1>16, <1>17, <1>18, <1>19, <1>20, <1>21 DEF MacInv

\* At the prompt a macro gets new code or is called.
LEMMA PromptKeeps ==
  ASSUME MacInv, NEW m \in Macro,
         radare_macro_call(m) \/ \E b \in Body : radare_macro_add(m, b)
  PROVE  MacInv'
<1>1. MacTypeOK /\ stack = <<>> /\ CutKnown
  BY DEF MacInv, radare_macro_call, radare_macro_add
<1>2. \A x, l : ~CutAt(stack, x, l)
  BY <1>1 DEF CutAt
<1>3. CASE radare_macro_call(m)
  <2> DEFINE N == NewFrame(m)
  <2>1. N \in Frame /\ N.mac = m /\ N.line = 1 /\ N.label = NoLabel /\ ~N.waits /\ ~N.end
    BY DEF NewFrame, Frame
  <2>2. /\ stack' = <<N>> /\ macro_level' = macro_level + 1 /\ macro_break' = FALSE
        /\ code' = code /\ cut' = cut /\ torn' = torn /\ macro_level < MACRO_LIMIT
    BY <1>3 DEF radare_macro_call
  <2> HIDE DEF N
  <2>3. stack' \in Seq(Frame) /\ Len(stack') = 1 /\ DOMAIN stack' = {1} /\ stack'[1] = N
    BY <2>1, <2>2
  <2>4. MacTypeOK'
    <3>1. code[m] \in Seq(MacLine) /\ code[m] # <<>>
      BY <1>1, MacAssumption DEF MacTypeOK
    <3>2. 1 \in DOMAIN code[m]
      BY <3>1
    <3>3. macro_level' = 1 /\ 1 <= MACRO_LIMIT
      BY <1>1, <2>2, MacAssumption DEF MacTypeOK
    <3>4. QED BY <3>2, <3>3, <1>1, <2>1, <2>2, <2>3 DEF MacTypeOK
  <2>5. CallersWait'
    BY <2>1, <2>3 DEF CallersWait
  <2>6. CutKnown'
    <3>1. \A x, l : ~CutAt(stack', x, l)
      BY <2>1, <2>3 DEF CutAt
    <3>2. QED BY <3>1, <1>1, <1>2, <2>2 DEF CutKnown
  <2>7. CutOnce' /\ CallersStopped' /\ RecursionSeesPrefix' /\ BreakSeen'
    BY <2>1, <2>2, <2>3 DEF CutOnce, CallersStopped, RecursionSeesPrefix, BreakSeen
  <2>8. QED BY <2>4, <2>5, <2>6, <2>7 DEF MacInv
<1>4. CASE \E b \in Body : radare_macro_add(m, b)
  <2>1. PICK b \in Body : radare_macro_add(m, b)
    BY <1>4
  <2>2. /\ code' = [code EXCEPT ![m] = b]
        /\ cut' = [cut EXCEPT ![m] = {}] /\ torn' = [torn EXCEPT ![m] = {}]
        /\ stack' = stack /\ macro_level' = macro_level /\ macro_break' = macro_break
    BY <2>1 DEF radare_macro_add
  <2>3. DOMAIN stack' = {}
    BY <1>1, <2>2
  <2>4. MacTypeOK'
    BY <1>1, <2>2, <2>3 DEF MacTypeOK
  <2>5. CutKnown'
    <3>1. \A x \in Macro : /\ cut'[x] = IF x = m THEN {} ELSE cut[x]
                           /\ torn'[x] = IF x = m THEN {} ELSE torn[x]
      BY <1>1, <2>2 DEF MacTypeOK
    <3>2. QED BY <3>1, <1>1, <1>2, <2>2 DEF CutKnown
  <2>6. CallersWait' /\ CutOnce' /\ CallersStopped' /\ RecursionSeesPrefix'
    BY <2>3 DEF CallersWait, CutOnce, CallersStopped, RecursionSeesPrefix
  <2>7. BreakSeen'
    BY <1>1, <2>2 DEF BreakSeen
  <2>8. QED BY <2>4, <2>5, <2>6, <2>7 DEF MacInv
<1>5. QED BY <1>3, <1>4

\* Every step of a macro keeps the invariant.
LEMMA MacNextKeeps == MacInv /\ [MacNext]_macvars => MacInv'
<1>1. SUFFICES ASSUME MacInv, [MacNext]_macvars PROVE MacInv'
  OBVIOUS
<1>2. CASE UNCHANGED macvars
  <2>1. /\ code' = code /\ cut' = cut /\ stack' = stack /\ macro_level' = macro_level
        /\ macro_break' = macro_break /\ torn' = torn
    BY <1>2 DEF macvars
  <2>2. QED BY <1>1, <2>1 DEF MacInv, MacTypeOK, CallersWait, CutKnown, CutAt, CutOnce, CallersStopped,
                            RecursionSeesPrefix, BreakSeen
<1>3. CASE \E m \in Macro : radare_macro_call(m) \/ \E b \in Body : radare_macro_add(m, b)
  BY <1>1, <1>3, PromptKeeps
<1>4. CASE MacStep
  BY <1>1, <1>4, LabelKeeps, GoesKeep, BreakKeeps, TornKeeps, CallKeeps, ResumeKeeps DEF MacStep
<1>5. QED BY <1>1, <1>2, <1>3, <1>4 DEF MacNext

\* No macro is called yet.
LEMMA MacInitHolds == Init => MacInv
<1>1. SUFFICES ASSUME MacInit PROVE MacInv
  BY DEF Init
<1>2. /\ code \in [Macro -> Body] /\ cut = [m \in Macro |-> {}] /\ torn = cut
      /\ stack = <<>> /\ macro_level = 0 /\ macro_break = FALSE
  BY <1>1 DEF MacInit
<1>3. stack \in Seq(Frame) /\ Len(stack) = 0 /\ DOMAIN stack = {}
  BY <1>2
<1>4. MacTypeOK
  <2>1. cut \in [Macro -> SUBSET Nat] /\ torn \in [Macro -> SUBSET Nat]
    BY <1>2
  <2>2. macro_level = Len(stack) /\ macro_level <= MACRO_LIMIT
    BY <1>2, <1>3, MacAssumption
  <2>3. QED BY <2>1, <2>2, <1>2, <1>3 DEF MacTypeOK
<1>5. CallersWait /\ CutKnown /\ CutOnce /\ CallersStopped /\ RecursionSeesPrefix /\ BreakSeen
  BY <1>2, <1>3 DEF CallersWait, CutKnown, CutAt, CutOnce, CallersStopped, RecursionSeesPrefix, BreakSeen
<1>6. QED BY <1>4, <1>5 DEF MacInv

\* The invariant says which line ends are overwritten.
LEMMA MacInvPutsBack == MacInv => CodePutBack
<1>1. SUFFICES ASSUME MacInv, NEW m \in Macro
               PROVE  cut[m] \ torn[m] =
                        {stack[k].line : k \in {j \in DOMAIN stack : stack[j].mac = m /\ stack[j].end}} \ torn[m]
  BY DEF CodePutBack
<1>2. cut[m] \subseteq Nat
  BY <1>1 DEF MacInv, MacTypeOK
<1>3. \A k \in DOMAIN stack : stack[k].line \in Nat
  BY <1>1, FrameFacts DEF MacInv
<1>4. \A l \in Nat : l \in cut[m] <=> l \in torn[m] \/ \E k \in DOMAIN stack : stack[k].mac = m /\ stack[k].end /\ stack[k].line = l
  BY <1>1 DEF MacInv, CutKnown, CutAt
<1>5. QED BY <1>2, <1>3, <1>4

\* While a break is under way calls do nothing but return.
LEMMA BreakReturns == MacInv /\ [MacNext]_macvars => [macro_break /\ stack # <<>> => Len(stack') = Len(stack) - 1]_macvars
<1>1. SUFFICES ASSUME MacInv, MacNext, macro_break, stack # <<>> PROVE Len(stack') = Len(stack) - 1
  OBVIOUS
<1>2. ~Running
  BY <1>1, RunningFacts
<1>3. Resume
  BY <1>1, <1>2 DEF MacNext, MacStep, radare_macro_call, radare_macro_add, Command, macro_label, Jump, JumpFails,
                    radare_macro_break, Call, Call_deeper, CallRefused
<1>4. stack' = Below
  BY <1>1, <1>3 DEF Resume, GoesOn, Return
<1>5. stack \in Seq(Frame) /\ stack[Len(stack)] \in Frame
  BY <1>1 DEF MacInv, MacTypeOK
<1>6. QED BY <1>1, <1>4, <1>5, StackFacts DEF Below

\* A step of the tables is one of the macros or none.
LEMMA MacSteps == [Next]_vars => [MacNext]_macvars
  BY DEF Next, vars, OnlyMacros

\* Macros, for all bodies and every limit: whatever calls, jumps, recursion and
\* breaks do, radare_macro_call leaves no line end overwritten but those of
\* lines under way and of failed jumps, a recursive call runs nothing behind its
\* caller's line, and a break ends all calls.  That calls end is left to TLC.
THEOREM MacroCodeCorrect ==
  Spec => [](MacTypeOK /\ CodePutBack /\ RecursionSeesPrefix) /\ BreakEndsAll
<1>1. Init => MacInv
  BY MacInitHolds
<1>2. MacInv /\ [Next]_vars => MacInv'
  BY MacNextKeeps, MacSteps
<1>3. MacInv => MacTypeOK /\ CodePutBack /\ RecursionSeesPrefix
  BY MacInvPutsBack DEF MacInv
<1>4. MacInv /\ [Next]_vars => [macro_break /\ stack # <<>> => Len(stack') = Len(stack) - 1]_macvars
  BY BreakReturns, MacSteps
<1>5. QED BY <1>1, <1>2, <1>3, <1>4, PTL DEF Spec, BreakEndsAll

------------------------------------------------------------------------------
(***************************************************************************)
(* Traces.  The sort keeps the traces, and those it has passed are in      *)
(* their final place: it goes on when nothing behind is smaller.  A trace  *)
(* it moves ahead is settled, which means that nothing behind it is        *)
(* smaller, and stays so; hence two turns for each trace are enough.       *)
(***************************************************************************)
Trace == [addr : TraceAddr, times : Nat, count : 1 .. MaxAdds, tags : SUBSET (0 .. 5)]
Distinct(l) == \A i, j \in DOMAIN l : l[i].count = l[j].count => i = j
Elements(l) == {l[i] : i \in DOMAIN l}
TraceLists == {l \in Seq(Trace) : Distinct(l)}
SameTraces(l, t) == t \in TraceLists /\ Len(t) = Len(l) /\ Elements(t) = Elements(l)

IsSettled(l, i) == \A j \in DOMAIN l : i < j => l[i].addr <= l[j].addr
Settled(l) == {l[i].count : i \in {x \in DOMAIN l : IsSettled(l, x)}}

\* The walk stands at p, behind the last one when it is over.
Reached(l, w, p) ==
  /\ p \in 1 .. Len(l) + 1
  /\ w.at = IF p = Len(l) + 1 THEN 0 ELSE w.list[p].count
  /\ \A i \in 1 .. p - 1 : IsSettled(w.list, i)
  /\ ~w.ch => w.list = l /\ \A i \in 1 .. p - 1, j \in DOMAIN l : l[i].addr <= l[j].addr

WalkStates(l) ==
  {w \in [list : Seq(Trace), at : Nat, ch : BOOLEAN] :
     SameTraces(l, w.list) /\ \E p \in 1 .. Len(l) + 1 : Reached(l, w, p)}

\* t is s with element k behind an earlier one, and behind a later one.
WentBack(s, k, j, t) ==
  /\ j < k
  /\ \A i \in 1 .. Len(s) : t[i] = IF i <= j THEN s[i] ELSE IF i = j + 1 THEN s[k]
                                   ELSE IF i <= k THEN s[i - 1] ELSE s[i]
WentAhead(s, k, j, t) ==
  /\ k < j
  /\ \A i \in 1 .. Len(s) : t[i] = IF i < k THEN s[i] ELSE IF i < j THEN s[i + 1]
                                   ELSE IF i = j THEN s[k] ELSE s[i]

\* Two lists, one behind the other.
LEMMA Joined ==
  ASSUME NEW R, NEW x \in Seq(R), NEW y \in Seq(R)
  PROVE  /\ x \o y \in Seq(R) /\ Len(x \o y) = Len(x) + Len(y)
<1>1. x \o y \in Seq(R)
  OBVIOUS
<1>2. Len(x \o y) = Len(x) + Len(y)
  OBVIOUS
<1>3. QED BY <1>1, <1>2

\* Moving element k of a list to behind an earlier one.
LEMMA MovedBack ==
  ASSUME NEW R, NEW s \in Seq(R), NEW k \in 1 .. Len(s), NEW j \in 1 .. k - 1
  PROVE  LET t == SubSeq(s, 1, j) \o <<s[k]>> \o SubSeq(s, j + 1, k - 1) \o SubSeq(s, k + 1, Len(s))
         IN  /\ t \in Seq(R) /\ Len(t) = Len(s)
             /\ \A i \in 1 .. Len(s) : t[i] = IF i <= j THEN s[i] ELSE IF i = j + 1 THEN s[k]
                                              ELSE IF i <= k THEN s[i - 1] ELSE s[i]
<1> DEFINE n == Len(s)
           a == SubSeq(s, 1, j)
           b == a \o <<s[k]>>
           m == SubSeq(s, j + 1, k - 1)
           c == b \o m
           z == SubSeq(s, k + 1, n)
           t == c \o z
<1>1. n \in Nat /\ k \in 1 .. n /\ j \in Nat /\ k \in Nat /\ 1 <= j /\ j < k /\ k <= n
  OBVIOUS
<1>2. a \in Seq(R) /\ Len(a) = j /\ \A i \in 1 .. j : a[i] = s[i]
  BY <1>1
<1>3. m \in Seq(R) /\ Len(m) = k - 1 - j /\ \A i \in 1 .. k - 1 - j : m[i] = s[j + i]
  BY <1>1
<1>4. z \in Seq(R) /\ Len(z) = n - k /\ \A i \in 1 .. n - k : z[i] = s[k + i]
  BY <1>1
<1>5. s[k] \in R
  BY <1>1
<1>n. \A i \in 1 .. n : s[i] \in R
  OBVIOUS
<1> HIDE DEF a, m, z, n
<1>6. /\ b \in Seq(R) /\ Len(b) = j + 1
      /\ \A i \in 1 .. j : b[i] = s[i]
      /\ b[j + 1] = s[k]
  BY <1>1, <1>2, <1>5
<1> HIDE DEF b
<1>7. c \in Seq(R) /\ Len(c) = k
  <2>1. b \o m \in Seq(R) /\ Len(b \o m) = Len(b) + Len(m)
    BY <1>1, <1>3, <1>6, Joined
  <2>2. QED BY <1>1, <1>3, <1>6, <2>1
<1>8. /\ \A i \in 1 .. j + 1 : c[i] = b[i]
      /\ \A i \in j + 2 .. k : c[i] = s[i - 1]
  <2>1. \A i \in 1 .. j + 1 : c[i] = b[i]
    BY <1>1, <1>3, <1>6
  <2>2. ASSUME NEW i \in j + 2 .. k PROVE c[i] = s[i - 1]
    <3>1. c[i] = m[i - (j + 1)]
      BY <1>1, <1>3, <1>6
    <3>2. i - (j + 1) \in 1 .. k - 1 - j /\ j + (i - (j + 1)) = i - 1
      BY <1>1
    <3>3. QED BY <3>1, <3>2, <1>3
  <2>3. QED BY <2>1, <2>2
<1> HIDE DEF c
<1>9. t \in Seq(R) /\ Len(t) = n
  <2>1. c \o z \in Seq(R) /\ Len(c \o z) = Len(c) + Len(z)
    BY <1>1, <1>4, <1>7, Joined
  <2>2. QED BY <1>1, <1>4, <1>7, <2>1
<1>10. /\ \A i \in 1 .. k : t[i] = c[i]
       /\ \A i \in k + 1 .. n : t[i] = s[i]
  <2>1. \A i \in 1 .. k : t[i] = c[i]
    BY <1>1, <1>4, <1>7
  <2>2. ASSUME NEW i \in k + 1 .. n PROVE t[i] = s[i]
    <3>1. t[i] = z[i - k]
      BY <1>1, <1>4, <1>7
    <3>2. i - k \in 1 .. n - k /\ k + (i - k) = i
      BY <1>1
    <3>3. QED BY <3>1, <3>2, <1>4
  <2>3. QED BY <2>1, <2>2
<1>11. t = SubSeq(s, 1, j) \o <<s[k]>> \o SubSeq(s, j + 1, k - 1) \o SubSeq(s, k + 1, Len(s))
  BY DEF a, b, c, m, z, n
<1> HIDE DEF t
<1>12. ASSUME NEW i \in 1 .. n
       PROVE  t[i] = IF i <= j THEN s[i] ELSE IF i = j + 1 THEN s[k] ELSE IF i <= k THEN s[i - 1] ELSE s[i]
  <2>1. CASE i <= j
    BY <2>1, <1>1, <1>6, <1>8, <1>10
  <2>2. CASE i = j + 1
    BY <2>2, <1>1, <1>6, <1>8, <1>10
  <2>3. CASE j + 1 < i /\ i <= k
    <3>1. i \in j + 2 .. k /\ i \in 1 .. k
      BY <2>3, <1>1
    <3>2. QED BY <2>3, <3>1, <1>1, <1>8, <1>10
  <2>4. CASE k < i
    <3>1. i \in k + 1 .. n
      BY <2>4, <1>1
    <3>2. QED BY <2>4, <3>1, <1>1, <1>10
  <2>5. QED BY <2>1, <2>2, <2>3, <2>4, <1>1
<1>13. QED BY <1>9, <1>11, <1>12 DEF n

\* Moving element k of a list to behind a later one.
LEMMA MovedAhead ==
  ASSUME NEW R, NEW s \in Seq(R), NEW k \in 1 .. Len(s), NEW j \in k + 1 .. Len(s)
  PROVE  LET t == SubSeq(s, 1, k - 1) \o SubSeq(s, k + 1, j) \o <<s[k]>> \o SubSeq(s, j + 1, Len(s))
         IN  /\ t \in Seq(R) /\ Len(t) = Len(s)
             /\ \A i \in 1 .. Len(s) : t[i] = IF i < k THEN s[i] ELSE IF i < j THEN s[i + 1]
                                              ELSE IF i = j THEN s[k] ELSE s[i]
<1> DEFINE n == Len(s)
           a == SubSeq(s, 1, k - 1)
           m == SubSeq(s, k + 1, j)
           b == a \o m
           c == b \o <<s[k]>>
           z == SubSeq(s, j + 1, n)
           t == c \o z
<1>1. n \in Nat /\ j \in Nat /\ k \in Nat /\ 1 <= k /\ k < j /\ j <= n
  OBVIOUS
<1>2. a \in Seq(R) /\ Len(a) = k - 1 /\ \A i \in 1 .. k - 1 : a[i] = s[i]
  BY <1>1
<1>3. m \in Seq(R) /\ Len(m) = j - k /\ \A i \in 1 .. j - k : m[i] = s[k + i]
  BY <1>1
<1>4. z \in Seq(R) /\ Len(z) = n - j /\ \A i \in 1 .. n - j : z[i] = s[j + i]
  BY <1>1
<1>5. s[k] \in R
  BY <1>1
<1> HIDE DEF a, m, z, n
<1>6. b \in Seq(R) /\ Len(b) = j - 1
  <2>1. a \o m \in Seq(R) /\ Len(a \o m) = Len(a) + Len(m)
    BY <1>1, <1>2, <1>3, Joined
  <2>2. QED BY <1>1, <1>2, <1>3, <2>1
<1>7. /\ \A i \in 1 .. k - 1 : b[i] = s[i]
      /\ \A i \in k .. j - 1 : b[i] = s[i + 1]
  <2>1. \A i \in 1 .. k - 1 : b[i] = s[i]
    BY <1>1, <1>2, <1>3
  <2>2. ASSUME NEW i \in k .. j - 1 PROVE b[i] = s[i + 1]
    <3>1. b[i] = m[i - (k - 1)]
      BY <1>1, <1>2, <1>3
    <3>2. i - (k - 1) \in 1 .. j - k /\ k + (i - (k - 1)) = i + 1
      BY <1>1
    <3>3. QED BY <3>1, <3>2, <1>3
  <2>3. QED BY <2>1, <2>2
<1> HIDE DEF b
<1>8. /\ c \in Seq(R) /\ Len(c) = j
      /\ \A i \in 1 .. j - 1 : c[i] = b[i]
      /\ c[j] = s[k]
  BY <1>1, <1>5, <1>6
<1> HIDE DEF c
<1>9. t \in Seq(R) /\ Len(t) = n
  <2>1. c \o z \in Seq(R) /\ Len(c \o z) = Len(c) + Len(z)
    BY <1>1, <1>4, <1>8, Joined
  <2>2. QED BY <1>1, <1>4, <1>8, <2>1
<1>10. /\ \A i \in 1 .. j : t[i] = c[i]
       /\ \A i \in j + 1 .. n : t[i] = s[i]
  <2>1. \A i \in 1 .. j : t[i] = c[i]
    BY <1>1, <1>4, <1>8
  <2>2. ASSUME NEW i \in j + 1 .. n PROVE t[i] = s[i]
    <3>1. t[i] = z[i - j]
      BY <1>1, <1>4, <1>8
    <3>2. i - j \in 1 .. n - j /\ j + (i - j) = i
      BY <1>1
    <3>3. QED BY <3>1, <3>2, <1>4
  <2>3. QED BY <2>1, <2>2
<1>11. t = SubSeq(s, 1, k - 1) \o SubSeq(s, k + 1, j) \o <<s[k]>> \o SubSeq(s, j + 1, Len(s))
  BY DEF a, b, c, m, z, n
<1> HIDE DEF t
<1>12. ASSUME NEW i \in 1 .. n
       PROVE  t[i] = IF i < k THEN s[i] ELSE IF i < j THEN s[i + 1] ELSE IF i = j THEN s[k] ELSE s[i]
  <2>1. CASE i < k
    <3>1. i \in 1 .. k - 1 /\ i \in 1 .. j - 1 /\ i \in 1 .. j
      BY <2>1, <1>1
    <3>2. QED BY <2>1, <3>1, <1>7, <1>8, <1>10
  <2>2. CASE k <= i /\ i < j
    <3>1. i \in k .. j - 1 /\ i \in 1 .. j - 1 /\ i \in 1 .. j /\ ~(i < k)
      BY <2>2, <1>1
    <3>2. QED BY <2>2, <3>1, <1>7, <1>8, <1>10
  <2>3. CASE i = j
    <3>1. i \in 1 .. j /\ ~(i < k) /\ ~(i < j)
      BY <2>3, <1>1
    <3>2. QED BY <2>3, <3>1, <1>8, <1>10
  <2>4. CASE j < i
    <3>1. i \in j + 1 .. n /\ ~(i < k) /\ ~(i < j) /\ i # j
      BY <2>4, <1>1
    <3>2. QED BY <3>1, <1>10
  <2>5. QED BY <2>1, <2>2, <2>3, <2>4, <1>1
<1>13. QED BY <1>9, <1>11, <1>12 DEF n

\* A trace has numbers where it should.
LEMMA TraceFacts ==
  ASSUME NEW s \in Seq(Trace)
  PROVE  /\ Len(s) \in Nat /\ DOMAIN s = 1 .. Len(s)
         /\ \A i \in 1 .. Len(s) : s[i] \in Trace /\ s[i].addr \in Nat /\ s[i].count \in Nat \ {0}
<1>1. Len(s) \in Nat /\ DOMAIN s = 1 .. Len(s) /\ \A i \in 1 .. Len(s) : s[i] \in Trace
  OBVIOUS
<1>2. \A t \in Trace : t.addr \in Nat /\ t.count \in Nat \ {0}
  BY TraceAssumption DEF Trace, TraceAddr
<1>3. QED BY <1>1, <1>2

\* t has at i what s has at of[i], and at to[i] what s has at i.
Rearranged(s, t, of, to) ==
  /\ of \in [1 .. Len(s) -> 1 .. Len(s)] /\ to \in [1 .. Len(s) -> 1 .. Len(s)]
  /\ \A i \in 1 .. Len(s) : t[i] = s[of[i]] /\ to[of[i]] = i /\ of[to[i]] = i

\* A list with the same traces in another order.
LEMMA Permuted ==
  ASSUME NEW s \in TraceLists, NEW t \in Seq(Trace), Len(t) = Len(s),
         NEW of, NEW to, Rearranged(s, t, of, to)
  PROVE  SameTraces(s, t)
<1> USE DEF Rearranged
<1>1. s \in Seq(Trace) /\ Distinct(s)
  BY DEF TraceLists
<1>2. DOMAIN s = 1 .. Len(s) /\ DOMAIN t = 1 .. Len(s)
  BY <1>1
<1> DEFINE n == Len(s)
<1> HIDE DEF n
<1>3. Distinct(t)
  <2>1. SUFFICES ASSUME NEW i \in 1 .. n, NEW j \in 1 .. n, t[i].count = t[j].count PROVE i = j
    BY <1>2 DEF Distinct, n
  <2>2. s[of[i]].count = s[of[j]].count /\ of[i] \in DOMAIN s /\ of[j] \in DOMAIN s
    BY <2>1, <1>2 DEF n
  <2>3. of[i] = of[j]
    BY <2>2, <1>1 DEF Distinct
  <2>4. QED BY <2>3 DEF n
<1>4. Elements(t) = Elements(s)
  <2>1. ASSUME NEW i \in 1 .. n PROVE t[i] \in Elements(s) /\ s[i] \in Elements(t)
    <3>1. t[i] = s[of[i]] /\ of[i] \in DOMAIN s /\ t[to[i]] = s[i] /\ to[i] \in DOMAIN t
      BY <1>2 DEF n
    <3>2. QED BY <3>1 DEF Elements
  <2>2. QED BY <2>1, <1>2 DEF Elements, n
<1>5. QED BY <1>3, <1>4 DEF SameTraces, TraceLists

\* Where the inner walk of trace_sort leaves trace k.
LEMMA BehindCases ==
  ASSUME NEW s \in Seq(Trace), NEW k \in 1 .. Len(s)
  PROVE  LET t == BehindSmaller(s, k)
         IN  \/ Smaller(s, k) = {} /\ t = s
             \/ /\ t \in Seq(Trace) /\ Len(t) = Len(s)
                /\ \E j \in Smaller(s, k) :
                     /\ \A y \in Smaller(s, k) : y <= j
                     /\ WentBack(s, k, j, t) \/ WentAhead(s, k, j, t)
<1> DEFINE t == BehindSmaller(s, k)
           S == Smaller(s, k)
           j == CHOOSE x \in S : \A y \in S : y <= x
<1>1. Len(s) \in Nat /\ DOMAIN s = 1 .. Len(s) /\ \A i \in 1 .. Len(s) : s[i].addr \in Nat
  BY TraceFacts
<1>2. S \subseteq 1 .. Len(s) /\ k \notin S
  BY <1>1 DEF Smaller
<1>3. CASE S = {}
  BY <1>3 DEF BehindSmaller
<1>4. CASE S # {}
  <2>1. S \subseteq 0 .. Len(s)
    BY <1>1, <1>2
  <2>2. j \in S /\ \A y \in S : y <= j
    <3> HIDE DEF S
    <3>1. \E x \in S : \A y \in S : y <= x
      BY <1>1, <1>4, <2>1, Largest
    <3>2. QED BY <3>1
  <2>3. /\ j < k => t = SubSeq(s, 1, j) \o <<s[k]>> \o SubSeq(s, j + 1, k - 1) \o SubSeq(s, k + 1, Len(s))
        /\ ~(j < k) => t = SubSeq(s, 1, k - 1) \o SubSeq(s, k + 1, j) \o <<s[k]>> \o SubSeq(s, j + 1, Len(s))
    BY <1>4 DEF BehindSmaller
  <2>4. j \in 1 .. Len(s) /\ j # k /\ j \in Nat
    BY <2>2, <1>2
  <2> HIDE DEF j, t
  <2>5. CASE j < k
    <3>1. j \in 1 .. k - 1
      BY <2>4, <2>5
    <3>2. /\ t \in Seq(Trace) /\ Len(t) = Len(s)
          /\ \A i \in 1 .. Len(s) : t[i] = IF i <= j THEN s[i] ELSE IF i = j + 1 THEN s[k]
                                           ELSE IF i <= k THEN s[i - 1] ELSE s[i]
      <4> DEFINE u == SubSeq(s, 1, j) \o <<s[k]>> \o SubSeq(s, j + 1, k - 1) \o SubSeq(s, k + 1, Len(s))
      <4>1. /\ u \in Seq(Trace) /\ Len(u) = Len(s)
            /\ \A i \in 1 .. Len(s) : u[i] = IF i <= j THEN s[i] ELSE IF i = j + 1 THEN s[k]
                                             ELSE IF i <= k THEN s[i - 1] ELSE s[i]
        BY <3>1, MovedBack, ZenonT(40)
      <4>2. t = u
        BY <2>3, <2>5
      <4> HIDE DEF u
      <4>3. QED BY <4>1, <4>2, Zenon
    <3>3. WentBack(s, k, j, t)
      BY <2>5, <3>2 DEF WentBack
    <3>4. QED BY <2>2, <3>2, <3>3 DEF t
  <2>6. CASE k < j
    <3>1. j \in k + 1 .. Len(s) /\ ~(j < k)
      BY <2>4, <2>6, <1>1
    <3>2. /\ t \in Seq(Trace) /\ Len(t) = Len(s)
          /\ \A i \in 1 .. Len(s) : t[i] = IF i < k THEN s[i] ELSE IF i < j THEN s[i + 1]
                                           ELSE IF i = j THEN s[k] ELSE s[i]
      <4> DEFINE u == SubSeq(s, 1, k - 1) \o SubSeq(s, k + 1, j) \o <<s[k]>> \o SubSeq(s, j + 1, Len(s))
      <4>1. /\ u \in Seq(Trace) /\ Len(u) = Len(s)
            /\ \A i \in 1 .. Len(s) : u[i] = IF i < k THEN s[i] ELSE IF i < j THEN s[i + 1]
                                             ELSE IF i = j THEN s[k] ELSE s[i]
        <5>1. j \in k + 1 .. Len(s)
          BY <3>1
        <5>2. QED BY <5>1, MovedAhead, ZenonT(40)
      <4>2. t = u
        BY <2>3, <3>1
      <4> HIDE DEF u
      <4>3. QED BY <4>1, <4>2, Zenon
    <3>3. WentAhead(s, k, j, t)
      BY <2>6, <3>2 DEF WentAhead
    <3>4. QED BY <2>2, <3>2, <3>3 DEF t
  <2>7. QED BY <2>4, <2>5, <2>6
<1>5. QED BY <1>3, <1>4

\* A trace that goes back changes places with equal ones, and is settled then.
LEMMA BackSettles ==
  ASSUME NEW s \in TraceLists, NEW k \in 1 .. Len(s), \A i \in 1 .. k - 1 : IsSettled(s, i),
         NEW t \in Seq(Trace), Len(t) = Len(s),
         NEW j \in Smaller(s, k), \A y \in Smaller(s, k) : y <= j,
         WentBack(s, k, j, t)
  PROVE  /\ SameTraces(s, t) /\ Settled(s) \subseteq Settled(t)
         /\ \A i \in 1 .. k : IsSettled(t, i)
         /\ k < Len(s) => t[k + 1] = s[k + 1]
<1> USE DEF WentBack
<1> DEFINE n == Len(s)
<1>1. /\ s \in Seq(Trace) /\ n \in Nat /\ DOMAIN s = 1 .. n /\ DOMAIN t = 1 .. n
      /\ \A i \in 1 .. n : s[i].addr \in Nat
  BY TraceFacts DEF TraceLists
<1>2. /\ j \in 1 .. n /\ j \in Nat /\ k \in Nat /\ 1 <= j /\ j < k /\ k <= n
      /\ \A i \in 1 .. n : j < i => s[k].addr <= s[i].addr
  <2>1. j \in 1 .. n /\ \A i \in 1 .. n : s[i].addr < s[k].addr => i <= j
    BY <1>1 DEF Smaller
  <2>2. j < k /\ k \in 1 .. n
    OBVIOUS
  <2> HIDE DEF n
  <2>3. \A i \in 1 .. n : j < i => s[k].addr <= s[i].addr
    BY <1>1, <2>1, <2>2
  <2>4. QED BY <1>1, <2>1, <2>2, <2>3
<1>n. \A i \in 1 .. n : t[i] = IF i <= j THEN s[i] ELSE IF i = j + 1 THEN s[k]
                               ELSE IF i <= k THEN s[i - 1] ELSE s[i]
  OBVIOUS
<1>k. Len(s) = n /\ Len(t) = n
  OBVIOUS
<1> HIDE DEF n
<1>3. ASSUME NEW i \in j + 1 .. k PROVE i \in 1 .. n /\ s[i].addr = s[k].addr
  <2>1. i \in 1 .. n /\ j < i /\ i <= k
    BY <1>2, <1>1
  <2>2. CASE i = k
    BY <2>1, <2>2
  <2>3. CASE i < k
    <3>1. i \in 1 .. k - 1 /\ k \in DOMAIN s
      BY <2>1, <2>3, <1>1, <1>2
    <3>2. s[i].addr <= s[k].addr
      BY <2>3, <3>1 DEF IsSettled
    <3>3. s[k].addr <= s[i].addr
      BY <2>1, <1>2
    <3>4. QED BY <2>1, <3>1, <3>2, <3>3, <1>1
  <2>4. QED BY <2>1, <2>2, <2>3, <1>2
<1>4. ASSUME NEW i \in 1 .. n PROVE t[i].addr = s[i].addr
  <2>1. CASE i <= j
    BY <2>1, <1>n
  <2>2. CASE i = j + 1
    <3>1. i \in j + 1 .. k /\ ~(i <= j)
      BY <2>2, <1>2
    <3>2. t[i] = s[k]
      BY <2>2, <3>1, <1>n
    <3>3. QED BY <3>1, <3>2, <1>3
  <2>3. CASE j + 1 < i /\ i <= k
    <3>1. i \in j + 1 .. k /\ i - 1 \in j + 1 .. k /\ ~(i <= j) /\ i # j + 1
      BY <2>3, <1>2
    <3>2. t[i] = s[i - 1]
      BY <2>3, <3>1, <1>n
    <3>3. QED BY <3>1, <3>2, <1>3
  <2>4. CASE k < i
    <3>1. ~(i <= j) /\ i # j + 1 /\ ~(i <= k)
      BY <2>4, <1>2
    <3>2. QED BY <3>1, <1>n
  <2>5. QED BY <2>1, <2>2, <2>3, <2>4, <1>2
<1>5. ASSUME NEW i \in 1 .. n PROVE IsSettled(t, i) <=> IsSettled(s, i)
  BY <1>1, <1>4 DEF IsSettled
<1>6. \A i \in 1 .. k : IsSettled(s, i)
  <2>1. IsSettled(s, k)
    <3>1. ASSUME NEW i \in 1 .. n, k < i PROVE s[k].addr <= s[i].addr
      <4>1. j < i
        BY <3>1, <1>2
      <4>2. QED BY <4>1, <1>2
    <3>2. QED BY <3>1, <1>1 DEF IsSettled
  <2>2. \A i \in 1 .. k : i \in 1 .. k - 1 \/ i = k
    BY <1>2
  <2>3. QED BY <2>1, <2>2
<1>7. \A i \in 1 .. k : i \in 1 .. n /\ IsSettled(t, i)
  <2>1. \A i \in 1 .. k : i \in 1 .. n
    BY <1>1, <1>2
  <2>2. QED BY <2>1, <1>5, <1>6
<1> DEFINE of == [i \in 1 .. n |-> IF i <= j THEN i ELSE IF i = j + 1 THEN k ELSE IF i <= k THEN i - 1 ELSE i]
           to == [i \in 1 .. n |-> IF i <= j THEN i ELSE IF i < k THEN i + 1 ELSE IF i = k THEN j + 1 ELSE i]
<1>8. of \in [1 .. n -> 1 .. n] /\ to \in [1 .. n -> 1 .. n]
  BY <1>1, <1>2
<1>9. \A i \in 1 .. n : t[i] = s[of[i]]
  BY <1>n, <1>1, <1>2
<1>10. \A i \in 1 .. n : to[of[i]] = i /\ of[to[i]] = i
  BY <1>1, <1>2
<1>11. \A i \in 1 .. n : to[i] = i \/ to[i] \in 1 .. k
  BY <1>1, <1>2
<1> HIDE DEF of, to
<1>12. SameTraces(s, t)
  <2>1. \A i \in 1 .. Len(s) : t[i] = s[of[i]] /\ to[of[i]] = i /\ of[to[i]] = i
    BY <1>9, <1>10 DEF n
  <2>2. of \in [1 .. Len(s) -> 1 .. Len(s)] /\ to \in [1 .. Len(s) -> 1 .. Len(s)]
    BY <1>8 DEF n
  <2>3. Len(t) = Len(s)
    OBVIOUS
  <2>4. Rearranged(s, t, of, to)
    BY <2>1, <2>2 DEF Rearranged
  <2>5. QED BY <2>3, <2>4, Permuted
<1>13. Settled(s) \subseteq Settled(t)
  <2>1. SUFFICES ASSUME NEW x \in 1 .. n, IsSettled(s, x) PROVE s[x].count \in Settled(t)
    BY <1>1 DEF Settled
  <2>2. to[x] \in 1 .. n /\ t[to[x]] = s[x]
    BY <1>8, <1>9, <1>10
  <2>3. IsSettled(t, to[x])
    BY <2>1, <2>2, <1>5, <1>7, <1>11
  <2>4. QED BY <2>2, <2>3, <1>1 DEF Settled
<1>14. k < n => t[k + 1] = s[k + 1]
  <2>1. SUFFICES ASSUME k < n PROVE t[k + 1] = s[k + 1]
    OBVIOUS
  <2>2. k + 1 \in 1 .. n /\ ~(k + 1 <= j) /\ k + 1 # j + 1 /\ ~(k + 1 <= k)
    BY <2>1, <1>1, <1>2
  <2>3. QED BY <2>2, <1>n
<1>15. QED BY <1>7, <1>12, <1>13, <1>14, <1>k

\* A trace that goes ahead is settled then, and was not before.
LEMMA AheadSettles ==
  ASSUME NEW s \in TraceLists, NEW k \in 1 .. Len(s), \A i \in 1 .. k - 1 : IsSettled(s, i),
         NEW t \in Seq(Trace), Len(t) = Len(s),
         NEW j \in Smaller(s, k), \A y \in Smaller(s, k) : y <= j,
         WentAhead(s, k, j, t)
  PROVE  /\ SameTraces(s, t) /\ Settled(s) \subseteq Settled(t)
         /\ s[k].count \in Settled(t) \ Settled(s)
         /\ \A i \in 1 .. k - 1 : IsSettled(t, i)
         /\ k < Len(s) /\ t[k] = s[k + 1]
<1> USE DEF WentAhead
<1> DEFINE n == Len(s)
<1>1. /\ s \in Seq(Trace) /\ n \in Nat /\ DOMAIN s = 1 .. n /\ DOMAIN t = 1 .. n
      /\ \A i \in 1 .. n : s[i].addr \in Nat
  BY TraceFacts DEF TraceLists
<1>2. /\ j \in 1 .. n /\ j \in Nat /\ k \in Nat /\ 1 <= k /\ k < j /\ j <= n /\ s[j].addr < s[k].addr
      /\ \A i \in 1 .. n : j < i => s[k].addr <= s[i].addr
  <2>1. j \in 1 .. n /\ s[j].addr < s[k].addr /\ k \in 1 .. n
    BY <1>1 DEF Smaller
  <2>2. j \in Nat /\ k \in Nat /\ 1 <= k /\ k < j /\ j <= n
    BY <2>1, <1>1
  <2>3. ASSUME NEW i \in 1 .. n, j < i PROVE s[k].addr <= s[i].addr
    <3>1. i \notin Smaller(s, k)
      BY <2>2, <2>3
    <3>2. ~(s[i].addr < s[k].addr)
      BY <3>1, <1>1 DEF Smaller
    <3>3. QED BY <3>2, <2>1, <1>1
  <2>4. QED BY <2>1, <2>2, <2>3
<1>n. \A i \in 1 .. n : t[i] = IF i < k THEN s[i] ELSE IF i < j THEN s[i + 1]
                               ELSE IF i = j THEN s[k] ELSE s[i]
  OBVIOUS
<1>k. Len(s) = n /\ Len(t) = n
  OBVIOUS
<1> HIDE DEF n
<1> DEFINE of == [i \in 1 .. n |-> IF i < k THEN i ELSE IF i < j THEN i + 1 ELSE IF i = j THEN k ELSE i]
           to == [i \in 1 .. n |-> IF i < k THEN i ELSE IF i = k THEN j ELSE IF i <= j THEN i - 1 ELSE i]
<1>3. of \in [1 .. n -> 1 .. n] /\ to \in [1 .. n -> 1 .. n]
  BY <1>1, <1>2
<1>4. \A i \in 1 .. n : t[i] = s[of[i]]
  BY <1>n, <1>1, <1>2
<1>5. \A i \in 1 .. n : to[of[i]] = i /\ of[to[i]] = i
  BY <1>1, <1>2
<1>6. \A i \in 1 .. k - 1 : \A y \in 1 .. n : i \in 1 .. n /\ of[i] = i /\ (i < y => i < of[y])
  BY <1>1, <1>2
<1>7. \A x, y \in 1 .. n : to[x] < y => x < of[y] \/ (of[y] = k /\ k < x /\ x <= j)
  BY <1>1, <1>2
<1>8. of[j] = k /\ \A y \in 1 .. n : j < y => of[y] = y
  BY <1>1, <1>2
<1> HIDE DEF of, to
<1>9. SameTraces(s, t)
  <2>1. \A i \in 1 .. Len(s) : t[i] = s[of[i]] /\ to[of[i]] = i /\ of[to[i]] = i
    BY <1>4, <1>5 DEF n
  <2>2. of \in [1 .. Len(s) -> 1 .. Len(s)] /\ to \in [1 .. Len(s) -> 1 .. Len(s)]
    BY <1>3 DEF n
  <2>3. Len(t) = Len(s)
    OBVIOUS
  <2>4. Rearranged(s, t, of, to)
    BY <2>1, <2>2 DEF Rearranged
  <2>5. QED BY <2>3, <2>4, Permuted
<1>10. \A i \in 1 .. k - 1 : IsSettled(t, i)
  <2>1. SUFFICES ASSUME NEW i \in 1 .. k - 1, NEW y \in 1 .. n, i < y PROVE t[i].addr <= t[y].addr
    BY <1>1 DEF IsSettled
  <2>2. t[i] = s[i] /\ t[y] = s[of[y]] /\ of[y] \in DOMAIN s /\ i < of[y]
    BY <2>1, <1>1, <1>3, <1>4, <1>6
  <2>3. QED BY <2>2 DEF IsSettled
<1>11. ASSUME NEW x \in 1 .. n, IsSettled(s, x) PROVE s[x].count \in Settled(t)
  <2>1. to[x] \in 1 .. n /\ t[to[x]] = s[x]
    BY <1>3, <1>4, <1>5
  <2>2. ASSUME NEW y \in 1 .. n, to[x] < y PROVE s[x].addr <= t[y].addr
    <3>1. t[y] = s[of[y]] /\ of[y] \in 1 .. n
      BY <1>3, <1>4
    <3>2. CASE x < of[y]
      BY <3>1, <3>2, <1>1, <1>11 DEF IsSettled
    <3>3. CASE of[y] = k /\ k < x /\ x <= j
      <4>1. s[x].addr <= s[j].addr
        <5>1. x = j \/ x < j
          BY <3>3, <1>2
        <5>2. CASE x = j
          BY <5>2, <1>1, <1>2
        <5>3. CASE x < j
          BY <5>3, <1>1, <1>2, <1>11 DEF IsSettled
        <5>4. QED BY <5>1, <5>2, <5>3
      <4>2. k \in 1 .. n
        BY <1>1, <1>2
      <4>3. QED BY <4>1, <4>2, <3>1, <3>3, <1>1, <1>2
    <3>4. QED BY <2>2, <3>2, <3>3, <1>7
  <2>3. IsSettled(t, to[x])
    BY <2>1, <2>2, <1>1 DEF IsSettled
  <2>4. QED BY <2>1, <2>3, <1>1 DEF Settled
<1>12. Settled(s) \subseteq Settled(t)
  BY <1>1, <1>11 DEF Settled
<1>13. s[k].count \in Settled(t)
  <2>1. t[j] = s[k]
    BY <1>2, <1>4, <1>8
  <2>2. IsSettled(t, j)
    <3>1. ASSUME NEW y \in 1 .. n, j < y PROVE t[j].addr <= t[y].addr
      BY <2>1, <3>1, <1>2, <1>4, <1>8
    <3>2. QED BY <3>1, <1>1 DEF IsSettled
  <2>3. QED BY <2>1, <2>2, <1>1, <1>2 DEF Settled
<1>14. s[k].count \notin Settled(s)
  <2>1. SUFFICES ASSUME NEW x \in 1 .. n, IsSettled(s, x), s[x].count = s[k].count PROVE FALSE
    BY <1>1 DEF Settled
  <2>2. x = k
    <3>1. k \in DOMAIN s /\ x \in DOMAIN s
      BY <1>1, <1>2
    <3>2. QED BY <2>1, <3>1 DEF TraceLists, Distinct
  <2>3. s[k].addr <= s[j].addr
    BY <2>1, <2>2, <1>1, <1>2 DEF IsSettled
  <2>4. k \in 1 .. n
    BY <1>1, <1>2
  <2>5. QED BY <2>3, <2>4, <1>1, <1>2
<1>15. k < n /\ t[k] = s[k + 1]
  <2>1. k < n /\ k \in 1 .. n /\ ~(k < k)
    BY <1>1, <1>2
  <2>2. QED BY <2>1, <1>n, <1>2
<1>16. QED BY <1>9, <1>10, <1>12, <1>13, <1>14, <1>15, <1>k

\* One turn of the outer walk: it goes on, or settles a trace.
LEMMA TurnFacts ==
  ASSUME NEW l \in TraceLists, NEW w \in [list : Seq(Trace), at : Nat, ch : BOOLEAN],
         SameTraces(l, w.list), NEW p \in 1 .. Len(l), Reached(l, w, p)
  PROVE  /\ Turn(w) \in [list : Seq(Trace), at : Nat, ch : BOOLEAN]
         /\ SameTraces(l, Turn(w).list) /\ Settled(w.list) \subseteq Settled(Turn(w).list)
         /\ \/ Reached(l, Turn(w), p + 1)
            \/ Reached(l, Turn(w), p) /\ \E c \in Settled(Turn(w).list) : c \notin Settled(w.list)
<1> DEFINE s == w.list
           n == Len(l)
           t == BehindSmaller(s, p)
           next == IF p = Len(s) THEN 0 ELSE s[p + 1].count
           ch == w.ch \/ Smaller(s, p) # {}
<1>1. s \in TraceLists /\ s \in Seq(Trace) /\ Len(s) = n /\ n \in Nat /\ w.ch \in BOOLEAN /\ l \in Seq(Trace)
  BY DEF SameTraces, TraceLists
<1>2. /\ DOMAIN s = 1 .. n /\ p \in DOMAIN s /\ DOMAIN l = 1 .. n
      /\ \A i \in 1 .. n : s[i].addr \in Nat /\ s[i].count \in Nat \ {0}
  BY <1>1, TraceFacts
<1>3. p # n + 1 /\ p \in Nat /\ p + 1 \in 1 .. n + 1 /\ p + 1 - 1 = p
  BY <1>1
<1>4. w.at = s[p].count /\ w.at # 0
  BY <1>2, <1>3 DEF Reached
<1>5. (CHOOSE i \in DOMAIN s : s[i].count = w.at) = p
  <2>1. \A i \in DOMAIN s : s[i].count = w.at => i = p
    BY <1>1, <1>2, <1>4 DEF TraceLists, Distinct
  <2>2. QED BY <2>1, <1>2, <1>4
<1>6. Turn(w) = [list |-> t, at |-> next, ch |-> ch]
  <2> DEFINE K == CHOOSE i \in DOMAIN s : s[i].count = w.at
  <2>1. Turn(w) = [list |-> BehindSmaller(s, K), at |-> IF K = Len(s) THEN 0 ELSE s[K + 1].count,
                   ch |-> w.ch \/ Smaller(s, K) # {}]
    BY <1>4 DEF Turn
  <2>2. K = p
    BY <1>5
  <2> HIDE DEF K
  <2>3. QED BY <2>1, <2>2
<1>7. \A i \in 1 .. p - 1 : IsSettled(s, i)
  BY DEF Reached
<1>8. next = IF p = n THEN 0 ELSE s[p + 1].count
  BY <1>1
<1>9. next \in Nat /\ (p # n => next = s[p + 1].count) /\ (p = n => next = 0)
  BY <1>1, <1>2, <1>8
<1>10. ch \in BOOLEAN
  BY <1>1
<1>11. ASSUME NEW u \in Seq(Trace), t = u
       PROVE  /\ Turn(w) \in [list : Seq(Trace), at : Nat, ch : BOOLEAN]
              /\ Turn(w).list = u /\ Turn(w).at = next /\ Turn(w).ch = ch
  <2> HIDE DEF next, ch, t
  <2> QED BY <1>6, <1>9, <1>10, <1>11
<1>12. ASSUME NEW u, SameTraces(s, u) PROVE SameTraces(l, u)
  BY <1>1, <1>12 DEF SameTraces
<1>13. CASE Smaller(s, p) = {} /\ t = s
  <2>1. Turn(w).list = s /\ Turn(w).at = next /\ Turn(w).ch = w.ch
    <3>1. Turn(w).list = s /\ Turn(w).at = next /\ Turn(w).ch = ch
      <4> HIDE DEF next, ch, t
      <4> QED BY <1>1, <1>11, <1>13
    <3>2. QED BY <3>1, <1>1, <1>13
  <2>2. \A j \in 1 .. n : s[p].addr <= s[j].addr
    <3>1. \A j \in 1 .. n : ~(s[j].addr < s[p].addr)
      BY <1>2, <1>13 DEF Smaller
    <3>2. QED BY <3>1, <1>1, <1>2
  <2>3. \A i \in 1 .. p : IsSettled(s, i)
    <3>1. \A i \in 1 .. p : i \in 1 .. p - 1 \/ i = p
      BY <1>3
    <3>2. IsSettled(s, p)
      BY <2>2, <1>2 DEF IsSettled
    <3>3. QED BY <3>1, <3>2, <1>7
  <2>4. next = IF p + 1 = n + 1 THEN 0 ELSE s[p + 1].count
    BY <1>1, <1>3, <1>9
  <2> HIDE DEF next
  <2>5. ~w.ch => s = l /\ \A i \in 1 .. p, j \in DOMAIN l : l[i].addr <= l[j].addr
    <3>1. \A i \in 1 .. p : i \in 1 .. p - 1 \/ i = p
      BY <1>3
    <3>2. ~w.ch => s = l /\ \A i \in 1 .. p - 1, j \in DOMAIN l : l[i].addr <= l[j].addr
      BY DEF Reached
    <3>3. QED BY <3>1, <3>2, <2>2, <1>2
  <2> HIDE DEF s, n, t, ch
  <2>6. Reached(l, Turn(w), p + 1)
    BY <2>1, <2>3, <2>4, <2>5, <1>3 DEF Reached, n
  <2>7. SameTraces(l, s)
    BY DEF s
  <2>8. Turn(w) \in [list : Seq(Trace), at : Nat, ch : BOOLEAN]
    BY <1>1, <1>11, <1>13
  <2>9. QED BY <2>1, <2>6, <2>7, <2>8 DEF s
<1>14. ASSUME t \in Seq(Trace), Len(t) = Len(s), NEW j \in Smaller(s, p), \A y \in Smaller(s, p) : y <= j,
              WentBack(s, p, j, t)
       PROVE  /\ SameTraces(l, t) /\ Settled(s) \subseteq Settled(t) /\ Reached(l, Turn(w), p + 1)
              /\ Turn(w) \in [list : Seq(Trace), at : Nat, ch : BOOLEAN] /\ Turn(w).list = t
  <2>1. p \in 1 .. Len(s)
    BY <1>1
  <2>a. Smaller(s, p) # {}
    BY <1>14
  <2> HIDE DEF s, t
  <2>2. /\ SameTraces(s, t) /\ Settled(s) \subseteq Settled(t)
        /\ \A i \in 1 .. p : IsSettled(t, i)
        /\ p < Len(s) => t[p + 1] = s[p + 1]
    BY <2>1, <1>1, <1>7, <1>14, BackSettles
  <2>3. next = IF p + 1 = n + 1 THEN 0 ELSE t[p + 1].count
    BY <2>2, <1>1, <1>3, <1>9
  <2>4. ch
    BY <2>a
  <2> HIDE DEF next, ch, n
  <2>5. /\ Turn(w) \in [list : Seq(Trace), at : Nat, ch : BOOLEAN]
        /\ Turn(w).list = t /\ Turn(w).at = next /\ Turn(w).ch = ch
    BY <1>11, <1>14
  <2>6. Reached(l, Turn(w), p + 1)
    BY <2>2, <2>3, <2>4, <2>5, <1>3 DEF Reached, n
  <2>7. QED BY <2>2, <2>5, <2>6, <1>12
<1>15. ASSUME t \in Seq(Trace), Len(t) = Len(s), NEW j \in Smaller(s, p), \A y \in Smaller(s, p) : y <= j,
              WentAhead(s, p, j, t)
       PROVE  /\ SameTraces(l, t) /\ Settled(s) \subseteq Settled(t) /\ Reached(l, Turn(w), p)
              /\ \E c \in Settled(t) : c \notin Settled(s)
              /\ Turn(w) \in [list : Seq(Trace), at : Nat, ch : BOOLEAN] /\ Turn(w).list = t
  <2>1. p \in 1 .. Len(s)
    BY <1>1
  <2>a. Smaller(s, p) # {}
    BY <1>15
  <2> HIDE DEF s, t
  <2>2. /\ SameTraces(s, t) /\ Settled(s) \subseteq Settled(t)
        /\ s[p].count \in Settled(t) \ Settled(s)
        /\ \A i \in 1 .. p - 1 : IsSettled(t, i)
        /\ p < Len(s) /\ t[p] = s[p + 1]
    BY <2>1, <1>1, <1>7, <1>15, AheadSettles
  <2>3. next = IF p = n + 1 THEN 0 ELSE t[p].count
    BY <2>2, <1>1, <1>3, <1>9
  <2>4. ch
    BY <2>a
  <2>b. p \in 1 .. n + 1
    BY <1>1
  <2> HIDE DEF next, ch, n
  <2>5. /\ Turn(w) \in [list : Seq(Trace), at : Nat, ch : BOOLEAN]
        /\ Turn(w).list = t /\ Turn(w).at = next /\ Turn(w).ch = ch
    BY <1>11, <1>15
  <2>6. Reached(l, Turn(w), p)
    BY <2>2, <2>3, <2>4, <2>5, <2>b DEF Reached, n
  <2>7. QED BY <2>2, <2>5, <2>6, <1>12
<1>16. \/ Smaller(s, p) = {} /\ t = s
       \/ /\ t \in Seq(Trace) /\ Len(t) = Len(s)
          /\ \E j \in Smaller(s, p) :
               /\ \A y \in Smaller(s, p) : y <= j
               /\ WentBack(s, p, j, t) \/ WentAhead(s, p, j, t)
  <2>1. p \in 1 .. Len(s)
    BY <1>1
  <2> HIDE DEF s
  <2>2. QED BY <2>1, <1>1, BehindCases, Zenon
<1>17. QED
  <2> HIDE DEF t, next, ch
  <2>1. CASE Smaller(s, p) = {} /\ t = s
    BY <2>1, <1>13
  <2>2. CASE \E j \in Smaller(s, p) : ~(Smaller(s, p) = {} /\ t = s)
    BY <2>2, <1>14, <1>15, <1>16
  <2>3. QED BY <2>1, <2>2, <1>16

\* A walk stays among its states.
LEMMA TurnStays ==
  ASSUME NEW l \in TraceLists, NEW w \in WalkStates(l)
  PROVE  Turn(w) \in WalkStates(l)
<1>1. /\ w \in [list : Seq(Trace), at : Nat, ch : BOOLEAN] /\ SameTraces(l, w.list)
      /\ \E p \in 1 .. Len(l) + 1 : Reached(l, w, p)
  BY DEF WalkStates
<1>2. PICK p \in 1 .. Len(l) + 1 : Reached(l, w, p)
  BY <1>1
<1>3. Len(l) \in Nat
  BY DEF TraceLists
<1>4. CASE p = Len(l) + 1
  <2>1. Turn(w) = w
    BY <1>2, <1>4 DEF Reached, Turn
  <2>2. QED BY <2>1
<1>5. CASE p \in 1 .. Len(l)
  <2>1. /\ Turn(w) \in [list : Seq(Trace), at : Nat, ch : BOOLEAN] /\ SameTraces(l, Turn(w).list)
        /\ Reached(l, Turn(w), p + 1) \/ Reached(l, Turn(w), p)
    BY <1>1, <1>2, <1>5, TurnFacts
  <2>2. p + 1 \in 1 .. Len(l) + 1
    BY <1>3, <1>5
  <2>3. QED BY <2>1, <2>2 DEF WalkStates
<1>6. QED BY <1>3, <1>4, <1>5

\* The recursion of trace_sort is well defined.
LEMMA WalkUnfolds ==
  ASSUME NEW l \in TraceLists
  PROVE  \E c : /\ Walk(l) = c[2 * Len(l)]
                /\ c[0] = [list |-> l, at |-> IF l = <<>> THEN 0 ELSE l[1].count, ch |-> FALSE]
                /\ \A k \in 0 .. 2 * Len(l) : c[k] \in WalkStates(l)
                /\ \A k \in 1 .. 2 * Len(l) : c[k] = Turn(c[k - 1])
<1> DEFINE n == 2 * Len(l)
           V == WalkStates(l)
           v == [list |-> l, at |-> IF l = <<>> THEN 0 ELSE l[1].count, ch |-> FALSE]
           Value(h, k) == IF k = 0 THEN v ELSE Turn(h[k - 1])
           step == [k \in 1 .. n |-> [w \in V |-> Turn(w)]]
<1>1. l \in Seq(Trace) /\ Len(l) \in Nat /\ n \in Nat
  BY DEF TraceLists
<1>2. v \in V
  <2>1. v \in [list : Seq(Trace), at : Nat, ch : BOOLEAN]
    <3>1. l # <<>> => l[1].count \in Nat
      <4>1. l # <<>> => 1 \in 1 .. Len(l)
        BY <1>1
      <4>2. QED BY <4>1, <1>1, TraceFacts
    <3>2. QED BY <1>1, <3>1
  <2>2. v.list = l /\ v.ch = FALSE /\ v.at = IF l = <<>> THEN 0 ELSE l[1].count
    OBVIOUS
  <2>3. SameTraces(l, v.list)
    BY <2>2 DEF SameTraces
  <2>4. Reached(l, v, 1) /\ 1 \in 1 .. Len(l) + 1
    <3>1. (1 = Len(l) + 1) <=> l = <<>>
      BY <1>1
    <3>2. 1 .. 1 - 1 = {} /\ 1 \in 1 .. Len(l) + 1
      BY <1>1
    <3> HIDE DEF v
    <3>3. QED BY <2>2, <3>1, <3>2 DEF Reached
  <2> HIDE DEF v
  <2>5. QED BY <2>1, <2>3, <2>4 DEF WalkStates
<1>3. step \in Steps(n, V)
  <2>1. [w \in V |-> Turn(w)] \in [V -> V]
    BY TurnStays
  <2> HIDE DEF V, n
  <2>2. QED BY <2>1 DEF Steps
<1>4. PICK g : Iterates(g, n, V, v, step)
  <2> HIDE DEF step, n, V, v
  <2> QED BY <1>1, <1>2, <1>3, Recursion
<1>5. g \in [0 .. n -> V] /\ g[0] = v /\ \A k \in 1 .. n : g[k] = step[k][g[k - 1]]
  BY <1>4, Zenon DEF Iterates
<1> HIDE DEF n, V, v
<1>6. g = [k \in 0 .. n |-> Value(g, k)]
  <2>1. ASSUME NEW k \in 0 .. n PROVE g[k] = Value(g, k)
    <3>1. CASE k = 0
      BY <3>1, <1>5
    <3>2. CASE k # 0
      <4>1. k \in 1 .. n /\ k - 1 \in 0 .. n
        BY <3>2, <1>1
      <4>2. g[k - 1] \in V
        BY <4>1, <1>5
      <4>3. step[k][g[k - 1]] = Turn(g[k - 1])
        BY <4>1, <4>2
      <4>4. QED BY <3>2, <4>1, <4>3, <1>5
    <3>3. QED BY <3>1, <3>2
  <2> HIDE DEF Value
  <2>2. QED BY <2>1, <1>5
<1> DEFINE c == CHOOSE c : c = [k \in 0 .. n |-> Value(c, k)]
<1>7. c = [k \in 0 .. n |-> Value(c, k)]
  <2> HIDE DEF Value
  <2> QED BY <1>6
<1>8. Walk(l) = c[n]
  BY Zenon DEF Walk, n, v
<1> HIDE DEF c
<1>9. \A k \in 0 .. n : c[k] = Value(c, k)
  <2> HIDE DEF Value
  <2> QED BY <1>7
<1>10. c[0] = v
  BY <1>1, <1>9
<1>11. \A k \in 1 .. n : c[k] = Turn(c[k - 1])
  <2>1. \A k \in 1 .. n : k \in 0 .. n /\ k # 0
    BY <1>1
  <2>2. QED BY <2>1, <1>9
<1>12. \A k \in 0 .. n : c[k] \in V
  <2> DEFINE P == {k \in 0 .. n : c[k] \in V}
  <2>1. 0 \in P
    BY <1>1, <1>2, <1>10
  <2>2. ASSUME NEW k \in 1 .. n, k - 1 \in P PROVE k \in P
    <3>1. c[k] \in V
      BY <2>2, <1>11, TurnStays DEF V
    <3>2. QED BY <3>1, <1>1
  <2>3. \A k \in 1 .. n : k - 1 \in P => k \in P
    BY <2>2
  <2> HIDE DEF P
  <2>4. \A k \in 0 .. n : k \in P
    BY <1>1, <2>1, <2>3, Climbs
  <2>5. QED BY <2>4 DEF P
<1>13. QED BY <1>8, <1>10, <1>11, <1>12 DEF n, v, V

\* There are no more settled traces than traces.
LEMMA SettledFew ==
  ASSUME NEW s \in Seq(Trace)
  PROVE  IsFiniteSet(Settled(s)) /\ Cardinality(Settled(s)) \in Nat /\ Cardinality(Settled(s)) <= Len(s)
<1> DEFINE D == {x \in DOMAIN s : IsSettled(s, x)}
<1>1. Len(s) \in Nat /\ IsFiniteSet(1 .. Len(s)) /\ Cardinality(1 .. Len(s)) = Len(s)
  <2>1. Len(s) \in Nat /\ 1 \in Int
    OBVIOUS
  <2>2. IsFiniteSet(1 .. Len(s)) /\ Cardinality(1 .. Len(s)) = IF 1 > Len(s) THEN 0 ELSE Len(s) - 1 + 1
    BY <2>1, FS_Interval
  <2>3. QED BY <2>1, <2>2
<1>2. D \subseteq 1 .. Len(s)
  OBVIOUS
<1>3. IsFiniteSet(D) /\ Cardinality(D) <= Len(s) /\ Cardinality(D) \in Nat
  <2> HIDE DEF D
  <2>1. IsFiniteSet(D) /\ Cardinality(D) <= Cardinality(1 .. Len(s))
    BY <1>1, <1>2, FS_Subset
  <2>2. QED BY <2>1, <1>1, FS_CardinalityType
<1> DEFINE f == [x \in D |-> s[x].count]
<1>4. Settled(s) = {f[x] : x \in D}
  BY DEF Settled
<1>5. f \in Surjection(D, Settled(s))
  <2>1. f \in [D -> Settled(s)]
    BY DEF Settled
  <2>2. \A t \in Settled(s) : \E x \in D : f[x] = t
    BY <1>4
  <2> HIDE DEF f, D
  <2>3. QED BY <2>1, <2>2 DEF Surjection
<1>6. IsFiniteSet(Settled(s)) /\ Cardinality(Settled(s)) <= Cardinality(D)
  <2> HIDE DEF f, D
  <2> QED BY <1>3, <1>5, FS_Surjection
<1>7. Cardinality(Settled(s)) \in Nat
  BY <1>6, FS_CardinalityType
<1>8. QED
  <2> HIDE DEF D
  <2> QED BY <1>1, <1>3, <1>6, <1>7

\* Each turn goes on or settles a trace, so that the walk ends.
LEMMA WalkEnds ==
  ASSUME NEW l \in TraceLists
  PROVE  Walk(l) \in WalkStates(l) /\ Walk(l).at = 0
<1> DEFINE m == Len(l)
           n == 2 * m
           Done(w, k) == w.at = 0 \/ \E p \in 1 .. m : Reached(l, w, p) /\ p - 1 + Cardinality(Settled(w.list)) >= k
<1>1. PICK c : /\ Walk(l) = c[n]
               /\ c[0] = [list |-> l, at |-> IF l = <<>> THEN 0 ELSE l[1].count, ch |-> FALSE]
               /\ \A k \in 0 .. n : c[k] \in WalkStates(l)
               /\ \A k \in 1 .. n : c[k] = Turn(c[k - 1])
  BY WalkUnfolds
<1>2. m \in Nat /\ n \in Nat /\ n = m + m /\ l \in Seq(Trace)
  BY DEF TraceLists
<1>m. m = Len(l)
  OBVIOUS
<1> HIDE DEF m, n
<1>3. \A w \in WalkStates(l) : /\ w \in [list : Seq(Trace), at : Nat, ch : BOOLEAN] /\ SameTraces(l, w.list)
                               /\ w.list \in Seq(Trace) /\ Len(w.list) = m
                               /\ \E p \in 1 .. m + 1 : Reached(l, w, p)
  BY <1>m DEF WalkStates, SameTraces
<1>4. \A w, p : Reached(l, w, p) /\ p = m + 1 => w.at = 0
  BY <1>m DEF Reached
<1> DEFINE P == {k \in 0 .. n : Done(c[k], k)}
<1>5. 0 \in P
  <2>1. c[0] \in WalkStates(l) /\ 0 \in 0 .. n
    BY <1>1, <1>2
  <2>2. PICK p \in 1 .. m + 1 : Reached(l, c[0], p)
    BY <2>1, <1>3
  <2>3. c[0].at = 0 \/ p \in 1 .. m
    BY <2>2, <1>2, <1>4
  <2>4. p - 1 + Cardinality(Settled(c[0].list)) >= 0
    <3>1. Cardinality(Settled(c[0].list)) \in Nat
      BY <2>1, <1>3, SettledFew
    <3>2. QED BY <3>1, <1>2
  <2>5. QED BY <2>1, <2>2, <2>3, <2>4
<1>6. ASSUME NEW k \in 1 .. n, k - 1 \in P PROVE k \in P
  <2> DEFINE w == c[k - 1]
  <2>1. k \in 0 .. n /\ k - 1 \in 0 .. n /\ k \in Nat
    BY <1>2
  <2>2. w \in WalkStates(l) /\ c[k] = Turn(w) /\ c[k] \in WalkStates(l) /\ Done(w, k - 1)
    BY <1>1, <1>6, <2>1
  <2> HIDE DEF w
  <2>3. CASE w.at = 0
    <3>1. c[k] = w
      BY <2>2, <2>3 DEF Turn
    <3>2. QED BY <2>1, <2>3, <3>1
  <2>4. CASE w.at # 0
    <3>1. PICK p \in 1 .. m : Reached(l, w, p) /\ p - 1 + Cardinality(Settled(w.list)) >= k - 1
      BY <2>2, <2>4
    <3> DEFINE S == Settled(w.list)
               T == Settled(c[k].list)
    <3>2. /\ S \subseteq T
          /\ \/ Reached(l, c[k], p + 1)
             \/ Reached(l, c[k], p) /\ \E x \in T : x \notin S
      <4>1. p \in 1 .. Len(l) /\ Reached(l, w, p) /\ SameTraces(l, w.list)
            /\ w \in [list : Seq(Trace), at : Nat, ch : BOOLEAN]
        BY <2>2, <3>1, <1>3, <1>m
      <4>2. /\ Settled(w.list) \subseteq Settled(Turn(w).list)
            /\ \/ Reached(l, Turn(w), p + 1)
               \/ Reached(l, Turn(w), p) /\ \E x \in Settled(Turn(w).list) : x \notin Settled(w.list)
        BY <4>1, TurnFacts
      <4>3. QED BY <2>2, <4>2
    <3>3. IsFiniteSet(S) /\ IsFiniteSet(T) /\ Cardinality(S) \in Nat /\ Cardinality(T) \in Nat
      BY <2>2, <1>3, SettledFew
    <3> HIDE DEF S, T
    <3>4. Cardinality(S) <= Cardinality(T)
      BY <3>2, <3>3, FS_Subset
    <3>5. CASE Reached(l, c[k], p + 1)
      <4>1. CASE p = m
        BY <2>1, <3>5, <4>1, <1>4
      <4>2. CASE p # m
        <5>1. p + 1 \in 1 .. m /\ p + 1 - 1 + Cardinality(T) >= k
          <6>1. p - 1 + Cardinality(S) >= k - 1 /\ p \in 1 .. m /\ p # m
            BY <3>1, <4>2 DEF S
          <6>2. QED BY <6>1, <2>1, <3>3, <3>4, <1>2
        <5>2. QED BY <5>1, <2>1, <3>5 DEF T
      <4>3. QED BY <4>1, <4>2
    <3>6. CASE Reached(l, c[k], p) /\ \E x \in T : x \notin S
      <4>1. PICK x \in T : x \notin S
        BY <3>6
      <4>2. S \union {x} \subseteq T
        BY <3>2, <4>1
      <4>3. IsFiniteSet(S \union {x}) /\ Cardinality(S \union {x}) = Cardinality(S) + 1
        BY <3>3, <4>1, FS_AddElement
      <4>4. Cardinality(S) + 1 <= Cardinality(T)
        BY <3>3, <4>2, <4>3, FS_Subset
      <4>5. p - 1 + Cardinality(T) >= k
        <5>1. p - 1 + Cardinality(S) >= k - 1 /\ p \in 1 .. m
          BY <3>1 DEF S
        <5>2. QED BY <5>1, <4>4, <2>1, <3>3, <1>2
      <4>6. QED BY <4>5, <2>1, <3>6 DEF T
    <3>7. QED BY <3>2, <3>5, <3>6
  <2>5. QED BY <2>3, <2>4
<1>7. n \in P
  <2>1. \A k \in 1 .. n : k - 1 \in P => k \in P
    BY <1>6
  <2> HIDE DEF P
  <2>2. \A k \in 0 .. n : k \in P
    BY <1>2, <1>5, <2>1, Climbs
  <2>3. QED BY <2>2, <1>2
<1>8. c[n] \in WalkStates(l)
  BY <1>1, <1>2
<1>9. c[n].at = 0
  <2>1. SUFFICES ASSUME NEW p \in 1 .. m, p - 1 + Cardinality(Settled(c[n].list)) >= n PROVE FALSE
    BY <1>7
  <2>2. Cardinality(Settled(c[n].list)) \in Nat /\ Cardinality(Settled(c[n].list)) <= m
    BY <1>3, <1>8, SettledFew
  <2>3. QED BY <2>1, <2>2, <1>2
<1>10. QED BY <1>1, <1>8, <1>9

\* What trace_sort makes of a list: the same traces, sorted.  If it moved
\* nothing, all of them are of one address.
LEMMA WalkFacts ==
  ASSUME NEW l \in TraceLists
  PROVE  /\ Walk(l).at = 0 /\ Walk(l).ch \in BOOLEAN /\ SameTraces(l, Walk(l).list)
         /\ \A i, j \in DOMAIN Walk(l).list : i < j => Walk(l).list[i].addr <= Walk(l).list[j].addr
         /\ ~Walk(l).ch => Walk(l).list = l /\ \A i, j \in DOMAIN l : l[i].addr <= l[j].addr
<1> DEFINE w == Walk(l)
<1>1. w \in WalkStates(l) /\ w.at = 0
  BY WalkEnds
<1> HIDE DEF w
<1>2. /\ w \in [list : Seq(Trace), at : Nat, ch : BOOLEAN] /\ SameTraces(l, w.list)
      /\ \E p \in 1 .. Len(l) + 1 : Reached(l, w, p)
  BY <1>1 DEF WalkStates
<1>3. PICK p \in 1 .. Len(l) + 1 : Reached(l, w, p)
  BY <1>2
<1>4. w.list \in Seq(Trace) /\ Len(w.list) = Len(l) /\ Len(l) \in Nat /\ DOMAIN l = 1 .. Len(l)
  BY <1>2 DEF SameTraces, TraceLists
<1>5. p = Len(l) + 1
  <2>1. SUFFICES ASSUME p \in 1 .. Len(l) PROVE FALSE
    BY <1>3, <1>4
  <2>2. w.list[p].count # 0 /\ p # Len(l) + 1
    BY <2>1, <1>4, TraceFacts
  <2>3. QED BY <2>2, <1>1, <1>3 DEF Reached
<1>6. p - 1 = Len(l) /\ DOMAIN w.list = 1 .. p - 1 /\ DOMAIN l = 1 .. p - 1
  BY <1>4, <1>5
<1>7. \A i, j \in DOMAIN w.list : i < j => w.list[i].addr <= w.list[j].addr
  BY <1>3, <1>6 DEF Reached, IsSettled
<1>8. ~w.ch => w.list = l /\ \A i, j \in DOMAIN l : l[i].addr <= l[j].addr
  BY <1>3, <1>6 DEF Reached
<1>9. w.ch \in BOOLEAN
  BY <1>2
<1>10. QED BY <1>1, <1>2, <1>7, <1>8, <1>9 DEF w

\* The list a listing sees.
LEMMA SortFacts ==
  ASSUME traces \in TraceLists, ~trace_changed => \A i, j \in DOMAIN traces : traces[i].addr <= traces[j].addr
  PROVE  /\ SameTraces(traces, trace_sort)
         /\ \A i, j \in DOMAIN trace_sort : i < j => trace_sort[i].addr <= trace_sort[j].addr
  BY WalkFacts DEF trace_sort, SameTraces

(***************************************************************************)
(* The invariant of the traces: numbers are used once, nothing was counted *)
(* for an address that was not traced, and the list is only taken as       *)
(* sorted when all its addresses are the same.                             *)
(***************************************************************************)
TraceInv ==
  /\ traces \in TraceLists /\ n_traces \in 0 .. MaxAdds /\ trace_tag \in TraceTags
  /\ trace_changed \in BOOLEAN /\ dup \in BOOLEAN /\ dupped \in BOOLEAN
  /\ ran \in [TraceAddr -> [times : Nat, last : Nat]]
  /\ \A i \in DOMAIN traces : traces[i].count <= n_traces
  /\ \A a \in TraceAddr : ran[a].last = 0 => ran[a].times = 0
  /\ ~trace_changed => \A i, j \in DOMAIN traces : traces[i].addr <= traces[j].addr
  /\ CountsTrue

\* The bits of a tag.
LEMMA TagBitsFacts ==
  ASSUME NEW tag
  PROVE  TagBits(tag) \in SUBSET (0 .. 5)
  BY DEF TagBits

\* A trace that is met again.
LEMMA AgainFacts ==
  ASSUME NEW t \in Trace
  PROVE  /\ Again(t) \in Trace /\ Again(t).addr = t.addr /\ Again(t).count = t.count
         /\ Again(t).times = t.times + 1
<1> DEFINE b == TagBits(trace_tag)
<1>1. b \in SUBSET (0 .. 5)
  BY TagBitsFacts
<1> HIDE DEF b
<1>2. Again(t) = [t EXCEPT !.times = t.times + 1, !.tags = t.tags \union b]
  BY DEF Again, b, Trace
<1>3. t.times + 1 \in Nat /\ t.tags \union b \in SUBSET (0 .. 5)
  <2>1. t.times \in Nat /\ t.tags \in SUBSET (0 .. 5)
    BY DEF Trace
  <2>2. \A x \in Nat : x + 1 \in Nat
    OBVIOUS
  <2>3. t.tags \union b \in SUBSET (0 .. 5)
    BY <1>1, <2>1
  <2>4. QED BY <2>1, <2>2, <2>3
<1>4. [t EXCEPT !.times = t.times + 1, !.tags = t.tags \union b] \in Trace
  BY <1>3 DEF Trace
<1>5. /\ [t EXCEPT !.times = t.times + 1, !.tags = t.tags \union b].addr = t.addr
      /\ [t EXCEPT !.times = t.times + 1, !.tags = t.tags \union b].count = t.count
      /\ [t EXCEPT !.times = t.times + 1, !.tags = t.tags \union b].times = t.times + 1
  BY DEF Trace
<1>6. QED BY <1>2, <1>4, <1>5

\* A trace with another number, or another count.
LEMMA FieldFacts ==
  ASSUME NEW t \in Trace, NEW n \in Nat
  PROVE  /\ n \in 1 .. MaxAdds =>
              /\ [t EXCEPT !.count = n] \in Trace /\ [t EXCEPT !.count = n].addr = t.addr
              /\ [t EXCEPT !.count = n].times = t.times /\ [t EXCEPT !.count = n].count = n
         /\ [t EXCEPT !.times = n] \in Trace /\ [t EXCEPT !.times = n].addr = t.addr
         /\ [t EXCEPT !.times = n].times = n /\ [t EXCEPT !.times = n].count = t.count
<1>1. n \in 1 .. MaxAdds =>
         /\ [t EXCEPT !.count = n] \in Trace /\ [t EXCEPT !.count = n].addr = t.addr
         /\ [t EXCEPT !.count = n].times = t.times /\ [t EXCEPT !.count = n].count = n
  BY DEF Trace
<1>2. /\ [t EXCEPT !.times = n] \in Trace /\ [t EXCEPT !.times = n].addr = t.addr
      /\ [t EXCEPT !.times = n].times = n /\ [t EXCEPT !.times = n].count = t.count
  BY DEF Trace
<1>3. QED BY <1>1, <1>2

\* The first of a set of positions.
LEMMA FirstFacts ==
  ASSUME NEW S, S \subseteq Nat, S # {}
  PROVE  FirstOf(S) \in S /\ \A x \in S : FirstOf(S) <= x
<1>1. \E x \in S : \A y \in S : x <= y
  BY Smallest
<1>2. QED BY <1>1 DEF FirstOf

\* The first trace of the address counts, or all of them count and a new one
\* is behind them.
Counted(l, a, f) ==
  /\ f \in DOMAIN traces /\ traces[f].addr = a /\ Len(l) = Len(traces)
  /\ l[f].addr = a /\ l[f].times = traces[f].times + 1 /\ l[f].count = n_traces + 1
  /\ \A i \in DOMAIN traces : i # f => l[i] = traces[i]

Appended(l, a) ==
  /\ Len(l) = Len(traces) + 1
  /\ l[Len(l)].addr = a /\ l[Len(l)].times = 1 /\ l[Len(l)].count = n_traces + 1
  /\ \A i \in DOMAIN traces : l[i].addr = traces[i].addr /\ l[i].count = traces[i].count
  /\ TracedAt(traces, a) = {} => \A i \in DOMAIN traces : l[i] = traces[i]

\* trace_add does one of the two.
LEMMA AddFacts ==
  ASSUME TraceInv, NEW a \in TraceAddr, n_traces < MaxAdds
  PROVE  /\ trace_add(a) \in Seq(Trace)
         /\ \/ ~dup /\ TracedAt(traces, a) # {} /\ \E f \in DOMAIN traces : Counted(trace_add(a), a, f)
            \/ (dup \/ TracedAt(traces, a) = {}) /\ Appended(trace_add(a), a)
<1> DEFINE here == TracedAt(traces, a)
           num == n_traces + 1
           n == Len(traces)
<1>1. /\ traces \in Seq(Trace) /\ n \in Nat /\ DOMAIN traces = 1 .. n
      /\ \A i \in 1 .. n : traces[i] \in Trace
  BY DEF TraceInv, TraceLists
<1>2. num \in Nat /\ num \in 1 .. MaxAdds
  BY TraceAssumption DEF TraceInv
<1>3. here \subseteq 1 .. n /\ here \subseteq Nat /\ \A i \in here : traces[i].addr = a
  BY <1>1 DEF TracedAt
<1>4. CASE ~dup /\ here # {}
  <2> DEFINE f == FirstOf(here)
             F == [Again(traces[f]) EXCEPT !.count = num]
  <2>1. f \in here
    <3> HIDE DEF here
    <3> QED BY <1>3, <1>4, FirstFacts
  <2>2. f \in 1 .. n /\ traces[f] \in Trace /\ traces[f].addr = a
    <3> HIDE DEF f, here
    <3> QED BY <2>1, <1>1, <1>3
  <2>3. trace_add(a) = [traces EXCEPT ![f] = F]
    <3>1. trace_add(a) = [traces EXCEPT ![f] = [Again(@) EXCEPT !.count = num]]
      BY <1>4 DEF trace_add, TraceAdded
    <3> HIDE DEF f, num
    <3>2. QED BY <3>1, <2>2, <1>1
  <2>4. F \in Trace /\ F.addr = a /\ F.times = traces[f].times + 1 /\ F.count = num
    <3> HIDE DEF f, num
    <3>1. /\ Again(traces[f]) \in Trace /\ Again(traces[f]).addr = a
          /\ Again(traces[f]).times = traces[f].times + 1
      BY <2>2, AgainFacts
    <3>2. QED BY <3>1, <1>2, FieldFacts
  <2> HIDE DEF F, f
  <2>5. /\ trace_add(a) \in Seq(Trace) /\ Len(trace_add(a)) = n
        /\ trace_add(a)[f] = F /\ \A i \in 1 .. n : i # f => trace_add(a)[i] = traces[i]
    BY <2>2, <2>3, <2>4, <1>1
  <2>6. Counted(trace_add(a), a, f)
    BY <2>2, <2>4, <2>5, <1>1 DEF Counted
  <2>7. QED BY <2>2, <2>5, <2>6, <1>1, <1>4
<1>5. CASE ~(~dup /\ here # {})
  <2> DEFINE new == [addr |-> a, times |-> 1, count |-> num, tags |-> TagBits(trace_tag)]
             all == [i \in DOMAIN traces |-> IF i \in here THEN Again(traces[i]) ELSE traces[i]]
  <2>1. trace_add(a) = Append(all, new)
    BY <1>5 DEF trace_add, TraceAdded
  <2>2. new \in Trace /\ new.addr = a /\ new.times = 1 /\ new.count = num
    <3> HIDE DEF num
    <3> QED BY <1>2, TagBitsFacts DEF Trace
  <2>3. /\ all \in Seq(Trace) /\ Len(all) = n
        /\ \A i \in 1 .. n : all[i] \in Trace /\ all[i].addr = traces[i].addr /\ all[i].count = traces[i].count
        /\ here = {} => \A i \in 1 .. n : all[i] = traces[i]
    <3>1. all = [i \in 1 .. n |-> IF i \in here THEN Again(traces[i]) ELSE traces[i]]
      BY <1>1
    <3>2. \A i \in 1 .. n : /\ all[i] \in Trace /\ all[i].addr = traces[i].addr /\ all[i].count = traces[i].count
      <4> HIDE DEF here
      <4> QED BY <1>1, <3>1, AgainFacts
    <3>3. all \in Seq(Trace) /\ Len(all) = n
      <4>1. all \in [1 .. n -> Trace]
        <5> HIDE DEF here
        <5> QED BY <3>1, <3>2
      <4> HIDE DEF all, n
      <4>2. QED BY <4>1, <1>1
    <3>4. here = {} => \A i \in 1 .. n : all[i] = traces[i]
      BY <3>1
    <3> HIDE DEF all
    <3>5. QED BY <3>2, <3>3, <3>4
  <2> HIDE DEF new, all
  <2>4. /\ trace_add(a) \in Seq(Trace) /\ Len(trace_add(a)) = n + 1 /\ trace_add(a)[n + 1] = new
        /\ \A i \in 1 .. n : trace_add(a)[i] = all[i]
    BY <2>1, <2>2, <2>3, <1>1
  <2>5. Appended(trace_add(a), a)
    BY <2>2, <2>3, <2>4, <1>1 DEF Appended
  <2>6. QED BY <2>4, <2>5, <1>5
<1>6. QED BY <1>4, <1>5

\* An instruction is traced, and its trace says it ran T times.
TracedTimes(a, T) ==
  /\ n_traces < MaxAdds /\ traces' \in Seq(Trace) /\ Len(traces') = Len(trace_add(a))
  /\ \A i \in DOMAIN traces' : /\ traces'[i].addr = trace_add(a)[i].addr
                               /\ traces'[i].count = trace_add(a)[i].count
                               /\ traces'[i].addr # a => traces'[i] = trace_add(a)[i]
  /\ ~dupped' => \A i \in DOMAIN traces' : traces'[i].addr = a => traces'[i].times = T
  /\ n_traces' = n_traces + 1 /\ trace_changed' = Grown(trace_add(a))
  /\ ran' = [ran EXCEPT ![a] = [times |-> T, last |-> n_traces + 1]]
  /\ dupped' = (dupped \/ dup) /\ trace_tag' = trace_tag /\ dup' = dup

LEMMA TracedKeeps ==
  ASSUME TraceInv, NEW a \in TraceAddr, NEW T \in Nat, TracedTimes(a, T)
  PROVE  TraceInv'
<1>t. /\ n_traces < MaxAdds /\ traces' \in Seq(Trace) /\ Len(traces') = Len(trace_add(a))
      /\ \A i \in DOMAIN traces' : /\ traces'[i].addr = trace_add(a)[i].addr
                                   /\ traces'[i].count = trace_add(a)[i].count
                                   /\ traces'[i].addr # a => traces'[i] = trace_add(a)[i]
      /\ ~dupped' => \A i \in DOMAIN traces' : traces'[i].addr = a => traces'[i].times = T
      /\ n_traces' = n_traces + 1 /\ trace_changed' = Grown(trace_add(a))
      /\ ran' = [ran EXCEPT ![a] = [times |-> T, last |-> n_traces + 1]]
      /\ dupped' = (dupped \/ dup) /\ trace_tag' = trace_tag /\ dup' = dup
  BY DEF TracedTimes
<1> DEFINE l == trace_add(a)
           n == Len(traces)
           m == n_traces + 1
<1>1. /\ l \in Seq(Trace)
      /\ \/ ~dup /\ TracedAt(traces, a) # {} /\ \E f \in DOMAIN traces : Counted(l, a, f)
         \/ (dup \/ TracedAt(traces, a) = {}) /\ Appended(l, a)
  BY <1>t, AddFacts
<1>2. /\ traces \in Seq(Trace) /\ n \in Nat /\ DOMAIN traces = 1 .. n /\ Distinct(traces)
      /\ \A i \in 1 .. n : traces[i].count \in Nat /\ traces[i].count <= n_traces /\ traces[i].addr \in Nat
  BY TraceFacts DEF TraceInv, TraceLists
<1>3. n_traces \in Nat /\ m \in 1 .. MaxAdds /\ m \in Nat /\ m # 0 /\ n_traces < m
  BY <1>t, TraceAssumption DEF TraceInv
<1> HIDE DEF l
<1>4. /\ Len(traces') = Len(l) /\ DOMAIN traces' = 1 .. Len(l) /\ Len(l) \in Nat /\ DOMAIN l = 1 .. Len(l)
      /\ \A i \in 1 .. Len(l) : /\ traces'[i].addr = l[i].addr /\ traces'[i].count = l[i].count
                                /\ traces'[i].addr # a => traces'[i] = l[i]
  <2>1. /\ traces' \in Seq(Trace) /\ Len(traces') = Len(l)
        /\ \A i \in DOMAIN traces' : /\ traces'[i].addr = l[i].addr /\ traces'[i].count = l[i].count
                                     /\ traces'[i].addr # a => traces'[i] = l[i]
    BY <1>t DEF l
  <2>2. Len(l) \in Nat /\ DOMAIN l = 1 .. Len(l)
    BY <1>1
  <2>3. DOMAIN traces' = 1 .. Len(l)
    BY <2>1
  <2>4. QED BY <2>1, <2>2, <2>3
<1> USE <1>t
<1>n. n = Len(traces)
  OBVIOUS
<1> HIDE DEF n
<1>5. ASSUME NEW f \in DOMAIN traces, Counted(l, a, f)
      PROVE  /\ Len(l) = n /\ f \in 1 .. n /\ l[f].count = m /\ l[f].addr = a /\ traces[f].addr = a
             /\ \A i \in 1 .. n : i # f => l[i] = traces[i]
  BY <1>2, <1>5, <1>n DEF Counted
<1>6. ASSUME Appended(l, a)
      PROVE  /\ Len(l) = n + 1 /\ l[n + 1].addr = a /\ l[n + 1].count = m
             /\ \A i \in 1 .. n : l[i].addr = traces[i].addr /\ l[i].count = traces[i].count
             /\ \A i \in 1 .. n + 1 : i \in 1 .. n \/ i = n + 1
             /\ n + 1 \in 1 .. n + 1 /\ n + 1 \notin 1 .. n /\ \A i \in 1 .. n : i \in 1 .. n + 1
             /\ TracedAt(traces, a) = {} => \A i \in 1 .. n : l[i] = traces[i]
  <2>1. /\ \A i \in 1 .. n + 1 : i \in 1 .. n \/ i = n + 1
        /\ n + 1 \in 1 .. n + 1 /\ n + 1 \notin 1 .. n /\ \A i \in 1 .. n : i \in 1 .. n + 1
    BY <1>2
  <2>2. /\ Len(l) = n + 1 /\ l[n + 1].addr = a /\ l[n + 1].count = m
        /\ \A i \in 1 .. n : l[i].addr = traces[i].addr /\ l[i].count = traces[i].count
        /\ TracedAt(traces, a) = {} => \A i \in 1 .. n : l[i] = traces[i]
    BY <1>2, <1>6, <1>n DEF Appended
  <2>3. QED BY <2>1, <2>2
<1> HIDE DEF m
<1>7. /\ \A i \in 1 .. Len(l) : l[i].count = m \/ (i \in 1 .. n /\ l[i].count = traces[i].count)
      /\ \A i, j \in 1 .. Len(l) : l[i].count = m /\ l[j].count = m => i = j
  <2>0. \A i \in 1 .. n : traces[i].count # m
    BY <1>2, <1>3
  <2>1. CASE \E f \in DOMAIN traces : Counted(l, a, f)
    <3>1. PICK f \in DOMAIN traces : Counted(l, a, f)
      BY <2>1
    <3>2. Len(l) = n /\ f \in 1 .. n /\ l[f].count = m /\ \A i \in 1 .. n : i # f => l[i] = traces[i]
      BY <3>1, <1>5
    <3>3. QED BY <2>0, <3>2
  <2>2. CASE Appended(l, a)
    BY <2>0, <2>2, <1>6
  <2>3. QED BY <2>1, <2>2, <1>1
<1>8. traces' \in TraceLists
  <2>1. SUFFICES ASSUME NEW i \in 1 .. Len(l), NEW j \in 1 .. Len(l), traces'[i].count = traces'[j].count PROVE i = j
    BY <1>4 DEF TraceLists, Distinct
  <2>2. l[i].count = l[j].count
    BY <2>1, <1>4
  <2>3. CASE l[i].count = m
    BY <2>2, <2>3, <1>7
  <2>4. CASE l[i].count # m
    <3>1. /\ i \in 1 .. n /\ j \in 1 .. n /\ l[i].count = traces[i].count /\ l[j].count = traces[j].count
      BY <2>2, <2>4, <1>7
    <3>2. QED BY <2>2, <3>1, <1>2 DEF Distinct
  <2>5. QED BY <2>3, <2>4
<1>9. \A i \in DOMAIN traces' : traces'[i].count <= m
  <2>1. SUFFICES ASSUME NEW i \in 1 .. Len(l) PROVE l[i].count <= m
    BY <1>4
  <2>2. CASE l[i].count = m
    BY <2>2, <1>3
  <2>3. CASE i \in 1 .. n /\ l[i].count = traces[i].count
    BY <2>3, <1>2, <1>3
  <2>4. QED BY <2>2, <2>3, <1>7
<1>10. ran' \in [TraceAddr -> [times : Nat, last : Nat]] /\ ran'[a] = [times |-> T, last |-> m]
       /\ \A b \in TraceAddr : b # a => ran'[b] = ran[b]
  BY <1>3 DEF TraceInv, m
<1>11. \A b \in TraceAddr : ran'[b].last = 0 => ran'[b].times = 0
  <2>1. ran'[a].last # 0
    BY <1>3, <1>10
  <2>2. QED BY <2>1, <1>10 DEF TraceInv
<1>12. ~trace_changed' => \A i, j \in DOMAIN traces' : traces'[i].addr <= traces'[j].addr
  <2>1. SUFFICES ASSUME ~trace_changed, ~(Len(l) > n), NEW i \in 1 .. Len(l), NEW j \in 1 .. Len(l)
                 PROVE  l[i].addr <= l[j].addr
    BY <1>4, <1>n DEF Grown, l
  <2>2. ~Appended(l, a)
    BY <2>1, <1>2, <1>6
  <2>3. PICK f \in DOMAIN traces : Counted(l, a, f)
    BY <2>2, <1>1
  <2>4. Len(l) = n /\ l[i].addr = traces[i].addr /\ l[j].addr = traces[j].addr
    BY <2>1, <2>3, <1>5
  <2>5. QED BY <2>1, <2>4, <1>2 DEF TraceInv
<1>13. CountsTrue'
  <2>1. SUFFICES ASSUME ~dupped', NEW b \in TraceAddr
                 PROVE  IF ran'[b].last = 0 THEN TracedAt(traces', b) = {}
                        ELSE \E i \in DOMAIN traces' : /\ TracedAt(traces', b) = {i}
                                                       /\ traces'[i].times = ran'[b].times
                                                       /\ traces'[i].count = ran'[b].last
    BY DEF CountsTrue
  <2>2. ~dupped /\ ~dup
    BY <2>1 DEF TraceInv
  <2>3. /\ \A x \in TraceAddr : ran[x].last = 0 => TracedAt(traces, x) = {}
        /\ \A x \in TraceAddr : ran[x].last # 0 =>
             \E i \in DOMAIN traces : /\ TracedAt(traces, x) = {i}
                                      /\ traces[i].times = ran[x].times
                                      /\ traces[i].count = ran[x].last
    BY <2>2 DEF TraceInv, CountsTrue
  <2>4. CASE b # a
    <3>1. \A i : i \in TracedAt(traces', b) <=> i \in TracedAt(traces, b)
      <4>1. CASE \E f \in DOMAIN traces : Counted(l, a, f)
        <5>1. PICK f \in DOMAIN traces : Counted(l, a, f)
          BY <4>1
        <5>2. /\ Len(l) = n /\ f \in 1 .. n /\ l[f].addr = a /\ traces[f].addr = a
              /\ \A i \in 1 .. n : i # f => l[i] = traces[i]
          BY <5>1, <1>5
        <5>3. QED BY <2>4, <5>2, <1>2, <1>4 DEF TracedAt
      <4>2. CASE Appended(l, a)
        BY <2>4, <4>2, <1>2, <1>4, <1>6 DEF TracedAt
      <4>3. QED BY <4>1, <4>2, <1>1
    <3>2. TracedAt(traces', b) = TracedAt(traces, b)
      <4>1. TracedAt(traces', b) \subseteq DOMAIN traces' /\ TracedAt(traces, b) \subseteq DOMAIN traces
        BY DEF TracedAt
      <4>2. QED BY <3>1
    <3>3. \A i \in TracedAt(traces, b) : i \in DOMAIN traces' /\ traces'[i] = traces[i]
      <4>1. ASSUME NEW i \in TracedAt(traces, b) PROVE i \in 1 .. Len(l) /\ traces'[i] = l[i] /\ i \in 1 .. n
        <5>1. i \in TracedAt(traces', b)
          BY <3>1
        <5>2. QED BY <5>1, <2>4, <1>2, <1>4 DEF TracedAt
      <4>2. ASSUME NEW i \in TracedAt(traces, b) PROVE l[i] = traces[i]
        <5>1. i \in 1 .. n /\ traces[i].addr = b
          BY <1>2 DEF TracedAt
        <5>2. CASE \E f \in DOMAIN traces : Counted(l, a, f)
          <6>1. PICK f \in DOMAIN traces : Counted(l, a, f)
            BY <5>2
          <6>2. i # f
            BY <2>4, <5>1, <6>1, <1>5
          <6>3. QED BY <5>1, <6>1, <6>2, <1>5
        <5>3. CASE Appended(l, a) /\ TracedAt(traces, a) = {}
          BY <5>1, <5>3, <1>6
        <5>4. QED BY <5>2, <5>3, <2>2, <1>1
      <4>3. QED BY <4>1, <4>2, <1>4
    <3>4. ran'[b] = ran[b]
      BY <2>4, <1>10
    <3>5. CASE ran[b].last = 0
      BY <3>2, <3>4, <3>5, <2>3
    <3>6. CASE ran[b].last # 0
      <4>1. PICK i \in DOMAIN traces : TracedAt(traces, b) = {i} /\ traces[i].times = ran[b].times
                                       /\ traces[i].count = ran[b].last
        BY <3>6, <2>3
      <4>2. i \in DOMAIN traces' /\ traces'[i] = traces[i]
        BY <3>3, <4>1
      <4>3. QED BY <3>2, <3>4, <3>6, <4>1, <4>2
    <3>7. QED BY <3>5, <3>6
  <2>5. CASE b = a
    <3>1. ran'[b].last = m /\ ran'[b].times = T /\ m # 0
      BY <2>5, <1>3, <1>10
    <3>2. PICK i \in 1 .. Len(l) : TracedAt(traces', a) = {i} /\ l[i].count = m
      <4>1. CASE TracedAt(traces, a) # {} /\ \E f \in DOMAIN traces : Counted(l, a, f)
        <5>1. PICK f \in DOMAIN traces : Counted(l, a, f)
          BY <4>1
        <5>2. ran[a].last # 0
          BY <2>3, <4>1
        <5>3. PICK g \in DOMAIN traces : TracedAt(traces, a) = {g}
          BY <2>3, <5>2
        <5>4. f = g
          BY <5>1, <5>3, <1>2, <1>5 DEF TracedAt
        <5>5. \A i \in 1 .. n : traces[i].addr = a => i = f
          BY <5>3, <5>4, <1>2 DEF TracedAt
        <5>6. TracedAt(traces', a) = {f}
          BY <5>1, <5>5, <1>4, <1>5 DEF TracedAt
        <5>7. QED BY <5>1, <5>6, <1>5
      <4>2. CASE TracedAt(traces, a) = {} /\ Appended(l, a)
        <5>1. \A i \in 1 .. n : traces[i].addr # a
          BY <4>2, <1>2 DEF TracedAt
        <5>2. TracedAt(traces', a) = {n + 1}
          BY <4>2, <5>1, <1>4, <1>6 DEF TracedAt
        <5>3. QED BY <4>2, <5>2, <1>6
      <4>3. QED BY <4>1, <4>2, <2>2, <1>1
    <3>3. i \in DOMAIN traces' /\ traces'[i].addr = a /\ traces'[i].count = m
      BY <3>2, <1>4 DEF TracedAt
    <3>4. traces'[i].times = T
      BY <2>1, <3>3
    <3>5. QED BY <2>5, <3>1, <3>2, <3>3, <3>4
  <2>6. QED BY <2>4, <2>5
<1>14. /\ n_traces' \in 0 .. MaxAdds /\ n_traces' = m /\ trace_tag' \in TraceTags
       /\ trace_changed' \in BOOLEAN /\ dup' \in BOOLEAN /\ dupped' \in BOOLEAN
  <2>1. n_traces' = m /\ m \in 0 .. MaxAdds
    <3>1. n_traces' = m
      BY DEF m
    <3>2. QED BY <3>1, <1>3
  <2>2. trace_changed' \in BOOLEAN
    BY DEF Grown, TraceInv
  <2>3. QED BY <2>1, <2>2 DEF TraceInv
<1>15. QED BY <1>8, <1>9, <1>10, <1>11, <1>12, <1>13, <1>14 DEF TraceInv

\* An instruction is executed, or at+ sets how often it ran.
LEMMA ExecuteKeeps ==
  ASSUME TraceInv, NEW a \in TraceAddr, Execute(a)
  PROVE  TraceInv'
<1> DEFINE T == ran[a].times + 1
<1>1. /\ n_traces < MaxAdds /\ traces' = trace_add(a) /\ n_traces' = n_traces + 1
      /\ trace_changed' = Grown(trace_add(a)) /\ ran' = [ran EXCEPT ![a] = [times |-> T, last |-> n_traces + 1]]
      /\ dupped' = (dupped \/ dup) /\ trace_tag' = trace_tag /\ dup' = dup
  <2>1. ran' = [ran EXCEPT ![a] = [times |-> T, last |-> n_traces + 1]]
    BY DEF Execute, TraceInv
  <2>2. QED BY <2>1 DEF Execute
<1>2. T \in Nat /\ ran[a].times \in Nat
  <2>1. ran[a] \in [times : Nat, last : Nat]
    BY DEF TraceInv
  <2>2. QED BY <2>1
<1>3. /\ trace_add(a) \in Seq(Trace)
      /\ \/ ~dup /\ TracedAt(traces, a) # {} /\ \E f \in DOMAIN traces : Counted(trace_add(a), a, f)
         \/ (dup \/ TracedAt(traces, a) = {}) /\ Appended(trace_add(a), a)
  BY <1>1, AddFacts
<1>4. ASSUME ~dupped', NEW i \in DOMAIN traces', traces'[i].addr = a PROVE traces'[i].times = T
  <2>1. ~dupped /\ ~dup
    BY <1>1, <1>4 DEF TraceInv
  <2>2. traces \in Seq(Trace) /\ Len(traces) \in Nat /\ DOMAIN traces = 1 .. Len(traces)
        /\ DOMAIN traces' = 1 .. Len(traces')
    BY <1>1, <1>3 DEF TraceInv, TraceLists
  <2>3. CASE TracedAt(traces, a) # {} /\ \E f \in DOMAIN traces : Counted(trace_add(a), a, f)
    <3>1. PICK f \in DOMAIN traces : Counted(trace_add(a), a, f)
      BY <2>3
    <3>2. PICK g \in DOMAIN traces : TracedAt(traces, a) = {g} /\ traces[g].times = ran[a].times
      BY <2>1, <2>3 DEF TraceInv, CountsTrue
    <3>3. f = g
      BY <3>1, <3>2 DEF Counted, TracedAt
    <3>4. i = f
      <4>1. i \in DOMAIN traces
        BY <3>1, <2>2, <1>1, <1>4 DEF Counted
      <4>2. i # f => traces'[i] = traces[i]
        BY <3>1, <4>1, <1>1 DEF Counted
      <4>3. i # f => i \in TracedAt(traces, a)
        BY <4>1, <4>2, <1>4 DEF TracedAt
      <4>4. QED BY <3>2, <3>3, <4>3
    <3>5. QED BY <3>1, <3>2, <3>3, <3>4, <1>1 DEF Counted
  <2>4. CASE TracedAt(traces, a) = {} /\ Appended(trace_add(a), a)
    <3>1. i = Len(traces) + 1 \/ i \in DOMAIN traces
      BY <2>2, <2>4, <1>1, <1>4 DEF Appended
    <3>2. i \notin DOMAIN traces
      <4>1. i \in DOMAIN traces => traces[i].addr = a
        BY <2>4, <1>1, <1>4 DEF Appended
      <4>2. QED BY <2>4, <4>1 DEF TracedAt
    <3>3. traces'[i].times = 1
      BY <2>4, <3>1, <3>2, <1>1 DEF Appended
    <3>4. ran[a].times = 0
      <4>1. ran[a].last = 0
        BY <2>1, <2>4 DEF TraceInv, CountsTrue
      <4>2. QED BY <4>1 DEF TraceInv
    <3>5. QED BY <3>3, <3>4
  <2>5. QED BY <2>1, <2>3, <2>4, <1>3
<1>5. traces' \in Seq(Trace) /\ Len(traces') = Len(trace_add(a))
  BY <1>1, <1>3
<1>6. \A i \in DOMAIN traces' : /\ traces'[i].addr = trace_add(a)[i].addr
                                /\ traces'[i].count = trace_add(a)[i].count
                                /\ traces'[i].addr # a => traces'[i] = trace_add(a)[i]
  BY <1>1
<1>7. ~dupped' => \A i \in DOMAIN traces' : traces'[i].addr = a => traces'[i].times = T
  BY <1>4
<1> HIDE DEF T
<1>8. TracedTimes(a, T)
  BY <1>1, <1>5, <1>6, <1>7 DEF TracedTimes
<1>9. QED BY <1>2, <1>8, TracedKeeps

\* The first trace of the address is the only one, unless trace.dup was used.
LEMMA AtPlusKeeps ==
  ASSUME TraceInv, NEW a \in TraceAddr, NEW T \in AtTimes, AtPlus(a, T)
  PROVE  TraceInv'
<1> DEFINE l == trace_add(a)
           f == FirstOf(TracedAt(l, a))
<1>1. /\ n_traces < MaxAdds /\ traces' = [l EXCEPT ![f].times = T] /\ n_traces' = n_traces + 1
      /\ trace_changed' = Grown(trace_add(a)) /\ ran' = [ran EXCEPT ![a] = [times |-> T, last |-> n_traces + 1]]
      /\ dupped' = (dupped \/ dup) /\ trace_tag' = trace_tag /\ dup' = dup
  BY DEF AtPlus
<1>2. T \in Nat
  BY TraceAssumption
<1>3. /\ l \in Seq(Trace)
      /\ \/ ~dup /\ TracedAt(traces, a) # {} /\ \E x \in DOMAIN traces : Counted(l, a, x)
         \/ (dup \/ TracedAt(traces, a) = {}) /\ Appended(l, a)
  BY <1>1, AddFacts
<1> HIDE DEF l
<1>4. /\ traces \in Seq(Trace) /\ Len(traces) \in Nat /\ DOMAIN traces = 1 .. Len(traces)
      /\ Len(l) \in Nat /\ DOMAIN l = 1 .. Len(l) /\ \A i \in DOMAIN l : l[i] \in Trace
  BY <1>3 DEF TraceInv, TraceLists
<1>5. f \in TracedAt(l, a) /\ f \in DOMAIN l
  <2>1. TracedAt(l, a) \subseteq DOMAIN l /\ TracedAt(l, a) \subseteq Nat
    BY <1>4 DEF TracedAt
  <2>2. TracedAt(l, a) # {}
    <3>1. CASE \E x \in DOMAIN traces : Counted(l, a, x)
      <4>1. PICK x \in DOMAIN traces : Counted(l, a, x)
        BY <3>1
      <4>2. x \in TracedAt(l, a)
        BY <4>1, <1>4 DEF Counted, TracedAt
      <4>3. QED BY <4>2
    <3>2. CASE Appended(l, a)
      <4>1. Len(l) \in TracedAt(l, a)
        BY <3>2, <1>4 DEF Appended, TracedAt
      <4>2. QED BY <4>1
    <3>3. QED BY <3>1, <3>2, <1>3
  <2>3. QED BY <2>1, <2>2, FirstFacts
<1> HIDE DEF f
<1> DEFINE F == [l[f] EXCEPT !.times = T]
<1>6. F \in Trace /\ F.addr = l[f].addr /\ F.times = T /\ F.count = l[f].count
  <2>1. l[f] \in Trace
    BY <1>4, <1>5
  <2>2. QED BY <1>2, <2>1, FieldFacts, Zenon
<1>7. traces' = [l EXCEPT ![f] = F]
  BY <1>1, <1>4, <1>5
<1> HIDE DEF F
<1>8. /\ traces' \in Seq(Trace) /\ Len(traces') = Len(l) /\ traces'[f] = F
      /\ \A i \in DOMAIN l : i # f => traces'[i] = l[i]
  BY <1>3, <1>4, <1>5, <1>6, <1>7
<1>9. DOMAIN traces' = DOMAIN l /\ l[f].addr = a
  BY <1>4, <1>5, <1>8 DEF TracedAt
<1>10. \A i \in DOMAIN traces' : /\ traces'[i].addr = l[i].addr
                                 /\ traces'[i].count = l[i].count
                                 /\ traces'[i].addr # a => traces'[i] = l[i]
  BY <1>6, <1>8, <1>9
<1>11. ASSUME ~dupped', NEW i \in DOMAIN traces', traces'[i].addr = a PROVE traces'[i].times = T
  <2>1. ~dupped /\ ~dup
    BY <1>1, <1>11 DEF TraceInv
  <2>2. l[i].addr = a /\ i \in DOMAIN l
    BY <1>9, <1>10, <1>11
  <2>3. i = f
    <3>1. CASE TracedAt(traces, a) # {} /\ \E x \in DOMAIN traces : Counted(l, a, x)
      <4>1. PICK x \in DOMAIN traces : Counted(l, a, x)
        BY <3>1
      <4>2. PICK g \in DOMAIN traces : TracedAt(traces, a) = {g}
        BY <2>1, <3>1 DEF TraceInv, CountsTrue
      <4>3. DOMAIN l = DOMAIN traces
        BY <4>1, <1>4 DEF Counted
      <4>4. \A y \in DOMAIN l : l[y].addr = a => y = g
        <5>1. x = g
          BY <4>1, <4>2 DEF Counted, TracedAt
        <5>2. \A y \in DOMAIN l : y # x => l[y] = traces[y]
          BY <4>1, <4>3 DEF Counted
        <5>3. \A y \in DOMAIN traces : traces[y].addr = a => y = g
          BY <4>2 DEF TracedAt
        <5>4. QED BY <4>3, <5>1, <5>2, <5>3
      <4>5. QED BY <2>2, <4>4, <1>5, <1>9
    <3>2. CASE TracedAt(traces, a) = {} /\ Appended(l, a)
      <4>1. \A y \in DOMAIN l : y \in DOMAIN traces \/ y = Len(l)
        BY <3>2, <1>4 DEF Appended
      <4>2. \A y \in DOMAIN traces : l[y].addr # a
        BY <3>2 DEF Appended, TracedAt
      <4>3. QED BY <2>2, <4>1, <4>2, <1>5, <1>9
    <3>3. QED BY <2>1, <3>1, <3>2, <1>3
  <2>4. QED BY <2>3, <1>6, <1>8
<1>12. ~dupped' => \A i \in DOMAIN traces' : traces'[i].addr = a => traces'[i].times = T
  BY <1>11
<1>13. TracedTimes(a, T)
  <2>1. /\ traces' \in Seq(Trace) /\ Len(traces') = Len(trace_add(a))
        /\ \A i \in DOMAIN traces' : /\ traces'[i].addr = trace_add(a)[i].addr
                                     /\ traces'[i].count = trace_add(a)[i].count
                                     /\ traces'[i].addr # a => traces'[i] = trace_add(a)[i]
    BY <1>8, <1>10, Zenon DEF l
  <2>2. QED BY <1>1, <1>12, <2>1, Zenon DEF TracedTimes
<1>14. QED BY <1>2, <1>13, TracedKeeps

\* A sort changes no trace.
LEMMA ShowKeeps == TraceInv /\ trace_show => TraceInv'
<1>1. SUFFICES ASSUME TraceInv, trace_show PROVE TraceInv'
  OBVIOUS
<1>2. /\ traces' = trace_sort /\ trace_changed' = (trace_changed /\ Walk(traces).ch)
      /\ n_traces' = n_traces /\ trace_tag' = trace_tag /\ dup' = dup /\ ran' = ran /\ dupped' = dupped
  BY <1>1 DEF trace_show
<1>3. traces \in TraceLists /\ (~trace_changed => \A i, j \in DOMAIN traces : traces[i].addr <= traces[j].addr)
  BY <1>1 DEF TraceInv
<1>4. SameTraces(traces, traces')
  BY <1>2, <1>3, SortFacts
<1>5. traces' \in TraceLists /\ Len(traces') = Len(traces) /\ Elements(traces') = Elements(traces) /\ Distinct(traces')
  BY <1>4 DEF SameTraces, TraceLists
<1>6. /\ \A i \in DOMAIN traces' : \E j \in DOMAIN traces : traces[j] = traces'[i]
      /\ \A j \in DOMAIN traces : \E i \in DOMAIN traces' : traces[j] = traces'[i]
  BY <1>5 DEF Elements
<1>7. \A i \in DOMAIN traces' : traces'[i].count <= n_traces
  BY <1>1, <1>6 DEF TraceInv
<1>8. ~trace_changed' => \A i, j \in DOMAIN traces' : traces'[i].addr <= traces'[j].addr
  <2>1. CASE ~trace_changed
    BY <2>1, <1>2, <1>3 DEF trace_sort
  <2>2. CASE trace_changed /\ ~Walk(traces).ch
    <3>1. Walk(traces).list = traces /\ \A i, j \in DOMAIN traces : traces[i].addr <= traces[j].addr
      BY <2>2, <1>3, WalkFacts
    <3>2. QED BY <2>2, <3>1, <1>2 DEF trace_sort
  <2>3. QED BY <2>1, <2>2, <1>2
<1>9. CountsTrue'
  <2>1. SUFFICES ASSUME ~dupped, NEW a \in TraceAddr
                 PROVE  IF ran[a].last = 0 THEN TracedAt(traces', a) = {}
                        ELSE \E i \in DOMAIN traces' : /\ TracedAt(traces', a) = {i}
                                                       /\ traces'[i].times = ran[a].times
                                                       /\ traces'[i].count = ran[a].last
    BY <1>2 DEF CountsTrue
  <2>2. CASE ran[a].last = 0
    <3>1. TracedAt(traces, a) = {}
      BY <1>1, <2>1, <2>2 DEF TraceInv, CountsTrue
    <3>2. TracedAt(traces', a) = {}
      BY <3>1, <1>6 DEF TracedAt
    <3>3. QED BY <2>2, <3>2
  <2>3. CASE ran[a].last # 0
    <3>1. PICK i \in DOMAIN traces : TracedAt(traces, a) = {i} /\ traces[i].times = ran[a].times
                                     /\ traces[i].count = ran[a].last
      BY <1>1, <2>1, <2>3 DEF TraceInv, CountsTrue
    <3>2. PICK k \in DOMAIN traces' : traces'[k] = traces[i]
      BY <3>1, <1>6
    <3>3. traces[i].addr = a
      BY <3>1 DEF TracedAt
    <3>4. ASSUME NEW x \in DOMAIN traces', traces'[x].addr = a PROVE x = k
      <4>1. PICK j \in DOMAIN traces : traces[j] = traces'[x]
        BY <1>6
      <4>2. j \in TracedAt(traces, a)
        BY <3>4, <4>1 DEF TracedAt
      <4>3. j = i
        BY <3>1, <4>2
      <4>4. traces'[x].count = traces'[k].count
        BY <3>2, <4>1, <4>3
      <4>5. QED BY <4>4, <1>5 DEF Distinct
    <3>5. TracedAt(traces', a) = {k}
      BY <3>2, <3>3, <3>4 DEF TracedAt
    <3>6. QED BY <2>3, <3>1, <3>2, <3>5
  <2>4. QED BY <2>2, <2>3
<1>10. trace_changed' \in BOOLEAN
  BY <1>2, <1>3, WalkFacts
<1>11. QED BY <1>1, <1>2, <1>5, <1>7, <1>8, <1>9, <1>10 DEF TraceInv

\* Every step of the traces keeps the invariant.
LEMMA TraceNextKeeps == TraceInv /\ [TraceNext]_tracevars => TraceInv'
<1>1. SUFFICES ASSUME TraceInv, [TraceNext]_tracevars PROVE TraceInv'
  OBVIOUS
<1>2. CASE UNCHANGED <<traces, n_traces, trace_changed, ran, dupped>>
           /\ trace_tag' \in TraceTags /\ dup' \in BOOLEAN
  <2>1. /\ traces' = traces /\ n_traces' = n_traces /\ trace_changed' = trace_changed
        /\ ran' = ran /\ dupped' = dupped
    BY <1>2
  <2>2. CountsTrue'
    BY <1>1, <2>1 DEF TraceInv, CountsTrue, TracedAt
  <2>3. QED BY <1>1, <1>2, <2>1, <2>2 DEF TraceInv
<1>3. CASE UNCHANGED tracevars
  BY <1>1, <1>2, <1>3 DEF tracevars, TraceInv
<1>4. CASE \E a \in TraceAddr : Execute(a) \/ \E n \in AtTimes : AtPlus(a, n)
  BY <1>1, <1>4, ExecuteKeeps, AtPlusKeeps
<1>5. CASE trace_reset
  <2>1. /\ traces' = <<>> /\ ran' = NotRun /\ dupped' = FALSE
        /\ n_traces' = n_traces /\ trace_changed' = trace_changed /\ trace_tag' = trace_tag /\ dup' = dup
    BY <1>5 DEF trace_reset
  <2>2. DOMAIN traces' = {} /\ traces' \in TraceLists
    BY <2>1 DEF TraceLists, Distinct
  <2>3. /\ ran' \in [TraceAddr -> [times : Nat, last : Nat]]
        /\ \A a \in TraceAddr : ran'[a].last = 0 /\ ran'[a].times = 0
    BY <2>1 DEF NotRun
  <2>4. CountsTrue'
    BY <2>2, <2>3 DEF CountsTrue, TracedAt
  <2>5. QED BY <1>1, <2>1, <2>2, <2>3, <2>4 DEF TraceInv
<1>6. CASE trace_show
  BY <1>1, <1>6, ShowKeeps
<1>7. CASE (\E tag \in TraceTags : trace_tag_set(tag)) \/ (\E b \in BOOLEAN : SetDup(b))
  BY <1>1, <1>2, <1>7 DEF trace_tag_set, SetDup, TraceInv
<1>8. QED BY <1>1, <1>3, <1>4, <1>5, <1>6, <1>7 DEF TraceNext

\* Nothing is traced yet.
LEMMA TraceInitHolds == Init => TraceInv
<1>1. SUFFICES ASSUME TraceInit PROVE TraceInv
  BY DEF Init
<1>2. /\ traces = <<>> /\ n_traces = 0 /\ trace_changed = FALSE /\ trace_tag = -1
      /\ dup = FALSE /\ dupped = FALSE /\ ran = NotRun
  BY <1>1 DEF TraceInit
<1>3. DOMAIN traces = {} /\ traces \in TraceLists
  BY <1>2 DEF TraceLists, Distinct
<1>4. /\ ran \in [TraceAddr -> [times : Nat, last : Nat]]
      /\ \A a \in TraceAddr : ran[a].last = 0 /\ ran[a].times = 0
  BY <1>2 DEF NotRun
<1>5. CountsTrue
  BY <1>3, <1>4 DEF CountsTrue, TracedAt
<1>6. n_traces \in 0 .. MaxAdds /\ trace_tag \in TraceTags
  BY <1>2, TraceAssumption
<1>7. QED BY <1>2, <1>3, <1>4, <1>5, <1>6 DEF TraceInv

\* The invariant has the type invariant and the sorted listing.
LEMMA TraceInvSorted == TraceInv => TraceTypeOK /\ CountsTrue /\ ListingSorted
<1>1. SUFFICES ASSUME TraceInv PROVE TraceTypeOK /\ CountsTrue /\ ListingSorted
  OBVIOUS
<1>2. TraceTypeOK
  <2>1. traces \in Seq(Trace) /\ Distinct(traces)
    BY <1>1 DEF TraceInv, TraceLists
  <2>2. QED BY <1>1, <2>1 DEF TraceInv, TraceTypeOK, Trace, Distinct
<1>3. ListingSorted
  <2>1. traces \in TraceLists /\ (~trace_changed => \A i, j \in DOMAIN traces : traces[i].addr <= traces[j].addr)
    BY <1>1 DEF TraceInv
  <2>2. Walk(traces).at = 0
    BY <2>1, WalkFacts
  <2>3. /\ SameTraces(traces, trace_sort)
        /\ \A i, j \in DOMAIN trace_sort : i < j => trace_sort[i].addr <= trace_sort[j].addr
    BY <2>1, SortFacts
  <2>4. QED BY <2>2, <2>3 DEF ListingSorted, SameTraces, Elements
<1>4. QED BY <1>1, <1>2, <1>3 DEF TraceInv

\* A step of the tables is one of the traces or none.
LEMMA TraceSteps == [Next]_vars => [TraceNext]_tracevars
  BY DEF Next, vars, tracevars, OnlyMacros

(***************************************************************************)
(* The listing of the traces.  A range is a chain of instructions of the   *)
(* tag, it ends where none begins, and the next one begins at the first    *)
(* that is behind it.                                                      *)
(***************************************************************************)
IsTraced(l, a, tag) == a \in TraceAddr /\ trace_get(l, a, tag) # {}
Over(l, tag, a) == IF a \in TraceAddr /\ trace_get(l, a, tag) # {} THEN a + OpSize[a] ELSE a

\* An instruction of the tag that has byte b and lies in from .. last - 1.
InChain(l, tag, from, last, b) ==
  \E i \in DOMAIN l : /\ Tagged(l[i], tag) /\ b \in OpBytes(l[i])
                      /\ from <= l[i].addr /\ l[i].addr + OpSize[l[i].addr] <= last

\* The recursion of trace_range is well defined.
LEMMA RangeUnfolds ==
  ASSUME NEW l \in Seq(Trace), NEW from \in Nat, NEW tag
  PROVE  \E c : /\ trace_range(l, from, tag) = c[MaxTraceAddr + 1] /\ c[0] = from
                /\ \A k \in 0 .. MaxTraceAddr + 1 : c[k] \in Nat
                /\ \A k \in 1 .. MaxTraceAddr + 1 : c[k] = Over(l, tag, c[k - 1])
<1> DEFINE n == MaxTraceAddr + 1
           Value(h, k) == IF k = 0 THEN from
                          ELSE LET a == h[k - 1]
                               IN  IF a \in TraceAddr /\ trace_get(l, a, tag) # {} THEN a + OpSize[a] ELSE a
           step == [k \in 1 .. n |-> [a \in Nat |-> Over(l, tag, a)]]
<1>1. n \in Nat
  BY TraceAssumption
<1>2. \A a \in Nat : Over(l, tag, a) \in Nat
  <2>1. \A a \in TraceAddr : OpSize[a] \in Nat /\ a \in Nat
    BY TraceAssumption DEF TraceAddr
  <2>2. QED BY <2>1 DEF Over
<1>3. step \in Steps(n, Nat)
  <2>1. [a \in Nat |-> Over(l, tag, a)] \in [Nat -> Nat]
    BY <1>2
  <2> HIDE DEF n
  <2>2. QED BY <2>1 DEF Steps
<1>4. PICK g : Iterates(g, n, Nat, from, step)
  <2> HIDE DEF step, n
  <2> QED BY <1>1, <1>3, Recursion
<1>5. g \in [0 .. n -> Nat] /\ g[0] = from /\ \A k \in 1 .. n : g[k] = step[k][g[k - 1]]
  BY <1>4, Zenon DEF Iterates
<1> HIDE DEF n
<1>6. g = [k \in 0 .. n |-> Value(g, k)]
  <2>1. ASSUME NEW k \in 0 .. n PROVE g[k] = Value(g, k)
    <3>1. CASE k = 0
      BY <3>1, <1>5
    <3>2. CASE k # 0
      <4>1. k \in 1 .. n /\ k - 1 \in 0 .. n
        BY <3>2, <1>1
      <4>2. g[k - 1] \in Nat
        BY <4>1, <1>5
      <4>3. step[k][g[k - 1]] = Over(l, tag, g[k - 1])
        BY <4>1, <4>2
      <4>4. Over(l, tag, g[k - 1]) = Value(g, k)
        BY <3>2 DEF Over
      <4>5. QED BY <4>1, <4>3, <4>4, <1>5
    <3>3. QED BY <3>1, <3>2
  <2> HIDE DEF Value
  <2>2. QED BY <2>1, <1>5
<1> DEFINE c == CHOOSE c : c = [k \in 0 .. n |-> Value(c, k)]
<1>7. c = [k \in 0 .. n |-> Value(c, k)]
  <2> HIDE DEF Value
  <2> QED BY <1>6
<1>8. trace_range(l, from, tag) = c[n]
  BY Zenon DEF trace_range, n
<1> HIDE DEF c
<1>9. \A k \in 0 .. n : c[k] = Value(c, k)
  <2> HIDE DEF Value
  <2> QED BY <1>7
<1>10. c[0] = from
  BY <1>1, <1>9
<1>11. \A k \in 1 .. n : c[k] = Over(l, tag, c[k - 1])
  <2>1. \A k \in 1 .. n : k \in 0 .. n /\ k # 0
    BY <1>1
  <2>2. QED BY <2>1, <1>9 DEF Over
<1>12. \A k \in 0 .. n : c[k] \in Nat
  <2> DEFINE P == {k \in 0 .. n : c[k] \in Nat}
  <2>1. 0 \in P
    BY <1>1, <1>10
  <2>2. ASSUME NEW k \in 1 .. n, k - 1 \in P PROVE k \in P
    <3>1. c[k - 1] \in Nat /\ k \in 0 .. n
      BY <2>2, <1>1
    <3>2. c[k] \in Nat
      BY <3>1, <1>2, <1>11
    <3>3. QED BY <3>1, <3>2
  <2>3. \A k \in 1 .. n : k - 1 \in P => k \in P
    BY <2>2
  <2> HIDE DEF P
  <2>4. \A k \in 0 .. n : k \in P
    BY <1>1, <2>1, <2>3, Climbs
  <2>5. QED BY <2>4 DEF P
<1>13. QED BY <1>8, <1>10, <1>11, <1>12 DEF n

\* An instruction of the tag, with its bytes.
LEMMA TracedFacts ==
  ASSUME NEW l \in Seq(Trace), NEW tag
  PROVE  /\ \A a : IsTraced(l, a, tag) =>
              /\ a \in TraceAddr /\ a \in Nat /\ OpSize[a] \in Nat \ {0}
              /\ \E i \in DOMAIN l : l[i].addr = a /\ Tagged(l[i], tag)
         /\ \A i \in DOMAIN l : /\ l[i].addr \in TraceAddr /\ l[i].addr \in Nat /\ OpSize[l[i].addr] \in Nat \ {0}
                                /\ Tagged(l[i], tag) => IsTraced(l, l[i].addr, tag)
<1>1. \A i \in DOMAIN l : l[i].addr \in TraceAddr
  <2>1. \A i \in DOMAIN l : l[i] \in Trace
    OBVIOUS
  <2>2. QED BY <2>1 DEF Trace
<1>2. \A a \in TraceAddr : a \in Nat /\ OpSize[a] \in Nat \ {0}
  BY TraceAssumption DEF TraceAddr
<1>3. QED BY <1>1, <1>2, Zenon DEF IsTraced, trace_get, TracedAt

\* A range is a chain of instructions of the tag, and none follows it.
LEMMA RangeFacts ==
  ASSUME NEW l \in Seq(Trace), NEW from \in Nat, NEW tag
  PROVE  LET last == trace_range(l, from, tag)
         IN  /\ last \in Nat /\ from <= last
             /\ \A b \in from .. last - 1 : InChain(l, tag, from, last, b)
             /\ ~IsTraced(l, last, tag)
             /\ (last = from) <=> ~IsTraced(l, from, tag)
<1> DEFINE n == MaxTraceAddr + 1
           last == trace_range(l, from, tag)
<1>1. n \in Nat /\ MaxTraceAddr \in Nat
  BY TraceAssumption
<1>2. PICK c : /\ last = c[n] /\ c[0] = from
               /\ \A k \in 0 .. n : c[k] \in Nat
               /\ \A k \in 1 .. n : c[k] = Over(l, tag, c[k - 1])
  BY RangeUnfolds, SMTT(30)
<1> DEFINE Chain(z) == /\ from <= z
                       /\ \A b \in from .. z - 1 : InChain(l, tag, from, z, b)
           P == {k \in 0 .. n : Chain(c[k]) /\ (~IsTraced(l, c[k], tag) \/ from + k <= c[k])}
<1>3. 0 \in P
  <2>1. from .. from - 1 = {} /\ 0 \in 0 .. n
    BY <1>1
  <2>2. QED BY <2>1, <1>2
<1>4. ASSUME NEW k \in 1 .. n, k - 1 \in P PROVE k \in P
  <2> DEFINE a == c[k - 1]
             z == c[k]
  <2>1. k \in 0 .. n /\ k - 1 \in 0 .. n /\ a \in Nat /\ z \in Nat /\ z = Over(l, tag, a) /\ k \in Nat
    BY <1>1, <1>2, <1>4
  <2>2. Chain(a) /\ (~IsTraced(l, a, tag) \/ from + (k - 1) <= a)
    BY <1>4
  <2>3. CASE ~IsTraced(l, a, tag)
    <3>1. z = a
      BY <2>1, <2>3 DEF Over, IsTraced
    <3> HIDE DEF a, z, Chain
    <3>2. QED BY <2>1, <2>2, <2>3, <3>1 DEF z
  <2>4. CASE IsTraced(l, a, tag)
    <3>1. PICK i \in DOMAIN l : l[i].addr = a /\ Tagged(l[i], tag)
      BY <2>4, TracedFacts
    <3>2. z = a + OpSize[a] /\ OpSize[a] \in Nat \ {0}
      BY <2>1, <2>4, TracedFacts DEF Over, IsTraced
    <3> HIDE DEF a, z
    <3>3. from <= z /\ from + k <= z /\ a < z
      BY <2>1, <2>2, <2>4, <3>2
    <3>4. ASSUME NEW b \in from .. z - 1 PROVE InChain(l, tag, from, z, b)
      <4>1. CASE b < a
        <5>1. b \in from .. a - 1
          BY <4>1, <2>1
        <5>2. PICK j \in DOMAIN l : /\ Tagged(l[j], tag) /\ b \in OpBytes(l[j])
                                    /\ from <= l[j].addr /\ l[j].addr + OpSize[l[j].addr] <= a
          BY <5>1, <2>2 DEF InChain
        <5>3. l[j].addr + OpSize[l[j].addr] <= z
          <6>1. l[j].addr \in Nat /\ OpSize[l[j].addr] \in Nat
            BY TracedFacts
          <6>2. QED BY <6>1, <5>2, <3>3, <2>1
        <5>4. QED BY <5>2, <5>3 DEF InChain
      <4>2. CASE a <= b
        <5>1. b \in OpBytes(l[i])
          BY <4>2, <3>1, <3>2, <2>1 DEF OpBytes
        <5>2. from <= l[i].addr /\ l[i].addr + OpSize[l[i].addr] <= z
          BY <2>1, <2>2, <3>1, <3>2
        <5>3. QED BY <5>1, <5>2, <3>1 DEF InChain
      <4>3. QED BY <4>1, <4>2, <2>1
    <3>5. QED BY <3>3, <3>4, <2>1 DEF z
  <2>5. QED BY <2>3, <2>4
<1>5. \A k \in 1 .. n : k - 1 \in P => k \in P
  BY <1>4
<1>6. n \in P
  <2> HIDE DEF P, n
  <2>1. \A k \in 0 .. n : k \in P
    BY <1>1, <1>3, <1>5, Climbs
  <2>2. QED BY <1>1, <2>1
<1>7. Chain(last) /\ (~IsTraced(l, last, tag) \/ from + n <= last)
  BY <1>2, <1>6
<1>8. last \in Nat
  BY <1>1, <1>2
<1> HIDE DEF last
<1>9. ~IsTraced(l, last, tag)
  <2>1. from + n <= last => last \notin TraceAddr
    BY <1>1, <1>8 DEF TraceAddr
  <2>2. QED BY <2>1, <1>7 DEF IsTraced
<1>10. ASSUME last # from PROVE IsTraced(l, from, tag)
  <2>1. from \in from .. last - 1
    BY <1>7, <1>8, <1>10
  <2>2. PICK i \in DOMAIN l : Tagged(l[i], tag) /\ from \in OpBytes(l[i]) /\ from <= l[i].addr
    BY <1>7, <2>1 DEF InChain
  <2>3. l[i].addr = from
    <3>1. l[i].addr \in Nat /\ OpSize[l[i].addr] \in Nat
      BY TracedFacts
    <3>2. QED BY <2>2, <3>1 DEF OpBytes
  <2>4. QED BY <2>2, <2>3, TracedFacts
<1>11. QED BY <1>7, <1>8, <1>9, <1>10 DEF last

\* The recursion that gets the lower address is well defined.
LEMMA LowestUnfolds ==
  ASSUME NEW l \in Seq(Trace)
  PROVE  \E c : /\ LowestTraced(l) = c[Len(l)] /\ c[0] = 0
                /\ \A k \in 0 .. Len(l) : c[k] \in Nat
                /\ \A k \in 1 .. Len(l) : c[k] = IF c[k - 1] = 0 \/ l[k].addr < c[k - 1] THEN l[k].addr ELSE c[k - 1]
<1> DEFINE n == Len(l)
           Lower(k, a) == IF a = 0 \/ l[k].addr < a THEN l[k].addr ELSE a
           Value(h, k) == IF k = 0 THEN 0
                          ELSE LET a == h[k - 1] IN IF a = 0 \/ l[k].addr < a THEN l[k].addr ELSE a
           step == [k \in 1 .. n |-> [a \in Nat |-> Lower(k, a)]]
<1>1. n \in Nat /\ DOMAIN l = 1 .. n
  OBVIOUS
<1>2. \A k \in 1 .. n, a \in Nat : Lower(k, a) \in Nat
  <2>1. \A k \in 1 .. n : l[k].addr \in Nat
    BY <1>1, TracedFacts
  <2>2. QED BY <2>1
<1>3. step \in Steps(n, Nat)
  <2>1. \A k \in 1 .. n : [a \in Nat |-> Lower(k, a)] \in [Nat -> Nat]
    BY <1>2
  <2> HIDE DEF n, Lower
  <2>2. QED BY <2>1 DEF Steps
<1>4. PICK g : Iterates(g, n, Nat, 0, step)
  <2> HIDE DEF step, n
  <2> QED BY <1>1, <1>3, Recursion
<1>5. g \in [0 .. n -> Nat] /\ g[0] = 0 /\ \A k \in 1 .. n : g[k] = step[k][g[k - 1]]
  BY <1>4, Zenon DEF Iterates
<1> HIDE DEF n
<1>6. g = [k \in 0 .. n |-> Value(g, k)]
  <2>1. ASSUME NEW k \in 0 .. n PROVE g[k] = Value(g, k)
    <3>1. CASE k = 0
      BY <3>1, <1>5
    <3>2. CASE k # 0
      <4>1. k \in 1 .. n /\ k - 1 \in 0 .. n
        BY <3>2, <1>1
      <4>2. g[k - 1] \in Nat
        BY <4>1, <1>5
      <4>3. step[k][g[k - 1]] = Lower(k, g[k - 1])
        <5> HIDE DEF Lower
        <5> QED BY <4>1, <4>2
      <4>4. Lower(k, g[k - 1]) = Value(g, k)
        BY <3>2
      <4> HIDE DEF step, Lower, Value
      <4>5. QED BY <4>1, <4>3, <4>4, <1>5
    <3>3. QED BY <3>1, <3>2
  <2> HIDE DEF Value
  <2>2. QED BY <2>1, <1>5
<1> DEFINE c == CHOOSE c : c = [k \in 0 .. n |-> Value(c, k)]
<1>7. c = [k \in 0 .. n |-> Value(c, k)]
  <2> HIDE DEF Value
  <2> QED BY <1>6
<1>8. LowestTraced(l) = c[n]
  BY Zenon DEF LowestTraced, n
<1> HIDE DEF c
<1>9. \A k \in 0 .. n : c[k] = Value(c, k)
  <2> HIDE DEF Value
  <2> QED BY <1>7
<1>10. c[0] = 0
  BY <1>1, <1>9
<1>11. \A k \in 1 .. n : c[k] = Lower(k, c[k - 1])
  <2>1. \A k \in 1 .. n : k \in 0 .. n /\ k # 0
    BY <1>1
  <2>2. QED BY <2>1, <1>9
<1>12. \A k \in 0 .. n : c[k] \in Nat
  <2> DEFINE P == {k \in 0 .. n : c[k] \in Nat}
  <2>1. 0 \in P
    BY <1>1, <1>10
  <2>2. ASSUME NEW k \in 1 .. n, k - 1 \in P PROVE k \in P
    <3>1. c[k - 1] \in Nat /\ k \in 0 .. n
      BY <2>2, <1>1
    <3> HIDE DEF Lower
    <3>2. c[k] \in Nat
      BY <3>1, <1>2, <1>11
    <3>3. QED BY <3>1, <3>2
  <2>3. \A k \in 1 .. n : k - 1 \in P => k \in P
    BY <2>2
  <2> HIDE DEF P
  <2>4. \A k \in 0 .. n : k \in P
    BY <1>1, <2>1, <2>3, Climbs
  <2>5. QED BY <2>4 DEF P
<1>13. QED BY <1>8, <1>10, <1>11, <1>12 DEF n

\* On a sorted list it is the lowest address but 0, and 0 if there is none.
LEMMA LowestFacts ==
  ASSUME NEW l \in Seq(Trace), \A i, j \in DOMAIN l : i < j => l[i].addr <= l[j].addr
  PROVE  LET low == LowestTraced(l)
         IN  /\ low \in TraceAddr
             /\ \A i \in DOMAIN l : low = 0 => l[i].addr = 0
             /\ \A i \in DOMAIN l : low # 0 => l[i].addr = 0 \/ low <= l[i].addr
<1> DEFINE n == Len(l)
           low == LowestTraced(l)
<1>1. /\ n \in Nat /\ DOMAIN l = 1 .. n /\ 0 \in TraceAddr
      /\ \A i \in 1 .. n : l[i].addr \in TraceAddr /\ l[i].addr \in Nat
  BY TracedFacts, TraceAssumption DEF TraceAddr
<1>2. PICK c : /\ low = c[n] /\ c[0] = 0
               /\ \A k \in 0 .. n : c[k] \in Nat
               /\ \A k \in 1 .. n : c[k] = IF c[k - 1] = 0 \/ l[k].addr < c[k - 1] THEN l[k].addr ELSE c[k - 1]
  BY LowestUnfolds
<1> DEFINE P == {k \in 0 .. n : /\ \A i \in 1 .. k : c[k] = 0 => l[i].addr = 0
                                /\ \A i \in 1 .. k : c[k] # 0 => l[i].addr = 0 \/ c[k] <= l[i].addr
                                /\ c[k] # 0 => \E i \in 1 .. k : l[i].addr = c[k]}
<1> HIDE DEF n, low
<1>3. 0 \in P
  BY <1>1, <1>2
<1>4. ASSUME NEW k \in 1 .. n, k - 1 \in P PROVE k \in P
  <2>1. /\ k \in 0 .. n /\ k - 1 \in 0 .. n /\ k \in Nat /\ c[k - 1] \in Nat /\ c[k] \in Nat
        /\ l[k].addr \in Nat /\ k \in DOMAIN l
        /\ \A i \in 1 .. k : i \in 1 .. k - 1 \/ i = k
        /\ \A i \in 1 .. k - 1 : i \in 1 .. k /\ i \in 1 .. n /\ i < k
    BY <1>1, <1>2
  <2>2. /\ \A i \in 1 .. k - 1 : c[k - 1] = 0 => l[i].addr = 0
        /\ \A i \in 1 .. k - 1 : c[k - 1] # 0 => l[i].addr = 0 \/ c[k - 1] <= l[i].addr
        /\ c[k - 1] # 0 => \E i \in 1 .. k - 1 : l[i].addr = c[k - 1]
    BY <1>4
  <2>3. CASE c[k - 1] = 0
    <3>1. c[k] = l[k].addr
      BY <2>3, <1>2
    <3>2. \A i \in 1 .. k : i # k => l[i].addr = 0
      BY <2>1, <2>2, <2>3
    <3>3. QED BY <3>1, <3>2, <2>1
  <2>4. CASE c[k - 1] # 0
    <3>1. PICK m \in 1 .. k - 1 : l[m].addr = c[k - 1]
      BY <2>2, <2>4
    <3>2. c[k - 1] <= l[k].addr
      BY <3>1, <2>1, <1>1
    <3>3. c[k] = c[k - 1]
      BY <3>2, <2>1, <2>4, <1>2
    <3>4. QED BY <3>1, <3>2, <3>3, <2>1, <2>2, <2>4
  <2>5. QED BY <2>3, <2>4
<1>5. \A k \in 1 .. n : k - 1 \in P => k \in P
  BY <1>4
<1>6. n \in P
  <2> HIDE DEF P
  <2>1. \A k \in 0 .. n : k \in P
    BY <1>1, <1>3, <1>5, Climbs
  <2>2. QED BY <1>1, <2>1
<1>7. QED BY <1>1, <1>2, <1>6 DEF low

\* The next instruction of the tag behind an address.
LEMMA NextFacts ==
  ASSUME NEW l \in Seq(Trace), NEW from \in Nat, NEW tag
  PROVE  LET next == trace_next(l, from, tag)
         IN  /\ next \in TraceAddr
             /\ next # 0 => from < next /\ IsTraced(l, next, tag)
             /\ \A i \in DOMAIN l : Tagged(l[i], tag) /\ from < l[i].addr => next # 0 /\ next <= l[i].addr
<1> DEFINE S == {i \in DOMAIN l : Tagged(l[i], tag) /\ l[i].addr > from}
           A == {l[i].addr : i \in S}
           next == trace_next(l, from, tag)
<1>1. next = IF A = {} THEN 0 ELSE FirstOf(A)
  BY DEF trace_next, NextOf
<1>2. /\ 0 \in TraceAddr /\ TraceAddr \subseteq Nat
      /\ \A i \in DOMAIN l : l[i].addr \in TraceAddr /\ l[i].addr \in Nat
      /\ \A i \in DOMAIN l : Tagged(l[i], tag) => IsTraced(l, l[i].addr, tag)
  BY TracedFacts, TraceAssumption DEF TraceAddr
<1>3. \A i \in DOMAIN l : Tagged(l[i], tag) /\ from < l[i].addr => l[i].addr \in A
  BY <1>2
<1>4. \A a \in A : a \in TraceAddr /\ a \in Nat /\ from < a /\ IsTraced(l, a, tag)
  BY <1>2
<1> HIDE DEF S, A, next
<1>5. CASE A = {}
  BY <1>1, <1>2, <1>3, <1>5 DEF next
<1>6. CASE A # {}
  <2>1. next \in A /\ \A a \in A : next <= a
    BY <1>1, <1>4, <1>6, FirstFacts
  <2>2. QED BY <2>1, <1>3, <1>4 DEF next
<1>7. QED BY <1>5, <1>6

\* One turn of the loop that prints the ranges.
Listed(l, tag, p) ==
  LET last == trace_range(l, p.from, tag)
  IN  IF p.from = 0 \/ last = p.from THEN [p EXCEPT !.from = 0]
      ELSE [from |-> trace_next(l, last, tag), shown |-> p.shown \union {<<p.from, last>>}]

ListStates == [from : TraceAddr, shown : SUBSET (Nat \X Nat)]

\* A turn ends the loop or adds a range and goes on behind it.
LEMMA ListedFacts ==
  ASSUME NEW l \in Seq(Trace), NEW tag, NEW p \in ListStates
  PROVE  LET q == Listed(l, tag, p)
             last == trace_range(l, p.from, tag)
         IN  /\ q \in ListStates /\ p.from \in Nat
             /\ p.from = 0 \/ last = p.from => q.from = 0 /\ q.shown = p.shown
             /\ ~(p.from = 0 \/ last = p.from) =>
                  q.from = trace_next(l, last, tag) /\ q.shown = p.shown \union {<<p.from, last>>}
<1> DEFINE last == trace_range(l, p.from, tag)
           q == Listed(l, tag, p)
<1>1. p.from \in TraceAddr /\ p.shown \subseteq Nat \X Nat /\ p.from \in Nat /\ 0 \in TraceAddr
  BY TraceAssumption DEF ListStates, TraceAddr
<1>2. last \in Nat
  BY <1>1, RangeFacts
<1>3. trace_next(l, last, tag) \in TraceAddr
  BY <1>2, NextFacts
<1>4. q = IF p.from = 0 \/ last = p.from THEN [p EXCEPT !.from = 0]
          ELSE [from |-> trace_next(l, last, tag), shown |-> p.shown \union {<<p.from, last>>}]
  BY DEF Listed
<1> HIDE DEF last, q
<1>5. CASE p.from = 0 \/ last = p.from
  <2>1. q = [p EXCEPT !.from = 0]
    BY <1>4, <1>5
  <2>2. q \in ListStates /\ q.from = 0 /\ q.shown = p.shown
    BY <2>1, <1>1 DEF ListStates
  <2>3. QED BY <2>2, <1>1, <1>5 DEF last, q
<1>6. CASE ~(p.from = 0 \/ last = p.from)
  <2> DEFINE s == p.shown \union {<<p.from, last>>}
             t == trace_next(l, last, tag)
  <2>1. s \subseteq Nat \X Nat
    BY <1>1, <1>2
  <2>2. q = [from |-> t, shown |-> s]
    BY <1>4, <1>6
  <2>3. t \in TraceAddr
    BY <1>3
  <2> HIDE DEF s, t
  <2>4. q \in ListStates /\ q.from = t /\ q.shown = s
    BY <2>1, <2>2, <2>3 DEF ListStates
  <2>5. QED BY <2>4, <1>1, <1>6 DEF last, q, s, t
<1>7. QED BY <1>5, <1>6

\* The recursion of the listing is well defined.
LEMMA ListingUnfolds ==
  ASSUME NEW l \in Seq(Trace), NEW tag, LowestTraced(l) \in TraceAddr
  PROVE  \E c : /\ Listing(l, tag) = c[MaxTraceAddr + 1].shown
                /\ c[0] = [from |-> LowestTraced(l), shown |-> {}]
                /\ \A k \in 0 .. MaxTraceAddr + 1 : c[k] \in ListStates
                /\ \A k \in 1 .. MaxTraceAddr + 1 : c[k] = Listed(l, tag, c[k - 1])
<1> DEFINE n == MaxTraceAddr + 1
           V == ListStates
           v == [from |-> LowestTraced(l), shown |-> {}]
           Value(h, k) == IF k = 0 THEN v
                          ELSE LET p == h[k - 1]
                                   last == trace_range(l, p.from, tag)
                               IN  IF p.from = 0 \/ last = p.from THEN [p EXCEPT !.from = 0]
                                   ELSE [from |-> trace_next(l, last, tag), shown |-> p.shown \union {<<p.from, last>>}]
           step == [k \in 1 .. n |-> [p \in V |-> Listed(l, tag, p)]]
<1>1. n \in Nat
  BY TraceAssumption
<1>2. \A p \in V : Listed(l, tag, p) \in V
  BY ListedFacts
<1>3. v \in V
  BY DEF ListStates
<1>a. step \in Steps(n, V)
  <2>1. [p \in V |-> Listed(l, tag, p)] \in [V -> V]
    <3> HIDE DEF V
    <3> QED BY <1>2
  <2> HIDE DEF n, V
  <2>2. QED BY <2>1 DEF Steps
<1>4. PICK g : Iterates(g, n, V, v, step)
  <2> HIDE DEF step, n, V, v
  <2> QED BY <1>1, <1>3, <1>a, Recursion
<1>5. g \in [0 .. n -> V] /\ g[0] = v /\ \A k \in 1 .. n : g[k] = step[k][g[k - 1]]
  BY <1>4, Zenon DEF Iterates
<1> HIDE DEF n, V, v
<1>6. g = [k \in 0 .. n |-> Value(g, k)]
  <2>1. ASSUME NEW k \in 0 .. n PROVE g[k] = Value(g, k)
    <3>1. CASE k = 0
      BY <3>1, <1>5
    <3>2. CASE k # 0
      <4>1. k \in 1 .. n /\ k - 1 \in 0 .. n
        BY <3>2, <1>1
      <4>2. g[k - 1] \in V
        BY <4>1, <1>5
      <4>3. step[k][g[k - 1]] = Listed(l, tag, g[k - 1])
        BY <4>1, <4>2
      <4>4. Listed(l, tag, g[k - 1]) = Value(g, k)
        BY <3>2, Zenon DEF Listed
      <4> HIDE DEF step, Value
      <4>5. QED BY <4>1, <4>3, <4>4, <1>5
    <3>3. QED BY <3>1, <3>2
  <2> HIDE DEF Value
  <2>2. QED BY <2>1, <1>5
<1> DEFINE c == CHOOSE c : c = [k \in 0 .. n |-> Value(c, k)]
<1>7. c = [k \in 0 .. n |-> Value(c, k)]
  <2> HIDE DEF Value
  <2> QED BY <1>6
<1>8. Listing(l, tag) = c[n].shown
  BY Zenon DEF Listing, n, v
<1> HIDE DEF c
<1>9. \A k \in 0 .. n : c[k] = Value(c, k)
  <2> HIDE DEF Value
  <2> QED BY <1>7
<1>10. c[0] = v
  <2>1. 0 \in 0 .. n /\ Value(c, 0) = v
    BY <1>1
  <2> HIDE DEF Value
  <2>2. QED BY <2>1, <1>9
<1>11. \A k \in 1 .. n : c[k] = Listed(l, tag, c[k - 1])
  <2>1. ASSUME NEW k \in 1 .. n PROVE Value(c, k) = Listed(l, tag, c[k - 1])
    <3>1. k # 0
      BY <1>1
    <3>2. QED BY <3>1, Zenon DEF Listed
  <2>2. \A k \in 1 .. n : k \in 0 .. n
    BY <1>1
  <2> HIDE DEF Value
  <2>3. QED BY <2>1, <2>2, <1>9
<1>12. \A k \in 0 .. n : c[k] \in V
  <2> DEFINE P == {k \in 0 .. n : c[k] \in V}
  <2>1. 0 \in P
    BY <1>1, <1>3, <1>10
  <2>2. ASSUME NEW k \in 1 .. n, k - 1 \in P PROVE k \in P
    <3>1. c[k - 1] \in V /\ k \in 0 .. n
      BY <2>2, <1>1
    <3>2. c[k] \in V
      BY <3>1, <1>2, <1>11
    <3>3. QED BY <3>1, <3>2
  <2>3. \A k \in 1 .. n : k - 1 \in P => k \in P
    BY <2>2
  <2> HIDE DEF P
  <2>4. \A k \in 0 .. n : k \in P
    BY <1>1, <2>1, <2>3, Climbs
  <2>5. QED BY <2>4 DEF P
<1>13. QED BY <1>8, <1>10, <1>11, <1>12 DEF n, v, V

\* The bytes of the ranges printed so far are those of instructions of the
\* tag; those of the ones before from, all of them when the loop is over.
Shows(shown, b) == \E r \in shown : b \in r[1] .. r[2] - 1
Inside(l, tag, p) ==
  \A b : Shows(p.shown, b) => \E i \in DOMAIN l : Tagged(l[i], tag) /\ l[i].addr # 0 /\ b \in OpBytes(l[i])
NoneLeftOut(l, tag, p) ==
  /\ p.from # 0 => IsTraced(l, p.from, tag)
  /\ \A i \in DOMAIN l : Tagged(l[i], tag) /\ l[i].addr # 0 /\ (p.from = 0 \/ l[i].addr < p.from)
       => \A b \in OpBytes(l[i]) : Shows(p.shown, b)
Apart(l) ==
  \A i, j \in DOMAIN l : l[i].addr # l[j].addr => OpBytes(l[i]) \intersect OpBytes(l[j]) = {}

\* A range shows its bytes and no others.
LEMMA ShowsMore ==
  ASSUME NEW s, NEW a, NEW z, NEW b
  PROVE  Shows(s \union {<<a, z>>}, b) <=> Shows(s, b) \/ b \in a .. z - 1
<1> DEFINE r == <<a, z>>
<1>1. r[1] = a /\ r[2] = z
  OBVIOUS
<1> HIDE DEF r
<1>2. Shows(s \union {r}, b) <=> Shows(s, b) \/ b \in r[1] .. r[2] - 1
  BY Zenon DEF Shows
<1>3. QED BY <1>1, <1>2, Zenon DEF r

\* A turn prints only bytes of instructions of the tag.
LEMMA ListedInside ==
  ASSUME NEW l \in Seq(Trace), NEW tag, NEW p \in ListStates, Inside(l, tag, p)
  PROVE  Inside(l, tag, Listed(l, tag, p))
<1> DEFINE q == Listed(l, tag, p)
           last == trace_range(l, p.from, tag)
<1>1. CASE p.from = 0 \/ last = p.from
  <2>1. q.shown = p.shown
    BY <1>1, ListedFacts
  <2>2. QED BY <2>1 DEF Inside
<1>2. CASE ~(p.from = 0 \/ last = p.from)
  <2>1. q.shown = p.shown \union {<<p.from, last>>} /\ p.from \in Nat /\ p.from # 0
    BY <1>2, ListedFacts
  <2>2. \A b \in p.from .. last - 1 : InChain(l, tag, p.from, last, b)
    BY <2>1, RangeFacts
  <2> HIDE DEF q, last
  <2>3. ASSUME NEW b, Shows(q.shown, b)
        PROVE  \E i \in DOMAIN l : Tagged(l[i], tag) /\ l[i].addr # 0 /\ b \in OpBytes(l[i])
    <3>1. CASE Shows(p.shown, b)
      BY <3>1 DEF Inside
    <3>2. CASE b \in p.from .. last - 1
      <4>1. PICK i \in DOMAIN l : Tagged(l[i], tag) /\ b \in OpBytes(l[i]) /\ p.from <= l[i].addr
        BY <3>2, <2>2 DEF InChain
      <4>2. l[i].addr # 0
        BY <4>1, <2>1
      <4>3. QED BY <4>1, <4>2
    <3>3. QED BY <2>1, <2>3, <3>1, <3>2, ShowsMore
  <2>4. QED BY <2>3 DEF Inside, q
<1>3. QED BY <1>1, <1>2

\* When no instruction begins inside another, a turn leaves out none.
LEMMA ListedWhole ==
  ASSUME NEW l \in Seq(Trace), NEW tag, NEW p \in ListStates, Apart(l), NoneLeftOut(l, tag, p)
  PROVE  NoneLeftOut(l, tag, Listed(l, tag, p))
<1> DEFINE q == Listed(l, tag, p)
           last == trace_range(l, p.from, tag)
           next == trace_next(l, last, tag)
<1>1. p.from \in Nat /\ (p.from # 0 => IsTraced(l, p.from, tag))
  BY ListedFacts DEF NoneLeftOut
<1>2. /\ last \in Nat /\ p.from <= last /\ ~IsTraced(l, last, tag)
      /\ \A b \in p.from .. last - 1 : InChain(l, tag, p.from, last, b)
      /\ last = p.from <=> ~IsTraced(l, p.from, tag)
  BY <1>1, RangeFacts
<1>3. CASE p.from = 0
  <2>1. q.from = 0 /\ q.shown = p.shown
    BY <1>3, ListedFacts
  <2>2. QED BY <2>1, <1>3 DEF NoneLeftOut
<1>4. CASE p.from # 0
  <2>1. ~(p.from = 0 \/ last = p.from)
    BY <1>1, <1>2, <1>4
  <2>2. q.from = next /\ q.shown = p.shown \union {<<p.from, last>>}
    BY <2>1, ListedFacts
  <2>3. /\ next \in TraceAddr
        /\ next # 0 => IsTraced(l, next, tag)
        /\ \A i \in DOMAIN l : Tagged(l[i], tag) /\ last < l[i].addr => next # 0 /\ next <= l[i].addr
    BY <1>2, NextFacts
  <2>4. next \in Nat /\ \A i \in DOMAIN l : l[i].addr \in Nat /\ OpSize[l[i].addr] \in Nat \ {0}
    <3>1. \A i \in DOMAIN l : l[i].addr \in Nat /\ OpSize[l[i].addr] \in Nat \ {0}
      BY TracedFacts, Zenon
    <3> HIDE DEF next
    <3>2. next \in Nat
      BY <2>3, TraceAssumption DEF TraceAddr
    <3>3. QED BY <3>1, <3>2
  <2> HIDE DEF q, last, next
  <2>5. ASSUME NEW i \in DOMAIN l, Tagged(l[i], tag), l[i].addr # 0, next = 0 \/ l[i].addr < next,
               NEW b \in OpBytes(l[i])
        PROVE  Shows(q.shown, b)
    <3>1. CASE l[i].addr < p.from
      <4>1. Shows(p.shown, b)
        BY <2>5, <3>1 DEF NoneLeftOut
      <4>2. Shows(p.shown \union {<<p.from, last>>}, b)
        BY <4>1, ShowsMore, Zenon
      <4>3. QED BY <4>2, <2>2
    <3>2. CASE p.from <= l[i].addr /\ l[i].addr < last
      <4>1. l[i].addr \in p.from .. last - 1
        BY <3>2, <2>4, <1>1, <1>2
      <4>2. PICK j \in DOMAIN l : /\ l[i].addr \in OpBytes(l[j])
                                  /\ p.from <= l[j].addr /\ l[j].addr + OpSize[l[j].addr] <= last
        BY <4>1, <1>2 DEF InChain
      <4>3. l[i].addr \in OpBytes(l[i])
        BY <2>4 DEF OpBytes
      <4>4. l[i].addr = l[j].addr
        BY <4>2, <4>3 DEF Apart
      <4>5. b \in p.from .. last - 1
        BY <4>2, <4>4, <2>4, <2>5, <1>1, <1>2 DEF OpBytes
      <4>6. QED BY <4>5, <2>2, ShowsMore
    <3>3. CASE l[i].addr = last
      BY <3>3, <2>5, <1>2, TracedFacts
    <3>4. CASE last < l[i].addr
      <4>1. next # 0 /\ next <= l[i].addr
        BY <3>4, <2>3, <2>5
      <4>2. QED BY <4>1, <2>4, <2>5
    <3>5. QED BY <3>1, <3>2, <3>3, <3>4, <2>4, <1>1, <1>2
  <2>6. QED BY <2>2, <2>3, <2>5 DEF NoneLeftOut, q
<1>5. QED BY <1>3, <1>4

\* What a listing of a sorted list shows.
LEMMA ListingFacts ==
  ASSUME NEW l \in Seq(Trace), NEW tag, \A i, j \in DOMAIN l : i < j => l[i].addr <= l[j].addr
  PROVE  LET shown == Listing(l, tag)
         IN  /\ \A b : Shows(shown, b) =>
                  \E i \in DOMAIN l : Tagged(l[i], tag) /\ l[i].addr # 0 /\ b \in OpBytes(l[i])
             /\ ~IsTraced(l, LowestTraced(l), tag) => shown = {}
             /\ Apart(l) /\ IsTraced(l, LowestTraced(l), tag) =>
                  \A i \in DOMAIN l : Tagged(l[i], tag) /\ l[i].addr # 0 =>
                    \A b \in OpBytes(l[i]) : Shows(shown, b)
<1> DEFINE n == MaxTraceAddr + 1
           low == LowestTraced(l)
           Never(p) == ~IsTraced(l, low, tag) => p.shown = {} /\ p.from \in {0, low}
           All(p) == Apart(l) /\ IsTraced(l, low, tag) => NoneLeftOut(l, tag, p)
           Goes(k, p) == p.from = 0 \/ k + 1 <= p.from
<1>1. /\ low \in TraceAddr /\ low \in Nat /\ n \in Nat
      /\ \A i \in DOMAIN l : low = 0 => l[i].addr = 0
      /\ \A i \in DOMAIN l : low # 0 => l[i].addr = 0 \/ low <= l[i].addr
  BY LowestFacts, TraceAssumption DEF TraceAddr
<1>2. PICK c : /\ Listing(l, tag) = c[n].shown
               /\ c[0] = [from |-> low, shown |-> {}]
               /\ \A k \in 0 .. n : c[k] \in ListStates
               /\ \A k \in 1 .. n : c[k] = Listed(l, tag, c[k - 1])
  BY <1>1, ListingUnfolds
<1> HIDE DEF low
<1> DEFINE P == {k \in 0 .. n : Inside(l, tag, c[k]) /\ Never(c[k]) /\ All(c[k]) /\ Goes(k, c[k])}
<1>3. 0 \in P
  <2>1. c[0].from = low /\ c[0].shown = {} /\ 0 \in 0 .. n
    BY <1>1, <1>2
  <2>2. Inside(l, tag, c[0])
    BY <2>1 DEF Inside, Shows
  <2>3. IsTraced(l, low, tag) => NoneLeftOut(l, tag, c[0])
    <3>1. \A i \in DOMAIN l : ~(l[i].addr # 0 /\ (low = 0 \/ l[i].addr < low))
      <4>1. \A i \in DOMAIN l : l[i].addr \in Nat
        BY TracedFacts
      <4>2. QED BY <4>1, <1>1
    <3>2. QED BY <2>1, <3>1 DEF NoneLeftOut
  <2>4. Goes(0, c[0])
    BY <2>1, <1>1
  <2>5. QED BY <2>1, <2>2, <2>3, <2>4
<1>4. ASSUME NEW k \in 1 .. n, k - 1 \in P PROVE k \in P
  <2> DEFINE p == c[k - 1]
             q == c[k]
             last == trace_range(l, p.from, tag)
  <2>1. k \in 0 .. n /\ k - 1 \in 0 .. n /\ k \in Nat /\ p \in ListStates /\ q = Listed(l, tag, p)
    BY <1>1, <1>2
  <2>2. Inside(l, tag, p) /\ Never(p) /\ All(p) /\ Goes(k - 1, p)
    BY <1>4
  <2> HIDE DEF p, q
  <2>3. /\ p.from \in Nat
        /\ p.from = 0 \/ last = p.from => q.from = 0 /\ q.shown = p.shown
        /\ ~(p.from = 0 \/ last = p.from) => q.from = trace_next(l, last, tag)
    BY <2>1, ListedFacts
  <2>4. last \in Nat /\ p.from <= last /\ (last = p.from <=> ~IsTraced(l, p.from, tag))
    BY <2>3, RangeFacts
  <2>5. trace_next(l, last, tag) # 0 => last < trace_next(l, last, tag) /\ trace_next(l, last, tag) \in Nat
    BY <2>4, NextFacts, TraceAssumption DEF TraceAddr
  <2> HIDE DEF last
  <2>6. Inside(l, tag, q)
    BY <2>1, <2>2, ListedInside
  <2>7. All(q)
    BY <2>1, <2>2, ListedWhole
  <2>8. Never(q)
    BY <2>2, <2>3, <2>4
  <2>9. Goes(k, q)
    BY <2>1, <2>2, <2>3, <2>4, <2>5
  <2>10. QED
    <3> HIDE DEF Never, All, Goes
    <3> QED BY <2>1, <2>6, <2>7, <2>8, <2>9 DEF q
<1>5. \A k \in 1 .. n : k - 1 \in P => k \in P
  BY <1>4
<1>6. n \in P
  <2> HIDE DEF P, n
  <2>1. \A k \in 0 .. n : k \in P
    BY <1>1, <1>3, <1>5, Climbs
  <2>2. QED BY <1>1, <2>1
<1>7. Inside(l, tag, c[n]) /\ Never(c[n]) /\ All(c[n]) /\ c[n].from = 0
  <2>1. c[n] \in ListStates /\ (c[n].from = 0 \/ n + 1 <= c[n].from)
    BY <1>1, <1>2, <1>6
  <2>2. c[n].from = 0
    BY <2>1, TraceAssumption DEF ListStates, TraceAddr
  <2>3. QED BY <2>2, <1>6
<1>8. QED BY <1>2, <1>7 DEF Inside, NoneLeftOut, low

\* The invariant has the whole listing.
LEMMA TraceInvListed == TraceInv => ListingTrue
<1>1. SUFFICES ASSUME TraceInv PROVE ListingTrue
  OBVIOUS
<1> DEFINE l == trace_sort
           tag == trace_tag
           mine == {i \in DOMAIN l : Tagged(l[i], tag)}
           shown == UNION {r[1] .. r[2] - 1 : r \in Listing(l, tag)}
           lowest == {i \in mine : l[i].addr = LowestTraced(l)}
           far == {j \in mine : l[j].addr # 0}
<1>2. l \in Seq(Trace) /\ \A i, j \in DOMAIN l : i < j => l[i].addr <= l[j].addr
  <2>1. traces \in TraceLists /\ (~trace_changed => \A i, j \in DOMAIN traces : traces[i].addr <= traces[j].addr)
    BY <1>1 DEF TraceInv
  <2>2. QED BY <2>1, SortFacts DEF SameTraces, TraceLists
<1> HIDE DEF l, tag
<1>3. \A b : b \in shown <=> Shows(Listing(l, tag), b)
  BY DEF Shows
<1>4. (lowest = {}) <=> ~IsTraced(l, LowestTraced(l), tag)
  <2>1. LowestTraced(l) \in TraceAddr
    BY <1>2, LowestFacts
  <2>2. QED BY <2>1 DEF IsTraced, trace_get, TracedAt
<1>5. /\ \A b : b \in shown => \E i \in far : b \in OpBytes(l[i])
      /\ lowest = {} => Listing(l, tag) = {}
      /\ Apart(l) /\ lowest # {} => \A i \in far : \A b \in OpBytes(l[i]) : b \in shown
  <2>1. \A i : i \in far <=> i \in DOMAIN l /\ Tagged(l[i], tag) /\ l[i].addr # 0
    OBVIOUS
  <2> HIDE DEF shown, lowest, far
  <2>2. QED BY <1>2, <1>3, <1>4, <2>1, ListingFacts
<1>6. shown \subseteq UNION {OpBytes(l[i]) : i \in mine}
  <2>1. far \subseteq mine
    OBVIOUS
  <2> HIDE DEF shown, mine, far
  <2>2. QED BY <1>5, <2>1
<1>7. lowest = {} => shown = {}
  BY <1>5
<1>8. Apart(l) /\ lowest # {} => shown = UNION {OpBytes(l[i]) : i \in far}
  <2> HIDE DEF shown, lowest, far
  <2>1. QED BY <1>5
<1>9. Apart(l) => shown = IF lowest = {} THEN {} ELSE UNION {OpBytes(l[i]) : i \in far}
  <2> HIDE DEF shown, lowest, far
  <2>1. QED BY <1>7, <1>8
<1>10. QED BY <1>6, <1>9, Zenon DEF ListingTrue, Apart, l, tag

\* Traces are true (TracesTrue), however long the list, whatever the sizes of
\* the instructions, the tags and the order of the commands: every executed
\* instruction keeps its counts, trace_sort ends with the list sorted and
\* complete, and at shows the bytes of the traced instructions.
THEOREM TracesCorrect == Spec => []TracesTrue
<1>1. Init => TraceInv
  BY TraceInitHolds
<1>2. TraceInv /\ [Next]_vars => TraceInv'
  BY TraceSteps, TraceNextKeeps
<1>3. TraceInv => TracesTrue
  BY TraceInvSorted, TraceInvListed DEF TracesTrue
<1>4. QED BY <1>1, <1>2, <1>3, PTL DEF Spec

------------------------------------------------------------------------------
(***************************************************************************)
(* Data, comments and references, and the project file that keeps them.    *)
(***************************************************************************)
\* The recursive function in Dropped has the value its definition says at
\* every position of the list.
DropsBy(f, T, l, S) ==
  /\ f \in [0 .. Len(l) -> Seq(T)] /\ f[0] = <<>>
  /\ \A k \in 1 .. Len(l) : f[k] = IF k \in S THEN f[k - 1] ELSE Append(f[k - 1], l[k])

LEMMA DroppedUnfolds ==
  ASSUME NEW T, NEW l \in Seq(T), NEW S
  PROVE  \E f : DropsBy(f, T, l, S) /\ Dropped(l, S) = f[Len(l)]
<1> DEFINE n == Len(l)
           V == Seq(T)
           Then(w, k) == IF k \in S THEN w ELSE Append(w, l[k])
           Value(h, k) == IF k = 0 THEN <<>> ELSE Then(h[k - 1], k)
           step == [k \in 1 .. n |-> [w \in V |-> Then(w, k)]]
<1>1. n \in Nat /\ <<>> \in V
  OBVIOUS
<1>2. ASSUME NEW k \in 1 .. n, NEW w \in V PROVE Then(w, k) \in V
  <2>1. l[k] \in T
    OBVIOUS
  <2>. QED
    BY <2>1
<1>3. step \in Steps(n, V)
  <2>1. \A k \in 1 .. n : [w \in V |-> Then(w, k)] \in [V -> V]
    BY <1>2
  <2>. HIDE DEF V, Then
  <2>. QED
    BY <2>1 DEF Steps
<1>4. PICK g : Iterates(g, n, V, <<>>, step)
  <2>. HIDE DEF step, n, V
  <2>. QED
    BY <1>1, <1>3, Recursion
<1>5. g \in [0 .. n -> V] /\ g[0] = <<>> /\ \A k \in 1 .. n : g[k] = step[k][g[k - 1]]
  BY <1>4, Zenon DEF Iterates
<1>6. ASSUME NEW k \in 0 .. n PROVE g[k] = Value(g, k)
  <2>1. CASE k = 0
    BY <1>5, <2>1
  <2>2. CASE k # 0
    <3>1. k \in 1 .. n /\ k - 1 \in 0 .. n
      BY <1>1, <2>2
    <3>. HIDE DEF V, Then, n
    <3>2. g[k - 1] \in V
      BY <1>5, <3>1
    <3>. QED
      BY <1>5, <2>2, <3>1, <3>2
  <2>. QED
    BY <2>1, <2>2
<1>7. g = [k \in 0 .. n |-> Value(g, k)]
  <2>. HIDE DEF Value
  <2>. QED
    BY <1>5, <1>6
<1> DEFINE f == CHOOSE f : f = [k \in 0 .. n |-> Value(f, k)]
<1>8. f = [k \in 0 .. n |-> Value(f, k)]
  <2>. HIDE DEF Value
  <2>. QED
    BY <1>7
<1>9. Dropped(l, S) = f[n]
  BY Zenon DEF Dropped
<1>. HIDE DEF f
<1>10. \A k \in 0 .. n : f[k] = Value(f, k)
  <2>. HIDE DEF Value
  <2>. QED
    BY <1>8
<1>11. f[0] = <<>>
  BY <1>1, <1>10
<1>12. ASSUME NEW k \in 1 .. n PROVE f[k] = Then(f[k - 1], k)
  <2>1. k \in 0 .. n /\ k # 0
    BY <1>1
  <2>. HIDE DEF Then
  <2>. QED
    BY <1>10, <2>1
<1>13. \A k \in 0 .. n : f[k] \in V
  <2> DEFINE P == {k \in 0 .. n : f[k] \in V}
  <2>1. 0 \in P
    <3>. HIDE DEF V, n
    <3>. QED
      BY <1>1, <1>11
  <2>2. ASSUME NEW k \in 1 .. n, k - 1 \in P PROVE k \in P
    <3>1. f[k] = Then(f[k - 1], k) /\ f[k - 1] \in V /\ k \in 0 .. n
      BY <1>1, <1>12, <2>2
    <3>. HIDE DEF V, Then
    <3>. QED
      BY <1>2, <3>1
  <2>. HIDE DEF P
  <2>3. \A k \in 0 .. n : k \in P
    BY <1>1, <2>1, <2>2, Climbs
  <2>. QED
    BY <2>3 DEF P
<1>14. f \in [0 .. n -> V]
  <2>. HIDE DEF Value, V
  <2>. QED
    BY <1>8, <1>13
<1>. HIDE DEF Then, Value
<1>15. \A k \in 1 .. n : f[k] = Then(f[k - 1], k)
  BY <1>12
<1>16. DropsBy(f, T, l, S)
  BY <1>11, <1>14, <1>15 DEF Then, DropsBy
<1>. QED
  BY <1>9, <1>16

\* The list that Dropped builds is the part of l outside S, in the same order:
\* e says where each element comes from.
Origin(w, l, K, e) ==
  /\ e \in [1 .. Len(w) -> K]
  /\ \A i, j \in 1 .. Len(w) : i < j => e[i] < e[j]
  /\ \A i \in 1 .. Len(w) : w[i] = l[e[i]]
  /\ \A k \in K : \E i \in 1 .. Len(w) : e[i] = k

LEMMA DroppedFacts ==
  ASSUME NEW T, NEW l \in Seq(T), NEW S
  PROVE  /\ Dropped(l, S) \in Seq(T)
         /\ \E e : Origin(Dropped(l, S), l, DOMAIN l \ S, e)
<1> DEFINE n == Len(l)
<1>1. n \in Nat /\ DOMAIN l = 1 .. n /\ \A k \in 1 .. n : l[k] \in T
  OBVIOUS
<1>0. PICK f : DropsBy(f, T, l, S) /\ Dropped(l, S) = f[Len(l)]
  BY DroppedUnfolds
<1>2. /\ Dropped(l, S) = f[n] /\ f \in [0 .. n -> Seq(T)] /\ f[0] = <<>>
      /\ \A k \in 1 .. n : f[k] = IF k \in S THEN f[k - 1] ELSE Append(f[k - 1], l[k])
  BY <1>0, Zenon DEF DropsBy
<1> DEFINE Good(k) == \E e : Origin(f[k], l, (1 .. k) \ S, e)
           P == {k \in 0 .. n : Good(k)}
<1>. HIDE DEF n
<1>3. Good(0)
  <2>1. Origin(f[0], l, (1 .. 0) \ S, [i \in 1 .. 0 |-> 0])
    BY <1>2 DEF Origin
  <2>. QED
    BY <2>1
<1>4. ASSUME NEW k \in 1 .. n, Good(k - 1) PROVE Good(k)
  <2>1. k - 1 \in 0 .. n /\ k \in Nat /\ k - 1 \in Nat /\ l[k] \in T
    BY <1>1
  <2>2. f[k - 1] \in Seq(T) /\ Len(f[k - 1]) \in Nat
    BY <1>2, <2>1
  <2>3. PICK e : Origin(f[k - 1], l, (1 .. k - 1) \ S, e)
    BY <1>4
  <2>4. CASE k \in S
    <3>1. f[k] = f[k - 1] /\ (1 .. k) \ S = (1 .. k - 1) \ S
      BY <1>2, <2>1, <2>4
    <3>2. Origin(f[k], l, (1 .. k) \ S, e)
      BY <2>3, <3>1, Zenon
    <3>. QED
      BY <3>2
  <2>5. CASE k \notin S
    <3> DEFINE m == Len(f[k - 1])
               w == f[k]
               d == [i \in 1 .. m + 1 |-> IF i = m + 1 THEN k ELSE e[i]]
    <3>1. w = Append(f[k - 1], l[k])
      BY <1>2, <2>5
    <3>2. /\ Len(w) = m + 1 /\ w[m + 1] = l[k] /\ m \in Nat
          /\ \A i \in 1 .. m : w[i] = f[k - 1][i]
      BY <2>1, <2>2, <3>1
    <3>3. /\ e \in [1 .. m -> (1 .. k - 1) \ S]
          /\ \A i, j \in 1 .. m : i < j => e[i] < e[j]
          /\ \A i \in 1 .. m : f[k - 1][i] = l[e[i]]
          /\ \A x \in (1 .. k - 1) \ S : \E i \in 1 .. m : e[i] = x
      BY <2>3 DEF Origin
    <3>. HIDE DEF m, w
    <3>4. d \in [1 .. m + 1 -> (1 .. k) \ S]
      BY <2>1, <2>5, <3>2, <3>3
    <3>5. ASSUME NEW i \in 1 .. m + 1, NEW j \in 1 .. m + 1, i < j PROVE d[i] < d[j]
      BY <2>1, <3>2, <3>3, <3>5
    <3>6. ASSUME NEW i \in 1 .. m + 1 PROVE w[i] = l[d[i]]
      BY <3>2, <3>3
    <3>7. ASSUME NEW x \in (1 .. k) \ S PROVE \E i \in 1 .. m + 1 : d[i] = x
      <4>1. CASE x = k
        BY <3>2, <4>1
      <4>2. CASE x # k
        <5>1. PICK i \in 1 .. m : e[i] = x
          BY <2>1, <3>3, <4>2
        <5>2. i \in 1 .. m + 1 /\ d[i] = x
          BY <3>2, <5>1
        <5>. QED
          BY <5>2
      <4>. QED
        BY <4>1, <4>2
    <3>. HIDE DEF d
    <3>8. Origin(w, l, (1 .. k) \ S, d)
      BY <3>2, <3>4, <3>5, <3>6, <3>7 DEF Origin
    <3>. QED
      BY <3>8 DEF w
  <2>. QED
    BY <2>4, <2>5
<1>. HIDE DEF Good
<1>5. 0 \in P /\ \A k \in 1 .. n : k - 1 \in P => k \in P
  BY <1>1, <1>3, <1>4
<1>6. \A k \in 0 .. n : k \in P
  <2>. HIDE DEF P
  <2>. QED
    BY <1>1, <1>5, Climbs
<1>7. Good(n) /\ f[n] \in Seq(T)
  BY <1>1, <1>2, <1>6
<1>. QED
  BY <1>1, <1>2, <1>7 DEF Good

\* What a property of the positions of a list that is left needs.
LEMMA DroppedElements ==
  ASSUME NEW T, NEW l \in Seq(T), NEW S
  PROVE  /\ Dropped(l, S) \in Seq(T)
         /\ \A i \in DOMAIN Dropped(l, S) : \E k \in DOMAIN l \ S : Dropped(l, S)[i] = l[k]
         /\ \A k \in DOMAIN l \ S : \E i \in DOMAIN Dropped(l, S) : Dropped(l, S)[i] = l[k]
<1> DEFINE w == Dropped(l, S)
<1>1. w \in Seq(T)
  BY DroppedFacts
<1>2. PICK e : Origin(w, l, DOMAIN l \ S, e)
  BY DroppedFacts
<1>. HIDE DEF w
<1>3. DOMAIN w = 1 .. Len(w)
  BY <1>1
<1>4. \A i \in DOMAIN w : \E k \in DOMAIN l \ S : w[i] = l[k]
  BY <1>2, <1>3 DEF Origin
<1>5. \A k \in DOMAIN l \ S : \E i \in DOMAIN w : w[i] = l[k]
  BY <1>2, <1>3 DEF Origin
<1>. QED
  BY <1>1, <1>4, <1>5 DEF w

\* Two positions of the list that is left are two positions of l in the same
\* order.
LEMMA DroppedOrder ==
  ASSUME NEW T, NEW l \in Seq(T), NEW S,
         NEW i \in DOMAIN Dropped(l, S), NEW j \in DOMAIN Dropped(l, S), i < j
  PROVE  \E x, y \in DOMAIN l \ S :
           x < y /\ Dropped(l, S)[i] = l[x] /\ Dropped(l, S)[j] = l[y]
<1> DEFINE w == Dropped(l, S)
<1>1. w \in Seq(T)
  BY DroppedFacts
<1>2. PICK e : Origin(w, l, DOMAIN l \ S, e)
  BY DroppedFacts
<1>3. i \in 1 .. Len(w) /\ j \in 1 .. Len(w)
  BY <1>1
<1>. HIDE DEF w
<1>4. e[i] \in DOMAIN l \ S /\ e[j] \in DOMAIN l \ S /\ e[i] < e[j] /\ w[i] = l[e[i]] /\ w[j] = l[e[j]]
  BY <1>2, <1>3 DEF Origin
<1>. QED
  BY <1>4 DEF w

\* Nothing is dropped.
LEMMA DroppedNothing ==
  ASSUME NEW T, NEW l \in Seq(T), NEW S, S \intersect DOMAIN l = {}
  PROVE  Dropped(l, S) = l
<1> DEFINE n == Len(l)
<1>1. n \in Nat /\ DOMAIN l = 1 .. n /\ \A k \in 1 .. n : l[k] \in T
  OBVIOUS
<1>0. PICK f : DropsBy(f, T, l, S) /\ Dropped(l, S) = f[Len(l)]
  BY DroppedUnfolds
<1>2. /\ Dropped(l, S) = f[n] /\ f \in [0 .. n -> Seq(T)] /\ f[0] = <<>>
      /\ \A k \in 1 .. n : f[k] = IF k \in S THEN f[k - 1] ELSE Append(f[k - 1], l[k])
  BY <1>0, Zenon DEF DropsBy
<1> DEFINE P == {k \in 0 .. n : Len(f[k]) = k /\ \A i \in 1 .. k : f[k][i] = l[i]}
<1>. HIDE DEF n
<1>3. 0 \in P
  BY <1>1, <1>2
<1>4. ASSUME NEW k \in 1 .. n, k - 1 \in P PROVE k \in P
  <2>1. k - 1 \in 0 .. n /\ k \in 0 .. n /\ k \in Nat /\ k - 1 \in Nat /\ l[k] \in T /\ k \notin S
    BY <1>1
  <2>2. f[k - 1] \in Seq(T) /\ Len(f[k - 1]) = k - 1 /\ \A i \in 1 .. k - 1 : f[k - 1][i] = l[i]
    BY <1>2, <1>4, <2>1
  <2>3. f[k] = Append(f[k - 1], l[k])
    BY <1>2, <2>1
  <2>4. Len(f[k]) = k /\ \A i \in 1 .. k : f[k][i] = l[i]
    BY <2>1, <2>2, <2>3
  <2>. QED
    BY <2>1, <2>4
<1>5. \A k \in 0 .. n : k \in P
  <2>. HIDE DEF P
  <2>. QED
    BY <1>1, <1>3, <1>4, Climbs
<1>6. f[n] \in Seq(T) /\ Len(f[n]) = n /\ \A i \in 1 .. n : f[n][i] = l[i]
  <2>1. n \in 0 .. n
    BY <1>1
  <2>2. f[n] \in Seq(T)
    BY <1>2, <2>1
  <2>3. n \in P
    BY <1>5, <2>1
  <2>. QED
    BY <2>2, <2>3
<1>. QED
  BY <1>1, <1>2, <1>6 DEF n

\* What Earliest finds.
LEMMA EarliestFacts ==
  ASSUME NEW S, S \subseteq Nat, S # {}
  PROVE  Earliest(S) \in S /\ \A j \in S : Earliest(S) <= j
<1>1. \E i \in S : \A j \in S : i <= j
  BY Smallest
<1>. QED
  BY <1>1 DEF Earliest

\* Comments: none is there twice, and before one that begins with a star there
\* is no other at its address.
CommentsGood(l) ==
  /\ l \in Seq(MetaAddr \X Text)
  /\ \A j, k \in DOMAIN l : l[j] = l[k] => j = k
  /\ \A j, k \in DOMAIN l : j < k /\ l[k][2] \in Starred => l[j][1] # l[k][1]

LEMMA DroppedComments ==
  ASSUME NEW l, CommentsGood(l), NEW S
  PROVE  CommentsGood(Dropped(l, S))
<1> DEFINE w == Dropped(l, S)
<1>1. l \in Seq(MetaAddr \X Text)
  BY DEF CommentsGood
<1>2. w \in Seq(MetaAddr \X Text)
  BY <1>1, DroppedFacts
<1>3. ASSUME NEW i \in DOMAIN w, NEW j \in DOMAIN w, i < j
      PROVE  w[i] # w[j] /\ (w[j][2] \in Starred => w[i][1] # w[j][1])
  <2>1. PICK x \in DOMAIN l, y \in DOMAIN l : x < y /\ w[i] = l[x] /\ w[j] = l[y]
    BY <1>1, <1>3, DroppedOrder
  <2>2. x # y
    BY <1>1, <2>1
  <2>. QED
    BY <2>1, <2>2 DEF CommentsGood
<1>4. \A i, j \in DOMAIN w : i < j \/ j < i \/ i = j
  BY <1>2
<1>. HIDE DEF w
<1>. QED
  BY <1>2, <1>3, <1>4 DEF CommentsGood, w

LEMMA CommentDeleted ==
  ASSUME NEW l, CommentsGood(l), NEW a, NEW text
  PROVE  LET d == data_comment_del(l, a, text)
         IN  /\ CommentsGood(d)
             /\ \A k \in DOMAIN d : d[k] # <<a, text>>
             /\ text \in Starred => \A k \in DOMAIN d : d[k][1] # a
<1> DEFINE S == IF text \in Starred THEN {k \in DOMAIN l : l[k][1] = a} ELSE FirstSame(l, a, text)
           d == Dropped(l, S)
<1>1. l \in Seq(MetaAddr \X Text) /\ \A j, k \in DOMAIN l : l[j] = l[k] => j = k
  BY DEF CommentsGood
<1>2. CommentsGood(d)
  BY DroppedComments
<1>3. \A i \in DOMAIN d : \E k \in DOMAIN l \ S : d[i] = l[k]
  <2>. HIDE DEF S
  <2>. QED
    BY <1>1, DroppedElements
<1>4. \A k \in DOMAIN l \ S : l[k] # <<a, text>> /\ (text \in Starred => l[k][1] # a)
  <2>1. CASE text \in Starred
    BY <2>1
  <2>2. CASE text \notin Starred
    <3>1. SameText(l, a, text) \subseteq Nat /\ SameText(l, a, text) \subseteq DOMAIN l
      BY <1>1 DEF SameText
    <3>2. CASE SameText(l, a, text) = {}
      BY <2>2, <3>2 DEF SameText
    <3>3. CASE SameText(l, a, text) # {}
      <4>1. Earliest(SameText(l, a, text)) \in SameText(l, a, text)
        BY <3>1, <3>3, EarliestFacts
      <4>2. S = {Earliest(SameText(l, a, text))}
        BY <2>2, <3>3 DEF FirstSame
      <4>3. l[Earliest(SameText(l, a, text))] = <<a, text>>
        BY <4>1 DEF SameText
      <4>. QED
        BY <1>1, <2>2, <3>1, <4>1, <4>2, <4>3
    <3>. QED
      BY <3>2, <3>3
  <2>. QED
    BY <2>1, <2>2
<1>5. data_comment_del(l, a, text) = d
  BY DEF data_comment_del
<1>. HIDE DEF S, d
<1>6. /\ \A k \in DOMAIN d : d[k] # <<a, text>>
      /\ text \in Starred => \A k \in DOMAIN d : d[k][1] # a
  BY <1>3, <1>4
<1>. QED
  BY <1>2, <1>5, <1>6

LEMMA CommentAdded ==
  ASSUME NEW l, CommentsGood(l), NEW a \in MetaAddr, NEW text \in Text
  PROVE  CommentsGood(data_comment_add(l, a, text))
<1> DEFINE d == data_comment_del(l, a, text)
           w == Append(d, <<a, text>>)
<1>1. /\ CommentsGood(d)
      /\ \A k \in DOMAIN d : d[k] # <<a, text>>
      /\ text \in Starred => \A k \in DOMAIN d : d[k][1] # a
  BY CommentDeleted
<1>2. data_comment_add(l, a, text) = w
  BY DEF data_comment_add
<1>. HIDE DEF d
<1>3. d \in Seq(MetaAddr \X Text)
  BY <1>1 DEF CommentsGood
<1> DEFINE n == Len(d)
<1>4. /\ w \in Seq(MetaAddr \X Text) /\ n \in Nat /\ DOMAIN w = 1 .. n + 1 /\ DOMAIN d = 1 .. n
      /\ w[n + 1] = <<a, text>> /\ \A i \in 1 .. n : w[i] = d[i]
  <2>1. <<a, text>> \in MetaAddr \X Text
    OBVIOUS
  <2> DEFINE T == MetaAddr \X Text
             c == <<a, text>>
  <2>2. d \in Seq(T) /\ c \in T /\ w = Append(d, c)
    BY <1>3, <2>1
  <2>. HIDE DEF T, c, w
  <2>3. /\ w \in Seq(T) /\ n \in Nat /\ DOMAIN w = 1 .. n + 1 /\ DOMAIN d = 1 .. n
        /\ w[n + 1] = c /\ \A i \in 1 .. n : w[i] = d[i]
    BY <2>2
  <2>. QED
    BY <2>3 DEF T, c
<1>. HIDE DEF w, n
<1>5. ASSUME NEW i \in DOMAIN w, NEW j \in DOMAIN w, w[i] = w[j] PROVE i = j
  <2>1. CASE i = n + 1 \/ j = n + 1
    BY <1>1, <1>4, <1>5, <2>1
  <2>2. CASE i \in 1 .. n /\ j \in 1 .. n
    BY <1>1, <1>4, <1>5, <2>2 DEF CommentsGood
  <2>. QED
    BY <1>4, <2>1, <2>2
<1>6. ASSUME NEW i \in DOMAIN w, NEW j \in DOMAIN w, i < j, w[j][2] \in Starred PROVE w[i][1] # w[j][1]
  <2>1. i \in 1 .. n /\ w[i] = d[i]
    BY <1>4, <1>6
  <2>2. CASE j = n + 1
    <3>1. w[j][1] = a /\ w[j][2] = text
      BY <1>4, <2>2
    <3>. QED
      BY <1>1, <1>4, <1>6, <2>1, <3>1
  <2>3. CASE j \in 1 .. n
    BY <1>1, <1>4, <1>6, <2>1, <2>3 DEF CommentsGood
  <2>. QED
    BY <1>4, <2>2, <2>3
<1>. QED
  BY <1>2, <1>4, <1>5, <1>6 DEF CommentsGood

\* Reading the comments of a project.
ReadsComments(f, l) ==
  /\ f \in [0 .. Len(l) -> {x \in Seq(MetaAddr \X Text) : CommentsGood(x)}] /\ f[0] = <<>>
  /\ \A k \in 1 .. Len(l) : f[k] = data_comment_add(f[k - 1], l[k][1], l[k][2])

LEMMA CommentsUnfold ==
  ASSUME NEW l, CommentsGood(l)
  PROVE  \E f : ReadsComments(f, l) /\ ReplayedComments(l) = f[Len(l)]
<1> DEFINE n == Len(l)
           V == {x \in Seq(MetaAddr \X Text) : CommentsGood(x)}
           Then(w, k) == data_comment_add(w, l[k][1], l[k][2])
           Value(h, k) == IF k = 0 THEN <<>> ELSE Then(h[k - 1], k)
           step == [k \in 1 .. n |-> [w \in V |-> Then(w, k)]]
<1>1. n \in Nat /\ <<>> \in V
  BY DEF CommentsGood
<1>2. ASSUME NEW k \in 1 .. n, NEW w \in V PROVE Then(w, k) \in V
  <2>1. l \in Seq(MetaAddr \X Text)
    BY DEF CommentsGood
  <2>2. l[k] \in MetaAddr \X Text
    BY <2>1
  <2>3. l[k][1] \in MetaAddr /\ l[k][2] \in Text
    BY <2>2
  <2>4. CommentsGood(Then(w, k))
    BY <2>3, CommentAdded
  <2>. HIDE DEF Then
  <2>. QED
    BY <2>4 DEF CommentsGood
<1>3. step \in Steps(n, V)
  <2>1. \A k \in 1 .. n : [w \in V |-> Then(w, k)] \in [V -> V]
    BY <1>2
  <2>. HIDE DEF V, Then
  <2>. QED
    BY <2>1 DEF Steps
<1>4. PICK g : Iterates(g, n, V, <<>>, step)
  <2>. HIDE DEF step, n, V
  <2>. QED
    BY <1>1, <1>3, Recursion
<1>5. g \in [0 .. n -> V] /\ g[0] = <<>> /\ \A k \in 1 .. n : g[k] = step[k][g[k - 1]]
  BY <1>4, Zenon DEF Iterates
<1>6. ASSUME NEW k \in 0 .. n PROVE g[k] = Value(g, k)
  <2>1. CASE k = 0
    BY <1>5, <2>1
  <2>2. CASE k # 0
    <3>1. k \in 1 .. n /\ k - 1 \in 0 .. n
      BY <1>1, <2>2
    <3>. HIDE DEF V, Then, n
    <3>2. g[k - 1] \in V
      BY <1>5, <3>1
    <3>. QED
      BY <1>5, <2>2, <3>1, <3>2
  <2>. QED
    BY <2>1, <2>2
<1>7. g = [k \in 0 .. n |-> Value(g, k)]
  <2>. HIDE DEF Value
  <2>. QED
    BY <1>5, <1>6
<1> DEFINE f == CHOOSE f : f = [k \in 0 .. n |-> Value(f, k)]
<1>8. f = [k \in 0 .. n |-> Value(f, k)]
  <2>. HIDE DEF Value
  <2>. QED
    BY <1>7
<1>9. ReplayedComments(l) = f[n]
  BY Zenon DEF ReplayedComments
<1>. HIDE DEF f
<1>10. \A k \in 0 .. n : f[k] = Value(f, k)
  <2>. HIDE DEF Value
  <2>. QED
    BY <1>8
<1>11. f[0] = <<>>
  BY <1>1, <1>10
<1>12. ASSUME NEW k \in 1 .. n PROVE f[k] = Then(f[k - 1], k)
  <2>1. k \in 0 .. n /\ k # 0
    BY <1>1
  <2>. HIDE DEF Then
  <2>. QED
    BY <1>10, <2>1
<1>13. \A k \in 0 .. n : f[k] \in V
  <2> DEFINE P == {k \in 0 .. n : f[k] \in V}
  <2>1. 0 \in P
    <3>. HIDE DEF V, n
    <3>. QED
      BY <1>1, <1>11
  <2>2. ASSUME NEW k \in 1 .. n, k - 1 \in P PROVE k \in P
    <3>1. f[k] = Then(f[k - 1], k) /\ f[k - 1] \in V /\ k \in 0 .. n
      BY <1>1, <1>12, <2>2
    <3>. HIDE DEF V, Then
    <3>. QED
      BY <1>2, <3>1
  <2>. HIDE DEF P
  <2>3. \A k \in 0 .. n : k \in P
    BY <1>1, <2>1, <2>2, Climbs
  <2>. QED
    BY <2>3 DEF P
<1>14. f \in [0 .. n -> V]
  <2>. HIDE DEF Value, V
  <2>. QED
    BY <1>8, <1>13
<1>. HIDE DEF Then, Value
<1>15. \A k \in 1 .. n : f[k] = Then(f[k - 1], k)
  BY <1>12
<1>16. ReadsComments(f, l)
  BY <1>11, <1>14, <1>15 DEF Then, ReadsComments
<1>. QED
  BY <1>9, <1>16

\* A list without doubles in which stars come first is read back as it was.
LEMMA CommentsKept ==
  ASSUME NEW l, CommentsGood(l)
  PROVE  ReplayedComments(l) = l
<1> DEFINE n == Len(l)
           T == MetaAddr \X Text
<1>1. PICK f : ReadsComments(f, l) /\ ReplayedComments(l) = f[Len(l)]
  BY CommentsUnfold
<1>2. /\ ReplayedComments(l) = f[n]
      /\ f \in [0 .. n -> {x \in Seq(T) : CommentsGood(x)}] /\ f[0] = <<>>
      /\ \A k \in 1 .. n : f[k] = data_comment_add(f[k - 1], l[k][1], l[k][2])
  BY <1>1, Zenon DEF ReadsComments
<1>3. /\ l \in Seq(T)
      /\ \A j, k \in DOMAIN l : l[j] = l[k] => j = k
      /\ \A j, k \in DOMAIN l : j < k /\ l[k][2] \in Starred => l[j][1] # l[k][1]
  BY DEF CommentsGood
<1>4. \A c \in T : c = <<c[1], c[2]>>
  OBVIOUS
<1>. HIDE DEF T
<1>5. n \in Nat /\ DOMAIN l = 1 .. n /\ \A k \in 1 .. n : l[k] \in T
  BY <1>3
<1> DEFINE P == {k \in 0 .. n : Len(f[k]) = k /\ \A i \in 1 .. k : f[k][i] = l[i]}
<1>. HIDE DEF n
<1>6. 0 \in P
  BY <1>2, <1>5
<1>7. ASSUME NEW k \in 1 .. n, k - 1 \in P PROVE k \in P
  <2> DEFINE p == f[k - 1]
             a == l[k][1]
             text == l[k][2]
  <2>1. k - 1 \in 0 .. n /\ k \in 0 .. n /\ k \in Nat /\ k - 1 \in Nat /\ k \in DOMAIN l
    BY <1>5
  <2>2. p \in Seq(T) /\ Len(p) = k - 1 /\ \A i \in 1 .. k - 1 : p[i] = l[i]
    BY <1>2, <1>7, <2>1
  <2>3. l[k] = <<a, text>> /\ l[k] \in T
    BY <1>4, <1>5
  <2>4. f[k] = data_comment_add(p, a, text)
    BY <1>2
  <2>. HIDE DEF p
  <2>5. DOMAIN p = 1 .. k - 1
    BY <2>2
  <2>6. \A j \in DOMAIN p : j \in DOMAIN l /\ p[j] = l[j] /\ j < k /\ j # k
    BY <1>5, <2>1, <2>2, <2>5
  <2>7. \A j \in DOMAIN p : p[j] # l[k]
    BY <1>3, <2>1, <2>6
  <2>8. SameText(p, a, text) = {}
    BY <2>3, <2>7 DEF SameText
  <2>9. text \in Starred => {j \in DOMAIN p : p[j][1] = a} = {}
    BY <1>3, <2>1, <2>6
  <2>10. data_comment_del(p, a, text) = Dropped(p, {})
    <3>. HIDE DEF a, text
    <3>1. CASE text \in Starred
      BY <2>9, <3>1 DEF data_comment_del
    <3>2. CASE text \notin Starred
      BY <2>8, <3>2 DEF data_comment_del, FirstSame
    <3>. QED
      BY <3>1, <3>2
  <2>11. Dropped(p, {}) = p
    BY <2>2, DroppedNothing
  <2>12. f[k] = Append(p, l[k])
    <3>. HIDE DEF a, text
    <3>. QED
      BY <2>3, <2>4, <2>10, <2>11 DEF data_comment_add
  <2>13. Len(f[k]) = k /\ \A i \in 1 .. k : f[k][i] = l[i]
    <3>. HIDE DEF a, text
    <3>. QED
      BY <2>1, <2>2, <2>3, <2>12
  <2>. QED
    BY <2>1, <2>13
<1>8. \A k \in 0 .. n : k \in P
  <2>. HIDE DEF P
  <2>. QED
    BY <1>5, <1>6, <1>7, Climbs
<1>9. f[n] \in Seq(T) /\ Len(f[n]) = n /\ \A i \in 1 .. n : f[n][i] = l[i]
  <2>1. n \in 0 .. n
    BY <1>5
  <2>2. f[n] \in Seq(T)
    BY <1>2, <2>1
  <2>3. n \in P
    BY <1>8, <2>1
  <2>. QED
    BY <2>2, <2>3
<1>10. f[n] = l
  BY <1>3, <1>5, <1>9 DEF n
<1>. QED
  BY <1>2, <1>10

\* References: none is there twice.
Ref == [addr : MetaAddr, from : MetaAddr, type : {"code", "data"}]

RefsGood(l) ==
  /\ l \in Seq(Ref)
  /\ \A j, k \in DOMAIN l : l[j].addr = l[k].addr /\ l[j].from = l[k].from => j = k

LEMMA DroppedRefs ==
  ASSUME NEW l, RefsGood(l), NEW S
  PROVE  RefsGood(Dropped(l, S))
<1> DEFINE w == Dropped(l, S)
<1>1. l \in Seq(Ref)
  BY DEF RefsGood
<1>2. w \in Seq(Ref)
  BY <1>1, DroppedFacts
<1>3. ASSUME NEW i \in DOMAIN w, NEW j \in DOMAIN w, i < j
      PROVE  ~(w[i].addr = w[j].addr /\ w[i].from = w[j].from)
  <2>1. PICK x \in DOMAIN l, y \in DOMAIN l : x < y /\ w[i] = l[x] /\ w[j] = l[y]
    BY <1>1, <1>3, DroppedOrder
  <2>2. x # y
    BY <1>1, <2>1
  <2>. QED
    BY <2>1, <2>2 DEF RefsGood
<1>4. \A i, j \in DOMAIN w : i < j \/ j < i \/ i = j
  BY <1>2
<1>. HIDE DEF w
<1>. QED
  BY <1>2, <1>3, <1>4 DEF RefsGood, w

\* One element before a list.
LEMMA Preceded ==
  ASSUME NEW T, NEW x \in T, NEW l \in Seq(T)
  PROVE  LET w == <<x>> \o l
         IN  /\ w \in Seq(T) /\ Len(w) = Len(l) + 1 /\ DOMAIN w = 1 .. Len(l) + 1
             /\ w[1] = x /\ \A i \in 1 .. Len(l) : w[i + 1] = l[i]
             /\ \A i \in 2 .. Len(w) : w[i] = l[i - 1]
  OBVIOUS

LEMMA RefAddedTyped ==
  ASSUME NEW l \in Seq(Ref), NEW addr \in MetaAddr, NEW from \in MetaAddr, NEW type \in {"code", "data"}
  PROVE  data_xrefs_add(l, addr, from, type) \in Seq(Ref)
<1> DEFINE x == [addr |-> addr, from |-> from, type |-> type]
<1>1. x \in Ref
  BY DEF Ref
<1>. HIDE DEF x
<1>2. <<x>> \o l \in Seq(Ref)
  BY <1>1, Preceded
<1>. QED
  BY <1>2 DEF data_xrefs_add, x

LEMMA RefAdded ==
  ASSUME NEW l, RefsGood(l), NEW addr \in MetaAddr, NEW from \in MetaAddr, NEW type \in {"code", "data"}
  PROVE  RefsGood(data_xrefs_add(l, addr, from, type))
<1>1. CASE SameRef(l, addr, from) # {}
  BY <1>1 DEF data_xrefs_add
<1>2. CASE SameRef(l, addr, from) = {}
  <2> DEFINE x == [addr |-> addr, from |-> from, type |-> type]
             w == <<x>> \o l
             n == Len(l)
  <2>1. x \in Ref /\ x.addr = addr /\ x.from = from
    BY DEF Ref
  <2>2. l \in Seq(Ref)
    BY DEF RefsGood
  <2>3. n \in Nat /\ DOMAIN l = 1 .. n
    BY <2>2
  <2>4. data_xrefs_add(l, addr, from, type) = w
    BY <1>2 DEF data_xrefs_add
  <2>. HIDE DEF x
  <2>5. /\ w \in Seq(Ref) /\ DOMAIN w = 1 .. n + 1
        /\ w[1] = x /\ \A i \in 1 .. n : w[i + 1] = l[i]
    BY <2>1, <2>2, Preceded
  <2>. HIDE DEF w, n
  <2>6. \A i \in 2 .. n + 1 : w[i] = l[i - 1] /\ i - 1 \in 1 .. n
    <3> SUFFICES ASSUME NEW i \in 2 .. n + 1 PROVE w[i] = l[i - 1] /\ i - 1 \in 1 .. n
      OBVIOUS
    <3>1. i - 1 \in 1 .. n /\ (i - 1) + 1 = i
      BY <2>3
    <3>. QED
      BY <2>5, <3>1
  <2>7. \A k \in 1 .. n : ~(l[k].addr = addr /\ l[k].from = from)
    BY <1>2, <2>3 DEF SameRef
  <2>8. ASSUME NEW j \in DOMAIN w, NEW k \in DOMAIN w, w[j].addr = w[k].addr /\ w[j].from = w[k].from
        PROVE  j = k
    <3>1. CASE j = 1 /\ k = 1
      BY <3>1
    <3>2. CASE j = 1 /\ k \in 2 .. n + 1
      BY <2>1, <2>5, <2>6, <2>7, <2>8, <3>2
    <3>3. CASE k = 1 /\ j \in 2 .. n + 1
      BY <2>1, <2>5, <2>6, <2>7, <2>8, <3>3
    <3>4. CASE j \in 2 .. n + 1 /\ k \in 2 .. n + 1
      <4>1. j - 1 = k - 1
        BY <2>3, <2>6, <2>8, <3>4 DEF RefsGood
      <4>. QED
        BY <2>3, <3>4, <4>1
    <3>. QED
      BY <2>3, <2>5, <3>1, <3>2, <3>3, <3>4
  <2>. QED
    BY <2>4, <2>5, <2>8 DEF RefsGood
<1>. QED
  BY <1>1, <1>2

\* Reading the references of a project.
ReadsRefs(f, l) ==
  /\ f \in [0 .. Len(l) -> Seq(Ref)] /\ f[0] = <<>>
  /\ \A k \in 1 .. Len(l) : f[k] = IF l[k].type = "code" THEN data_xrefs_add(f[k - 1], l[k].from, l[k].addr, "code") ELSE f[k - 1]

LEMMA RefsUnfold ==
  ASSUME NEW l \in Seq(Ref)
  PROVE  \E f : ReadsRefs(f, l) /\ ReplayedRefs(l) = f[Len(l)]
<1> DEFINE n == Len(l)
           V == Seq(Ref)
           Then(w, k) == IF l[k].type = "code" THEN data_xrefs_add(w, l[k].from, l[k].addr, "code") ELSE w
           Value(h, k) == IF k = 0 THEN <<>> ELSE Then(h[k - 1], k)
           step == [k \in 1 .. n |-> [w \in V |-> Then(w, k)]]
<1>1. n \in Nat /\ <<>> \in V
  OBVIOUS
<1>2. ASSUME NEW k \in 1 .. n, NEW w \in V PROVE Then(w, k) \in V
  <2>1. l[k] \in Ref
    OBVIOUS
  <2>2. l[k].addr \in MetaAddr /\ l[k].from \in MetaAddr
    BY <2>1 DEF Ref
  <2>. QED
    BY <2>2, RefAddedTyped
<1>3. step \in Steps(n, V)
  <2>1. \A k \in 1 .. n : [w \in V |-> Then(w, k)] \in [V -> V]
    BY <1>2
  <2>. HIDE DEF V, Then
  <2>. QED
    BY <2>1 DEF Steps
<1>4. PICK g : Iterates(g, n, V, <<>>, step)
  <2>. HIDE DEF step, n, V
  <2>. QED
    BY <1>1, <1>3, Recursion
<1>5. g \in [0 .. n -> V] /\ g[0] = <<>> /\ \A k \in 1 .. n : g[k] = step[k][g[k - 1]]
  BY <1>4, Zenon DEF Iterates
<1>6. ASSUME NEW k \in 0 .. n PROVE g[k] = Value(g, k)
  <2>1. CASE k = 0
    BY <1>5, <2>1
  <2>2. CASE k # 0
    <3>1. k \in 1 .. n /\ k - 1 \in 0 .. n
      BY <1>1, <2>2
    <3>. HIDE DEF V, Then, n
    <3>2. g[k - 1] \in V
      BY <1>5, <3>1
    <3>. QED
      BY <1>5, <2>2, <3>1, <3>2
  <2>. QED
    BY <2>1, <2>2
<1>7. g = [k \in 0 .. n |-> Value(g, k)]
  <2>. HIDE DEF Value
  <2>. QED
    BY <1>5, <1>6
<1> DEFINE f == CHOOSE f : f = [k \in 0 .. n |-> Value(f, k)]
<1>8. f = [k \in 0 .. n |-> Value(f, k)]
  <2>. HIDE DEF Value
  <2>. QED
    BY <1>7
<1>9. ReplayedRefs(l) = f[n]
  BY Zenon DEF ReplayedRefs
<1>. HIDE DEF f
<1>10. \A k \in 0 .. n : f[k] = Value(f, k)
  <2>. HIDE DEF Value
  <2>. QED
    BY <1>8
<1>11. f[0] = <<>>
  BY <1>1, <1>10
<1>12. ASSUME NEW k \in 1 .. n PROVE f[k] = Then(f[k - 1], k)
  <2>1. k \in 0 .. n /\ k # 0
    BY <1>1
  <2>. HIDE DEF Then
  <2>. QED
    BY <1>10, <2>1
<1>13. \A k \in 0 .. n : f[k] \in V
  <2> DEFINE P == {k \in 0 .. n : f[k] \in V}
  <2>1. 0 \in P
    <3>. HIDE DEF V, n
    <3>. QED
      BY <1>1, <1>11
  <2>2. ASSUME NEW k \in 1 .. n, k - 1 \in P PROVE k \in P
    <3>1. f[k] = Then(f[k - 1], k) /\ f[k - 1] \in V /\ k \in 0 .. n
      BY <1>1, <1>12, <2>2
    <3>. HIDE DEF V, Then
    <3>. QED
      BY <1>2, <3>1
  <2>. HIDE DEF P
  <2>3. \A k \in 0 .. n : k \in P
    BY <1>1, <2>1, <2>2, Climbs
  <2>. QED
    BY <2>3 DEF P
<1>14. f \in [0 .. n -> V]
  <2>. HIDE DEF Value, V
  <2>. QED
    BY <1>8, <1>13
<1>. HIDE DEF Then, Value
<1>15. \A k \in 1 .. n : f[k] = Then(f[k - 1], k)
  BY <1>12
<1>16. ReadsRefs(f, l)
  BY <1>11, <1>14, <1>15 DEF Then, ReadsRefs
<1>. QED
  BY <1>9, <1>16

\* The code references as a project has them: newest last, their ends
\* exchanged.
Swapped(x) == [addr |-> x.from, from |-> x.addr, type |-> "code"]
Backwards(l) == [i \in 1 .. Len(l) |-> Swapped(l[Len(l) + 1 - i])]
DataRefs(l) == {k \in DOMAIN l : l[k].type # "code"}

LEMMA SwappedTyped ==
  ASSUME NEW x \in Ref
  PROVE  /\ Swapped(x) \in Ref /\ Swapped(x).addr = x.from /\ Swapped(x).from = x.addr
         /\ Swapped(x).type = "code"
         /\ x.type = "code" => Swapped(Swapped(x)) = x
  BY DEF Swapped, Ref

LEMMA BackwardsFacts ==
  ASSUME NEW l \in Seq(Ref)
  PROVE  /\ Backwards(l) \in Seq(Ref) /\ Len(Backwards(l)) = Len(l)
         /\ \A i \in 1 .. Len(l) : /\ Backwards(l)[i] = Swapped(l[Len(l) + 1 - i])
                                   /\ Len(l) + 1 - i \in 1 .. Len(l)
<1> DEFINE n == Len(l)
<1>1. n \in Nat /\ \A i \in 1 .. n : l[i] \in Ref
  OBVIOUS
<1>2. \A i \in 1 .. n : n + 1 - i \in 1 .. n
  BY <1>1
<1>3. \A i \in 1 .. n : Swapped(l[n + 1 - i]) \in Ref
  BY <1>1, <1>2, SwappedTyped
<1>. HIDE DEF n
<1>4. [i \in 1 .. n |-> Swapped(l[n + 1 - i])] \in [1 .. n -> Ref]
  BY <1>3
<1>5. Backwards(l) \in [1 .. n -> Ref] /\ \A i \in 1 .. n : Backwards(l)[i] = Swapped(l[n + 1 - i])
  BY <1>4 DEF Backwards, n
<1>. QED
  BY <1>1, <1>2, <1>5 DEF n

LEMMA BackwardsGood ==
  ASSUME NEW l, RefsGood(l)
  PROVE  RefsGood(Backwards(l))
<1> DEFINE n == Len(l)
           w == Backwards(l)
<1>1. l \in Seq(Ref)
  BY DEF RefsGood
<1>2. /\ w \in Seq(Ref) /\ Len(w) = n
      /\ \A i \in 1 .. n : w[i] = Swapped(l[n + 1 - i]) /\ n + 1 - i \in 1 .. n
  BY <1>1, BackwardsFacts
<1>3. n \in Nat /\ DOMAIN w = 1 .. n /\ DOMAIN l = 1 .. n /\ \A i \in 1 .. n : l[i] \in Ref
  BY <1>1, <1>2
<1>. HIDE DEF n, w
<1>4. ASSUME NEW j \in 1 .. n, NEW k \in 1 .. n, w[j].addr = w[k].addr, w[j].from = w[k].from
      PROVE  j = k
  <2>1. /\ l[n + 1 - j].addr = l[n + 1 - k].addr /\ l[n + 1 - j].from = l[n + 1 - k].from
    BY <1>2, <1>3, <1>4, SwappedTyped
  <2>2. n + 1 - j = n + 1 - k
    BY <1>2, <1>3, <2>1 DEF RefsGood
  <2>. QED
    BY <1>3, <2>2
<1>. QED
  BY <1>2, <1>3, <1>4 DEF RefsGood, w

\* A reference more.
LEMMA BackwardsAppend ==
  ASSUME NEW l \in Seq(Ref), NEW x \in Ref
  PROVE  Backwards(Append(l, x)) = <<Swapped(x)>> \o Backwards(l)
<1> DEFINE n == Len(l)
           u == Append(l, x)
           b == Backwards(u)
           w == <<Swapped(x)>> \o Backwards(l)
<1>1. n \in Nat /\ u \in Seq(Ref) /\ Len(u) = n + 1 /\ u[n + 1] = x /\ \A i \in 1 .. n : u[i] = l[i]
  OBVIOUS
<1>2. /\ Backwards(l) \in Seq(Ref) /\ Len(Backwards(l)) = n
      /\ \A i \in 1 .. n : Backwards(l)[i] = Swapped(l[n + 1 - i]) /\ n + 1 - i \in 1 .. n
  BY BackwardsFacts
<1>3. Swapped(x) \in Ref
  BY SwappedTyped
<1>4. /\ w \in Seq(Ref) /\ Len(w) = n + 1 /\ w[1] = Swapped(x)
      /\ \A i \in 2 .. Len(w) : w[i] = Backwards(l)[i - 1]
  BY <1>2, <1>3, Preceded
<1>. HIDE DEF u
<1>5. /\ b \in Seq(Ref) /\ Len(b) = Len(u)
      /\ \A i \in 1 .. Len(u) : b[i] = Swapped(u[Len(u) + 1 - i])
  BY <1>1, BackwardsFacts
<1>. HIDE DEF b, w, n
<1>6. ASSUME NEW i \in 1 .. n + 1 PROVE b[i] = w[i]
  <2>1. b[i] = Swapped(u[n + 2 - i])
    <3>1. (n + 1) + 1 - i = n + 2 - i
      BY <1>1
    <3>. QED
      BY <1>1, <1>5, <3>1
  <2>2. CASE i = 1
    <3>1. n + 2 - i = n + 1
      BY <1>1, <2>2
    <3>. QED
      BY <1>1, <1>4, <2>1, <2>2, <3>1
  <2>3. CASE i # 1
    <3>1. i - 1 \in 1 .. n /\ i \in 2 .. n + 1 /\ n + 1 - (i - 1) = n + 2 - i
      BY <1>1, <2>3
    <3>2. w[i] = Swapped(l[n + 2 - i]) /\ n + 2 - i \in 1 .. n
      BY <1>2, <1>4, <3>1
    <3>. QED
      BY <1>1, <2>1, <3>2
  <2>. QED
    BY <2>2, <2>3
<1>7. b \in Seq(Ref) /\ w \in Seq(Ref) /\ Len(b) = n + 1 /\ Len(w) = n + 1
  BY <1>1, <1>4, <1>5
<1>8. b = w
  BY <1>1, <1>6, <1>7
<1>. QED
  BY <1>8 DEF b, u, w

LEMMA RefsRead ==
  ASSUME NEW l, RefsGood(l)
  PROVE  ReplayedRefs(l) = Backwards(Dropped(l, DataRefs(l)))
<1> DEFINE n == Len(l)
           S == DataRefs(l)
<1>1. l \in Seq(Ref)
  BY DEF RefsGood
<1>2. n \in Nat /\ DOMAIN l = 1 .. n /\ \A k \in 1 .. n : l[k] \in Ref
  BY <1>1
<1>3. PICK f : ReadsRefs(f, l) /\ ReplayedRefs(l) = f[Len(l)]
  BY <1>1, RefsUnfold
<1>4. /\ ReplayedRefs(l) = f[n] /\ f[0] = <<>>
      /\ \A k \in 1 .. n :
           f[k] = IF l[k].type = "code" THEN data_xrefs_add(f[k - 1], l[k].from, l[k].addr, "code")
                  ELSE f[k - 1]
  BY <1>3, Zenon DEF ReadsRefs
<1>5. PICK g : DropsBy(g, Ref, l, S) /\ Dropped(l, S) = g[Len(l)]
  BY <1>1, DroppedUnfolds
<1>6. /\ Dropped(l, S) = g[n] /\ g \in [0 .. n -> Seq(Ref)] /\ g[0] = <<>>
      /\ \A k \in 1 .. n : g[k] = IF k \in S THEN g[k - 1] ELSE Append(g[k - 1], l[k])
  BY <1>5, Zenon DEF DropsBy
<1> DEFINE P == {k \in 0 .. n : /\ f[k] = Backwards(g[k])
                                /\ \A i \in 1 .. Len(g[k]) : \E j \in 1 .. k : g[k][i] = l[j]}
<1>. HIDE DEF n
<1>7. 0 \in P
  <2>1. Backwards(<<>>) = <<>>
    BY DEF Backwards
  <2>. QED
    BY <1>2, <1>4, <1>6, <2>1
<1>8. ASSUME NEW k \in 1 .. n, k - 1 \in P PROVE k \in P
  <2>1. k - 1 \in 0 .. n /\ k \in 0 .. n /\ k \in Nat /\ k - 1 \in Nat /\ l[k] \in Ref
    BY <1>2
  <2> DEFINE p == g[k - 1]
             b == Backwards(p)
  <2>2. f[k - 1] = b /\ \A i \in 1 .. Len(p) : \E j \in 1 .. k - 1 : p[i] = l[j]
    BY <1>8
  <2>3. p \in Seq(Ref)
    BY <1>6, <2>1
  <2>4. CASE l[k].type # "code"
    <3>1. f[k] = f[k - 1] /\ g[k] = g[k - 1]
      BY <1>2, <1>4, <1>6, <2>4 DEF DataRefs
    <3>2. \A i \in 1 .. Len(p) : \E j \in 1 .. k : p[i] = l[j]
      <4>1. 1 .. k - 1 \subseteq 1 .. k
        BY <2>1
      <4>. QED
        BY <2>2, <4>1
    <3>. QED
      BY <2>1, <2>2, <3>1, <3>2
  <2>5. CASE l[k].type = "code"
    <3>1. g[k] = Append(p, l[k]) /\ f[k] = data_xrefs_add(b, l[k].from, l[k].addr, "code")
      BY <1>2, <1>4, <1>6, <2>2, <2>5 DEF DataRefs
    <3>. HIDE DEF p
    <3>2. /\ b \in Seq(Ref) /\ Len(b) = Len(p) /\ Len(p) \in Nat /\ DOMAIN b = 1 .. Len(p)
          /\ \A i \in 1 .. Len(p) : b[i] = Swapped(p[Len(p) + 1 - i]) /\ Len(p) + 1 - i \in 1 .. Len(p)
      BY <2>3, BackwardsFacts
    <3>. HIDE DEF b
    <3>3. SameRef(b, l[k].from, l[k].addr) = {}
      <4> SUFFICES ASSUME NEW i \in 1 .. Len(p), b[i].addr = l[k].from, b[i].from = l[k].addr PROVE FALSE
        BY <3>2 DEF SameRef
      <4> DEFINE m == Len(p) + 1 - i
      <4>1. b[i] = Swapped(p[m]) /\ m \in 1 .. Len(p)
        BY <3>2
      <4>. HIDE DEF m
      <4>2. PICK j \in 1 .. k - 1 : p[m] = l[j]
        BY <2>2, <4>1
      <4>3. j \in 1 .. n /\ j # k /\ l[j] \in Ref
        BY <1>2, <2>1
      <4>4. l[j].addr = l[k].addr /\ l[j].from = l[k].from
        BY <4>1, <4>2, <4>3, SwappedTyped
      <4>. QED
        BY <1>2, <4>3, <4>4 DEF RefsGood
    <3>4. f[k] = <<Swapped(l[k])>> \o b
      BY <3>1, <3>3 DEF data_xrefs_add, Swapped
    <3>5. f[k] = Backwards(g[k])
      BY <2>1, <2>3, <3>1, <3>4, BackwardsAppend DEF b
    <3>6. ASSUME NEW i \in 1 .. Len(g[k]) PROVE \E j \in 1 .. k : g[k][i] = l[j]
      <4>1. Len(g[k]) = Len(p) + 1 /\ Len(p) \in Nat /\ g[k][Len(p) + 1] = l[k]
            /\ \A x \in 1 .. Len(p) : g[k][x] = p[x]
        BY <2>1, <2>3, <3>1
      <4>2. CASE i = Len(p) + 1
        BY <2>1, <4>1, <4>2
      <4>3. CASE i \in 1 .. Len(p)
        <5>1. PICK j \in 1 .. k - 1 : p[i] = l[j]
          BY <2>2, <4>3
        <5>2. j \in 1 .. k
          BY <2>1
        <5>. QED
          BY <4>1, <4>3, <5>1, <5>2
      <4>. QED
        BY <4>1, <4>2, <4>3
    <3>. QED
      BY <2>1, <3>5, <3>6
  <2>. QED
    BY <2>4, <2>5
<1>9. \A k \in 0 .. n : k \in P
  <2>. HIDE DEF P
  <2>. QED
    BY <1>2, <1>7, <1>8, Climbs
<1>10. f[n] = Backwards(g[n])
  BY <1>2, <1>9
<1>. QED
  BY <1>4, <1>6, <1>10

\* A project that is read twice has the code references as they were.
LEMMA RefsTwice ==
  ASSUME NEW l, RefsGood(l)
  PROVE  /\ RefsGood(ReplayedRefs(l))
         /\ ReplayedRefs(ReplayedRefs(l)) = Dropped(l, DataRefs(l))
<1> DEFINE c == Dropped(l, DataRefs(l))
           b == Backwards(c)
           n == Len(c)
<1>1. RefsGood(c)
  BY DroppedRefs
<1>2. l \in Seq(Ref) /\ c \in Seq(Ref)
  BY <1>1 DEF RefsGood
<1>3. \A i \in DOMAIN c : \E k \in DOMAIN l \ DataRefs(l) : c[i] = l[k]
  BY <1>2, DroppedElements
<1>. HIDE DEF c
<1>4. n \in Nat /\ DOMAIN c = 1 .. n /\ \A i \in 1 .. n : c[i] \in Ref
  BY <1>2
<1>5. \A i \in 1 .. n : c[i].type = "code"
  BY <1>3, <1>4 DEF DataRefs
<1>6. /\ b \in Seq(Ref) /\ Len(b) = n
      /\ \A i \in 1 .. n : b[i] = Swapped(c[n + 1 - i]) /\ n + 1 - i \in 1 .. n
  BY <1>2, BackwardsFacts
<1>7. RefsGood(b)
  BY <1>1, BackwardsGood
<1>8. ReplayedRefs(l) = b
  BY RefsRead DEF c
<1>. HIDE DEF b, n
<1>9. DOMAIN b = 1 .. n
  BY <1>4, <1>6
<1>10. DataRefs(b) = {}
  BY <1>4, <1>6, <1>9, SwappedTyped DEF DataRefs
<1>11. Dropped(b, DataRefs(b)) = b
  BY <1>6, <1>10, DroppedNothing
<1>12. ReplayedRefs(b) = Backwards(b)
  BY <1>7, <1>11, RefsRead
<1>13. /\ Backwards(b) \in Seq(Ref) /\ Len(Backwards(b)) = n
       /\ \A i \in 1 .. n : Backwards(b)[i] = Swapped(b[n + 1 - i]) /\ n + 1 - i \in 1 .. n
  BY <1>6, BackwardsFacts
<1>14. ASSUME NEW i \in 1 .. n PROVE Backwards(b)[i] = c[i]
  <2>1. n + 1 - i \in 1 .. n /\ n + 1 - (n + 1 - i) = i
    BY <1>4
  <2>2. b[n + 1 - i] = Swapped(c[i])
    BY <1>6, <2>1
  <2>. QED
    BY <1>4, <1>5, <1>13, <2>2, SwappedTyped
<1>15. Backwards(b) = c
  <2>1. Len(c) = n
    BY DEF n
  <2>. QED
    BY <1>2, <1>4, <1>13, <1>14, <2>1
<1>. QED
  BY <1>7, <1>8, <1>12, <1>15 DEF c

\* Items.
Item == {d \in [from : Nat, to : Nat, type : ItemType] : d.from <= d.to}
Cursor == [mode : BOOLEAN, cursor : Nat, ocursor : Nat \union {-1}]

LEMMA NoCursorTyped == NoCursor \in Cursor
  BY DEF NoCursor, Cursor

LEMMA LenOfTyped == ASSUME NEW n \in Int PROVE LenOf(n) \in Nat
  BY DEF LenOf

LEMMA NewItemTyped ==
  ASSUME NEW off \in Nat, NEW type \in ItemType, NEW len \in Nat, NEW cur \in Cursor, NEW seek \in Nat
  PROVE  NewItem(off, type, len, cur, seek) \in Item
<1> DEFINE from == IF cur.mode THEN off + cur.cursor ELSE off
           to == IF ~cur.mode THEN off + len
                 ELSE IF cur.ocursor # -1 THEN seek + cur.ocursor ELSE off + 1
<1>1. cur.cursor \in Nat /\ (cur.ocursor \in Nat \/ cur.ocursor = -1)
  BY DEF Cursor
<1>2. from \in Nat /\ to \in Nat
  BY <1>1
<1>3. NewItem(off, type, len, cur, seek) =
        [from |-> IF to < from THEN to ELSE from, to |-> IF to < from THEN from ELSE to, type |-> type]
  BY DEF NewItem
<1>. HIDE DEF from, to
<1>. QED
  BY <1>2, <1>3 DEF Item

LEMMA AddTyped ==
  ASSUME NEW l \in Seq(Item), NEW off \in Nat, NEW type \in ItemType \union {"code"}, NEW len \in Nat,
         NEW cur \in Cursor, NEW seek \in Nat
  PROVE  data_add(l, off, type, len, cur, seek) \in Seq(Item)
<1> DEFINE rest == Dropped(l, Holds(l, off))
           d == NewItem(off, type, len, cur, seek)
<1>1. rest \in Seq(Item)
  BY DroppedFacts
<1>2. CASE type = "code"
  BY <1>1, <1>2 DEF data_add
<1>3. CASE type # "code"
  <2>1. d \in Item
    BY <1>3, NewItemTyped
  <2>2. data_add(l, off, type, len, cur, seek) = <<d>> \o rest
    BY <1>3 DEF data_add
  <2>. HIDE DEF d, rest
  <2>3. <<d>> \o rest \in Seq(Item)
    BY <1>1, <2>1, Preceded
  <2>. QED
    BY <2>2, <2>3
<1>. QED
  BY <1>2, <1>3

LEMMA ReachesTyped ==
  ASSUME NEW l \in Seq(Item), NEW a
  PROVE  /\ Reaches(l, a) \subseteq DOMAIN l
         /\ Reaches(l, a) # {} => /\ Earliest(Reaches(l, a)) \in Reaches(l, a)
                                  /\ \A k \in Reaches(l, a) : Earliest(Reaches(l, a)) <= k
<1>1. Reaches(l, a) \subseteq DOMAIN l /\ Reaches(l, a) \subseteq Nat
  BY DEF Reaches
<1>. QED
  BY <1>1, EarliestFacts

LEMMA SetLenTyped ==
  ASSUME NEW l \in Seq(Item), NEW a, NEW len \in Nat
  PROVE  data_set_len(l, a, len) \in Seq(Item)
<1> DEFINE k == Earliest(Reaches(l, a))
           d == [l[k] EXCEPT !.to = l[k].from + len]
<1>1. CASE Reaches(l, a) = {}
  BY <1>1 DEF data_set_len
<1>2. CASE Reaches(l, a) # {}
  <2>1. k \in DOMAIN l
    BY <1>2, ReachesTyped
  <2>2. l[k] \in Item
    BY <2>1
  <2>3. data_set_len(l, a, len) = [l EXCEPT ![k] = d]
    BY <1>2 DEF data_set_len
  <2>4. d \in Item
    <3> DEFINE r == l[k]
    <3>1. r \in [from : Nat, to : Nat, type : ItemType]
      BY <2>2 DEF Item
    <3>. HIDE DEF r
    <3>2. /\ r.from + len \in Nat /\ r.from <= r.from + len
      BY <3>1
    <3>3. /\ [r EXCEPT !.to = r.from + len] \in [from : Nat, to : Nat, type : ItemType]
          /\ [r EXCEPT !.to = r.from + len].from = r.from
          /\ [r EXCEPT !.to = r.from + len].to = r.from + len
      BY <3>1, <3>2
    <3>4. [r EXCEPT !.to = r.from + len] \in Item
      BY <3>2, <3>3 DEF Item
    <3>. QED
      BY <3>4 DEF r
  <2>. HIDE DEF d, k
  <2>. QED
    BY <2>1, <2>3, <2>4
<1>. QED
  BY <1>1, <1>2

LEMMA SetTyped ==
  ASSUME NEW l \in Seq(Item), NEW a, NEW type \in ItemType
  PROVE  data_set(l, a, type) \in Seq(Item)
<1> DEFINE k == Earliest(Reaches(l, a))
           d == [l[k] EXCEPT !.type = type]
<1>1. CASE Reaches(l, a) = {}
  BY <1>1 DEF data_set
<1>2. CASE Reaches(l, a) # {}
  <2>1. k \in DOMAIN l
    BY <1>2, ReachesTyped
  <2>2. l[k] \in Item
    BY <2>1
  <2>3. data_set(l, a, type) = [l EXCEPT ![k] = d]
    BY <1>2 DEF data_set
  <2>4. d \in Item
    <3>. HIDE DEF k
    <3>. QED
      BY <2>2 DEF Item
  <2>. HIDE DEF d, k
  <2>. QED
    BY <2>1, <2>3, <2>4
<1>. QED
  BY <1>1, <1>2

LEMMA SelLenTyped ==
  ASSUME NEW cur \in Cursor
  PROVE  SelLen(cur) \in Nat
<1>1. cur.cursor \in Nat /\ cur.ocursor \in Int
  BY DEF Cursor
<1>. QED
  BY <1>1 DEF SelLen

LEMMA ConvertTyped ==
  ASSUME NEW l \in Seq(Item), NEW seek \in Nat, NEW type \in ItemType \union {"code"}, NEW len \in Nat,
         NEW cur \in Cursor, SelStart(seek, cur) >= 0
  PROVE  visual_convert_bytes(l, seek, type, len, cur) \in Seq(Item)
<1>1. cur.cursor \in Nat /\ cur.ocursor \in Int
  BY DEF Cursor
<1>2. SelStart(seek, cur) \in Nat
  BY <1>1 DEF SelStart
<1> DEFINE new == data_add(l, SelStart(seek, cur), type, len, cur, seek)
<1>3. new \in Seq(Item)
  BY <1>2, AddTyped
<1>4. data_set_len(new, SelStart(seek, cur), SelLen(cur)) \in Seq(Item)
  BY <1>3, SelLenTyped, SetLenTyped
<1>. QED
  BY <1>3, <1>4 DEF visual_convert_bytes

\* Reading the data references of a project, which makes items.
ReadsRefItems(f, l) ==
  /\ f \in [0 .. Len(l) -> Seq(Item)] /\ f[0] = <<>>
  /\ \A k \in 1 .. Len(l) : f[k] = IF l[k].type = "data" THEN data_add(f[k - 1], l[k].addr, "hex", LenOf(l[k].from), NoCursor, l[k].addr) ELSE f[k - 1]

LEMMA RefItemsUnfold ==
  ASSUME NEW l \in Seq(Ref)
  PROVE  \E f : ReadsRefItems(f, l) /\ ItemsOfRefs(l) = f[Len(l)]
<1> DEFINE n == Len(l)
           V == Seq(Item)
           Then(w, k) == IF l[k].type = "data" THEN data_add(w, l[k].addr, "hex", LenOf(l[k].from), NoCursor, l[k].addr) ELSE w
           Value(h, k) == IF k = 0 THEN <<>> ELSE Then(h[k - 1], k)
           step == [k \in 1 .. n |-> [w \in V |-> Then(w, k)]]
<1>1. n \in Nat /\ <<>> \in V
  OBVIOUS
<1>2. ASSUME NEW k \in 1 .. n, NEW w \in V PROVE Then(w, k) \in V
  <2>1. l[k] \in Ref
    OBVIOUS
  <2>2. l[k].addr \in Nat /\ l[k].from \in Nat
    BY <2>1, MetaAssumption DEF Ref, MetaAddr
  <2>3. LenOf(l[k].from) \in Nat
    BY <2>2 DEF LenOf
  <2>4. "hex" \in ItemType \union {"code"}
    BY DEF ItemType
  <2>. QED
    BY <2>2, <2>3, <2>4, AddTyped, NoCursorTyped
<1>3. step \in Steps(n, V)
  <2>1. \A k \in 1 .. n : [w \in V |-> Then(w, k)] \in [V -> V]
    BY <1>2
  <2>. HIDE DEF V, Then
  <2>. QED
    BY <2>1 DEF Steps
<1>4. PICK g : Iterates(g, n, V, <<>>, step)
  <2>. HIDE DEF step, n, V
  <2>. QED
    BY <1>1, <1>3, Recursion
<1>5. g \in [0 .. n -> V] /\ g[0] = <<>> /\ \A k \in 1 .. n : g[k] = step[k][g[k - 1]]
  BY <1>4, Zenon DEF Iterates
<1>6. ASSUME NEW k \in 0 .. n PROVE g[k] = Value(g, k)
  <2>1. CASE k = 0
    BY <1>5, <2>1
  <2>2. CASE k # 0
    <3>1. k \in 1 .. n /\ k - 1 \in 0 .. n
      BY <1>1, <2>2
    <3>. HIDE DEF V, Then, n
    <3>2. g[k - 1] \in V
      BY <1>5, <3>1
    <3>. QED
      BY <1>5, <2>2, <3>1, <3>2
  <2>. QED
    BY <2>1, <2>2
<1>7. g = [k \in 0 .. n |-> Value(g, k)]
  <2>. HIDE DEF Value
  <2>. QED
    BY <1>5, <1>6
<1> DEFINE f == CHOOSE f : f = [k \in 0 .. n |-> Value(f, k)]
<1>8. f = [k \in 0 .. n |-> Value(f, k)]
  <2>. HIDE DEF Value
  <2>. QED
    BY <1>7
<1>9. ItemsOfRefs(l) = f[n]
  BY Zenon DEF ItemsOfRefs
<1>. HIDE DEF f
<1>10. \A k \in 0 .. n : f[k] = Value(f, k)
  <2>. HIDE DEF Value
  <2>. QED
    BY <1>8
<1>11. f[0] = <<>>
  BY <1>1, <1>10
<1>12. ASSUME NEW k \in 1 .. n PROVE f[k] = Then(f[k - 1], k)
  <2>1. k \in 0 .. n /\ k # 0
    BY <1>1
  <2>. HIDE DEF Then
  <2>. QED
    BY <1>10, <2>1
<1>13. \A k \in 0 .. n : f[k] \in V
  <2> DEFINE P == {k \in 0 .. n : f[k] \in V}
  <2>1. 0 \in P
    <3>. HIDE DEF V, n
    <3>. QED
      BY <1>1, <1>11
  <2>2. ASSUME NEW k \in 1 .. n, k - 1 \in P PROVE k \in P
    <3>1. f[k] = Then(f[k - 1], k) /\ f[k - 1] \in V /\ k \in 0 .. n
      BY <1>1, <1>12, <2>2
    <3>. HIDE DEF V, Then
    <3>. QED
      BY <1>2, <3>1
  <2>. HIDE DEF P
  <2>3. \A k \in 0 .. n : k \in P
    BY <1>1, <2>1, <2>2, Climbs
  <2>. QED
    BY <2>3 DEF P
<1>14. f \in [0 .. n -> V]
  <2>. HIDE DEF Value, V
  <2>. QED
    BY <1>8, <1>13
<1>. HIDE DEF Then, Value
<1>15. \A k \in 1 .. n : f[k] = Then(f[k - 1], k)
  BY <1>12
<1>16. ReadsRefItems(f, l)
  BY <1>11, <1>14, <1>15 DEF Then, ReadsRefItems
<1>. QED
  BY <1>9, <1>16

\* Reading the items of a project.
ReadsItems(f, start, l) ==
  /\ f \in [0 .. Len(l) -> Seq(Item)] /\ f[0] = start
  /\ \A k \in 1 .. Len(l) : f[k] = data_add(f[k - 1], l[k].from, l[k].type, LenOf(l[k].to - l[k].from), NoCursor, l[k].from)

LEMMA ItemsUnfold ==
  ASSUME NEW start \in Seq(Item), NEW l \in Seq(Item)
  PROVE  \E f : ReadsItems(f, start, l) /\ ReplayedItems(start, l) = f[Len(l)]
<1> DEFINE n == Len(l)
           V == Seq(Item)
           Then(w, k) == data_add(w, l[k].from, l[k].type, LenOf(l[k].to - l[k].from), NoCursor, l[k].from)
           Value(h, k) == IF k = 0 THEN start ELSE Then(h[k - 1], k)
           step == [k \in 1 .. n |-> [w \in V |-> Then(w, k)]]
<1>1. n \in Nat /\ start \in V
  OBVIOUS
<1>2. ASSUME NEW k \in 1 .. n, NEW w \in V PROVE Then(w, k) \in V
  <2>1. l[k] \in Item
    OBVIOUS
  <2>2. l[k].from \in Nat /\ l[k].type \in ItemType /\ l[k].to - l[k].from \in Int
    BY <2>1 DEF Item
  <2>. QED
    BY <2>2, AddTyped, LenOfTyped, NoCursorTyped
<1>3. step \in Steps(n, V)
  <2>1. \A k \in 1 .. n : [w \in V |-> Then(w, k)] \in [V -> V]
    BY <1>2
  <2>. HIDE DEF V, Then
  <2>. QED
    BY <2>1 DEF Steps
<1>4. PICK g : Iterates(g, n, V, start, step)
  <2>. HIDE DEF step, n, V
  <2>. QED
    BY <1>1, <1>3, Recursion
<1>5. g \in [0 .. n -> V] /\ g[0] = start /\ \A k \in 1 .. n : g[k] = step[k][g[k - 1]]
  BY <1>4, Zenon DEF Iterates
<1>6. ASSUME NEW k \in 0 .. n PROVE g[k] = Value(g, k)
  <2>1. CASE k = 0
    BY <1>5, <2>1
  <2>2. CASE k # 0
    <3>1. k \in 1 .. n /\ k - 1 \in 0 .. n
      BY <1>1, <2>2
    <3>. HIDE DEF V, Then, n
    <3>2. g[k - 1] \in V
      BY <1>5, <3>1
    <3>. QED
      BY <1>5, <2>2, <3>1, <3>2
  <2>. QED
    BY <2>1, <2>2
<1>7. g = [k \in 0 .. n |-> Value(g, k)]
  <2>. HIDE DEF Value
  <2>. QED
    BY <1>5, <1>6
<1> DEFINE f == CHOOSE f : f = [k \in 0 .. n |-> Value(f, k)]
<1>8. f = [k \in 0 .. n |-> Value(f, k)]
  <2>. HIDE DEF Value
  <2>. QED
    BY <1>7
<1>9. ReplayedItems(start, l) = f[n]
  BY Zenon DEF ReplayedItems
<1>. HIDE DEF f
<1>10. \A k \in 0 .. n : f[k] = Value(f, k)
  <2>. HIDE DEF Value
  <2>. QED
    BY <1>8
<1>11. f[0] = start
  BY <1>1, <1>10
<1>12. ASSUME NEW k \in 1 .. n PROVE f[k] = Then(f[k - 1], k)
  <2>1. k \in 0 .. n /\ k # 0
    BY <1>1
  <2>. HIDE DEF Then
  <2>. QED
    BY <1>10, <2>1
<1>13. \A k \in 0 .. n : f[k] \in V
  <2> DEFINE P == {k \in 0 .. n : f[k] \in V}
  <2>1. 0 \in P
    <3>. HIDE DEF V, n
    <3>. QED
      BY <1>1, <1>11
  <2>2. ASSUME NEW k \in 1 .. n, k - 1 \in P PROVE k \in P
    <3>1. f[k] = Then(f[k - 1], k) /\ f[k - 1] \in V /\ k \in 0 .. n
      BY <1>1, <1>12, <2>2
    <3>. HIDE DEF V, Then
    <3>. QED
      BY <1>2, <3>1
  <2>. HIDE DEF P
  <2>3. \A k \in 0 .. n : k \in P
    BY <1>1, <2>1, <2>2, Climbs
  <2>. QED
    BY <2>3 DEF P
<1>14. f \in [0 .. n -> V]
  <2>. HIDE DEF Value, V
  <2>. QED
    BY <1>8, <1>13
<1>. HIDE DEF Then, Value
<1>15. \A k \in 1 .. n : f[k] = Then(f[k - 1], k)
  BY <1>12
<1>16. ReadsItems(f, start, l)
  BY <1>11, <1>14, <1>15 DEF Then, ReadsItems
<1>. QED
  BY <1>9, <1>16

\* An item read from a project has the bounds it had, but at least a byte.
LEMMA WholeFacts ==
  ASSUME NEW d \in Item
  PROVE  /\ NewItem(d.from, d.type, LenOf(d.to - d.from), NoCursor, d.from) = Whole(d)
         /\ Whole(d) \in Item /\ Whole(d).from = d.from /\ d.type # "code"
<1>1. /\ d \in [from : Nat, to : Nat, type : ItemType] /\ d.from <= d.to
      /\ d.from \in Nat /\ d.to \in Nat /\ d.type \in ItemType
  BY DEF Item
<1> DEFINE t == IF d.to = d.from THEN d.from + 1 ELSE d.to
<1>2. t \in Nat /\ d.from <= t /\ d.from + LenOf(d.to - d.from) = t
  BY <1>1 DEF LenOf
<1>3. Whole(d) = [d EXCEPT !.to = t]
  BY DEF Whole
<1>. HIDE DEF t
<1>4. [d EXCEPT !.to = t] = [from |-> d.from, to |-> t, type |-> d.type]
  BY <1>1
<1>5. [from |-> d.from, to |-> t, type |-> d.type] \in Item
  BY <1>1, <1>2 DEF Item
<1>6. NoCursor.mode = FALSE
  BY DEF NoCursor
<1>7. ~(t < d.from)
  BY <1>1, <1>2
<1>8. NewItem(d.from, d.type, LenOf(d.to - d.from), NoCursor, d.from) =
        [from |-> d.from, to |-> t, type |-> d.type]
  BY <1>2, <1>6, <1>7 DEF NewItem
<1>9. d.type # "code"
  BY <1>1 DEF ItemType
<1>. QED
  BY <1>3, <1>4, <1>5, <1>8, <1>9

Covered(y, a) == y.from <= a /\ a < y.to

LEMMA AddElements ==
  ASSUME NEW l \in Seq(Item), NEW d \in Item
  PROVE  Elements(data_add(l, d.from, d.type, LenOf(d.to - d.from), NoCursor, d.from)) =
           {Whole(d)} \union {y \in Elements(l) : ~Covered(y, d.from)}
<1> DEFINE S == Holds(l, d.from)
           rest == Dropped(l, S)
           x == Whole(d)
           w == <<x>> \o rest
<1>1. data_add(l, d.from, d.type, LenOf(d.to - d.from), NoCursor, d.from) = w
  BY WholeFacts DEF data_add
<1>2. x \in Item
  BY WholeFacts
<1>3. /\ rest \in Seq(Item)
      /\ \A i \in DOMAIN rest : \E k \in DOMAIN l \ S : rest[i] = l[k]
      /\ \A k \in DOMAIN l \ S : \E i \in DOMAIN rest : rest[i] = l[k]
  BY DroppedElements
<1>4. \A k \in DOMAIN l : k \in S <=> Covered(l[k], d.from)
  BY DEF Holds, Covered
<1>. HIDE DEF S, rest, x
<1>5. Elements(rest) = {y \in Elements(l) : ~Covered(y, d.from)}
  BY <1>3, <1>4 DEF Elements
<1>6. /\ DOMAIN w = 1 .. Len(rest) + 1 /\ w[1] = x /\ \A i \in 1 .. Len(rest) : w[i + 1] = rest[i]
  BY <1>2, <1>3, Preceded
<1>7. Len(rest) \in Nat /\ DOMAIN rest = 1 .. Len(rest)
  BY <1>3
<1>. HIDE DEF w
<1>8. Elements(w) = {x} \union Elements(rest)
  <2>1. ASSUME NEW i \in DOMAIN w PROVE w[i] \in {x} \union Elements(rest)
    <3>1. CASE i = 1
      BY <1>6, <3>1
    <3>2. CASE i # 1
      <4>1. i - 1 \in 1 .. Len(rest) /\ (i - 1) + 1 = i
        BY <1>6, <1>7, <3>2
      <4>2. w[i] = rest[i - 1]
        BY <1>6, <4>1
      <4>. QED
        BY <1>7, <4>1, <4>2 DEF Elements
    <3>. QED
      BY <3>1, <3>2
  <2>2. ASSUME NEW i \in DOMAIN rest PROVE rest[i] \in Elements(w)
    <3>1. i + 1 \in DOMAIN w /\ w[i + 1] = rest[i]
      BY <1>6, <1>7
    <3>. QED
      BY <3>1 DEF Elements
  <2>3. x \in Elements(w)
    <3>1. 1 \in DOMAIN w
      BY <1>6, <1>7
    <3>. QED
      BY <1>6, <3>1 DEF Elements
  <2>. QED
    BY <2>1, <2>2, <2>3 DEF Elements
<1>. QED
  BY <1>1, <1>5, <1>8 DEF x

\* The items of a project that no later one, read with its start inside them,
\* replaces.
LEMMA ItemsRead ==
  ASSUME NEW l \in Seq(Item)
  PROVE  Elements(ReplayedItems(<<>>, l)) =
           {Whole(l[k]) : k \in {k \in DOMAIN l : \A j \in k + 1 .. Len(l) :
                                   l[j].from \notin l[k].from .. Whole(l[k]).to - 1}}
<1> DEFINE n == Len(l)
           Kept(m) == {k \in 1 .. m : \A j \in k + 1 .. m : l[j].from \notin l[k].from .. Whole(l[k]).to - 1}
           Of(m) == {Whole(l[k]) : k \in Kept(m)}
<1>1. n \in Nat /\ DOMAIN l = 1 .. n /\ \A k \in 1 .. n : l[k] \in Item
  OBVIOUS
<1>2. <<>> \in Seq(Item)
  OBVIOUS
<1>3. PICK f : ReadsItems(f, <<>>, l) /\ ReplayedItems(<<>>, l) = f[Len(l)]
  BY <1>2, ItemsUnfold
<1>4. /\ ReplayedItems(<<>>, l) = f[n] /\ f \in [0 .. n -> Seq(Item)] /\ f[0] = <<>>
      /\ \A k \in 1 .. n :
           f[k] = data_add(f[k - 1], l[k].from, l[k].type, LenOf(l[k].to - l[k].from), NoCursor, l[k].from)
  BY <1>3, Zenon DEF ReadsItems
<1>5. \A k \in 1 .. n : /\ Whole(l[k]) \in Item /\ Whole(l[k]).from = l[k].from
                        /\ l[k].from \in Nat /\ Whole(l[k]).to \in Nat
  <2> SUFFICES ASSUME NEW k \in 1 .. n
               PROVE  /\ Whole(l[k]) \in Item /\ Whole(l[k]).from = l[k].from
                      /\ l[k].from \in Nat /\ Whole(l[k]).to \in Nat
    OBVIOUS
  <2>1. l[k] \in Item
    BY <1>1
  <2>2. Whole(l[k]) \in Item /\ Whole(l[k]).from = l[k].from
    BY <2>1, WholeFacts
  <2>. QED
    BY <2>1, <2>2 DEF Item
<1> DEFINE P == {k \in 0 .. n : Elements(f[k]) = Of(k)}
<1>. HIDE DEF n
<1>6. 0 \in P
  BY <1>1, <1>4 DEF Elements
<1>7. ASSUME NEW k \in 1 .. n, k - 1 \in P PROVE k \in P
  <2>1. k - 1 \in 0 .. n /\ k \in 0 .. n /\ k \in Nat /\ k - 1 \in Nat /\ l[k] \in Item
    BY <1>1
  <2>2. f[k - 1] \in Seq(Item) /\ Elements(f[k - 1]) = Of(k - 1)
    BY <1>4, <1>7, <2>1
  <2>3. Elements(f[k]) = {Whole(l[k])} \union {y \in Of(k - 1) : ~Covered(y, l[k].from)}
    BY <1>4, <2>1, <2>2, AddElements
  <2>4. \A i \in 1 .. k - 1 : Covered(Whole(l[i]), l[k].from) <=>
                               l[k].from \in l[i].from .. Whole(l[i]).to - 1
    <3> SUFFICES ASSUME NEW i \in 1 .. k - 1
                 PROVE  Covered(Whole(l[i]), l[k].from) <=> l[k].from \in l[i].from .. Whole(l[i]).to - 1
      OBVIOUS
    <3>1. i \in 1 .. n
      BY <1>1, <2>1
    <3>2. Whole(l[i]).from = l[i].from /\ l[i].from \in Nat /\ Whole(l[i]).to \in Nat /\ l[k].from \in Nat
      BY <1>5, <3>1
    <3>. QED
      BY <3>2 DEF Covered
  <2>5. Kept(k) = {k} \union {i \in Kept(k - 1) : l[k].from \notin l[i].from .. Whole(l[i]).to - 1}
    <3>1. k \in Kept(k)
      BY <2>1
    <3>2. ASSUME NEW i \in 1 .. k - 1
          PROVE  i \in Kept(k) <=>
                   i \in Kept(k - 1) /\ l[k].from \notin l[i].from .. Whole(l[i]).to - 1
      <4>1. i + 1 .. k = (i + 1 .. k - 1) \union {k}
        BY <2>1
      <4>2. i \in 1 .. k
        BY <2>1
      <4>. QED
        BY <4>1, <4>2
    <3>3. Kept(k) \subseteq (1 .. k - 1) \union {k} /\ Kept(k - 1) \subseteq 1 .. k - 1
      BY <2>1
    <3>. HIDE DEF Kept
    <3>. QED
      BY <3>1, <3>2, <3>3
  <2>6. Kept(k - 1) \subseteq 1 .. k - 1
    OBVIOUS
  <2>. HIDE DEF Kept
  <2>7. Of(k) = {Whole(l[k])} \union {y \in Of(k - 1) : ~Covered(y, l[k].from)}
    BY <2>4, <2>5, <2>6
  <2>. QED
    BY <2>1, <2>3, <2>7
<1>8. \A k \in 0 .. n : k \in P
  <2>. HIDE DEF P
  <2>. QED
    BY <1>1, <1>6, <1>7, Climbs
<1>9. Elements(f[n]) = Of(n)
  <2>. HIDE DEF Of
  <2>1. n \in P
    BY <1>1, <1>8
  <2>. QED
    BY <2>1
<1>10. Of(n) = {Whole(l[k]) : k \in {k \in DOMAIN l : \A j \in k + 1 .. Len(l) :
                                   l[j].from \notin l[k].from .. Whole(l[k]).to - 1}}
  BY <1>1 DEF n
<1>. QED
  BY <1>4, <1>9, <1>10

\* What converting a selection makes of the new item of data_add: data_set_len
\* sets its length if the item holds or ends at the start that was computed.
LEMMA SelectionMade ==
  ASSUME NEW l \in Seq(Item), NEW seek \in Nat, NEW cur \in Cursor, cur.mode, cur.ocursor \in Nat
  PROVE  LET w == visual_convert_bytes(l, seek, "hex", 1, cur)
             off == SelStart(seek, cur)
             d == NewItem(off, "hex", 1, cur, seek)
         IN  /\ d.from <= off /\ off <= d.to =>
                  /\ w[1] = [from |-> d.from, to |-> d.from + SelLen(cur), type |-> "hex"]
                  /\ \A k \in 2 .. Len(w) : \E j \in DOMAIN l :
                       l[j] = w[k] /\ off \notin w[k].from .. w[k].to - 1
             /\ off < d.from => w[1] = d
<1> DEFINE off == SelStart(seek, cur)
           S == Holds(l, off)
           rest == Dropped(l, S)
           d == NewItem(off, "hex", 1, cur, seek)
           new == <<d>> \o rest
           w == visual_convert_bytes(l, seek, "hex", 1, cur)
<1>1. cur.cursor \in Nat /\ off \in Nat
  BY DEF Cursor, SelStart
<1>2. d \in Item /\ d.type = "hex"
  <2>1. "hex" \in ItemType /\ 1 \in Nat
    BY DEF ItemType
  <2>. HIDE DEF off
  <2>2. d.type = "hex"
    BY DEF NewItem
  <2>3. d \in Item
    BY <1>1, <2>1, NewItemTyped
  <2>. QED
    BY <2>2, <2>3
<1>3. data_add(l, off, "hex", 1, cur, seek) = new
  BY DEF data_add
<1>4. w = data_set_len(new, off, SelLen(cur))
  BY <1>3 DEF visual_convert_bytes
<1>. HIDE DEF w, off
<1>5. /\ rest \in Seq(Item)
      /\ \A i \in DOMAIN rest : \E k \in DOMAIN l \ S : rest[i] = l[k]
  BY DroppedElements
<1>. HIDE DEF d, rest
<1>6. d.from \in Nat /\ d.to \in Nat
  BY <1>2 DEF Item
<1>7. Len(rest) \in Nat /\ DOMAIN rest = 1 .. Len(rest)
  BY <1>5
<1>8. /\ new \in Seq(Item) /\ DOMAIN new = 1 .. Len(rest) + 1 /\ new[1] = d
      /\ \A i \in 1 .. Len(rest) : new[i + 1] = rest[i]
  BY <1>2, <1>5, Preceded
<1>. HIDE DEF new
<1>9. Reaches(new, off) \subseteq 1 .. Len(rest) + 1
      /\ (1 \in Reaches(new, off) <=> d.from <= off /\ off <= d.to)
  BY <1>7, <1>8 DEF Reaches
<1>10. ASSUME off < d.from PROVE w[1] = d
  <2>1. CASE Reaches(new, off) = {}
    BY <1>4, <1>8, <2>1 DEF data_set_len
  <2>2. CASE Reaches(new, off) # {}
    <3> DEFINE k == Earliest(Reaches(new, off))
    <3>1. k \in Reaches(new, off)
      BY <1>8, <2>2, ReachesTyped
    <3>2. k # 1
      BY <1>1, <1>6, <1>9, <1>10, <3>1
    <3>3. w = [new EXCEPT ![k].to = new[k].from + SelLen(cur)]
      BY <1>4, <2>2 DEF data_set_len
    <3>. HIDE DEF k
    <3>4. 1 \in DOMAIN new
      BY <1>7, <1>8
    <3>. QED
      BY <1>8, <3>2, <3>3, <3>4
  <2>. QED
    BY <2>1, <2>2
<1>11. ASSUME d.from <= off, off <= d.to
       PROVE  /\ w[1] = [from |-> d.from, to |-> d.from + SelLen(cur), type |-> "hex"]
              /\ \A k \in 2 .. Len(w) : \E j \in DOMAIN l :
                   l[j] = w[k] /\ off \notin w[k].from .. w[k].to - 1
  <2>1. 1 \in Reaches(new, off)
    BY <1>9, <1>11
  <2>2. Earliest(Reaches(new, off)) = 1
    <3>1. Earliest(Reaches(new, off)) \in Reaches(new, off) /\ Earliest(Reaches(new, off)) <= 1
      BY <1>8, <2>1, ReachesTyped
    <3>. QED
      BY <1>7, <1>9, <3>1
  <2>3. w = [new EXCEPT ![1] = [new[1] EXCEPT !.to = new[1].from + SelLen(cur)]]
    BY <1>4, <2>1, <2>2 DEF data_set_len
  <2>4. DOMAIN w = DOMAIN new /\ w[1] = [d EXCEPT !.to = d.from + SelLen(cur)]
        /\ \A k \in DOMAIN new : k # 1 => w[k] = new[k]
    BY <1>7, <1>8, <2>3
  <2>5. w[1] = [from |-> d.from, to |-> d.from + SelLen(cur), type |-> "hex"]
    <3>1. d \in [from : Nat, to : Nat, type : ItemType]
      BY <1>2 DEF Item
    <3>2. [d EXCEPT !.to = d.from + SelLen(cur)] = [from |-> d.from, to |-> d.from + SelLen(cur), type |-> d.type]
      BY <3>1
    <3>. QED
      BY <1>2, <2>4, <3>2
  <2>6. w \in Seq(Item)
    BY <1>4, <1>8, SelLenTyped, SetLenTyped
  <2>7. Len(w) = Len(rest) + 1
    BY <1>7, <1>8, <2>4, <2>6
  <2>8. ASSUME NEW k \in 2 .. Len(w)
        PROVE  \E j \in DOMAIN l : l[j] = w[k] /\ off \notin w[k].from .. w[k].to - 1
    <3>1. k - 1 \in 1 .. Len(rest) /\ (k - 1) + 1 = k /\ k \in DOMAIN new /\ k # 1
      <4> DEFINE m == Len(rest)
      <4>1. k \in 2 .. m + 1 /\ m \in Nat /\ DOMAIN new = 1 .. m + 1
        BY <1>7, <1>8, <2>7
      <4>. HIDE DEF m
      <4>2. k - 1 \in 1 .. m /\ (k - 1) + 1 = k /\ k \in 1 .. m + 1 /\ k # 1
        BY <4>1
      <4>. QED
        BY <4>1, <4>2 DEF m
    <3>2. w[k] = rest[k - 1]
      BY <1>8, <2>4, <3>1
    <3>3. PICK j \in DOMAIN l \ S : rest[k - 1] = l[j]
      BY <1>5, <1>7, <3>1
    <3>4. l[j] \in Item
      BY <3>3
    <3>5. ~(l[j].from <= off /\ off < l[j].to) /\ l[j].from \in Nat /\ l[j].to \in Nat
      BY <3>3, <3>4 DEF Holds, Item
    <3>. QED
      BY <1>1, <3>2, <3>3, <3>5
  <2>. QED
    BY <2>5, <2>8
<1>. QED
  BY <1>10, <1>11 DEF w, d, off

\* The bounds data_add and data_set_len compute for a selection from low to high.
LEMMA SelectionBounds ==
  ASSUME NEW seek \in Nat, NEW cur \in Cursor, cur.mode, cur.ocursor \in Nat
  PROVE  LET off == SelStart(seek, cur)
             d == NewItem(off, "hex", 1, cur, seek)
             low == seek + (IF cur.cursor < cur.ocursor THEN cur.cursor ELSE cur.ocursor)
             high == seek + (IF cur.cursor < cur.ocursor THEN cur.ocursor ELSE cur.cursor)
         IN  /\ Selects(cur) => /\ d.from <= off /\ off <= d.to /\ d.from = low /\ off = low
                                /\ low + SelLen(cur) = high + 1
             /\ TwoForwards(cur) => /\ d.from <= off /\ off <= d.to /\ d.from = low
                                    /\ low + SelLen(cur) = low
             /\ ~Selects(cur) /\ ~TwoForwards(cur) => off < d.from /\ d.from > low
<1> DEFINE c == cur.cursor
           o == cur.ocursor
           off == SelStart(seek, cur)
           d == NewItem(off, "hex", 1, cur, seek)
           low == seek + (IF c < o THEN c ELSE o)
           high == seek + (IF c < o THEN o ELSE c)
<1>1. c \in Nat /\ o \in Nat /\ o # -1
  BY DEF Cursor
<1>2. /\ off = seek + (IF c > o + 1 THEN o ELSE c)
      /\ SelLen(cur) = IF c > o + 1 THEN c - o + 1 ELSE o - c + 1
  BY DEF SelStart, SelLen
<1>3. d = [from |-> IF seek + o < off + c THEN seek + o ELSE off + c,
           to |-> IF seek + o < off + c THEN off + c ELSE seek + o, type |-> "hex"]
  BY <1>1 DEF NewItem
<1>4. /\ d.from = IF seek + o < off + c THEN seek + o ELSE off + c
      /\ d.to = IF seek + o < off + c THEN off + c ELSE seek + o
  BY <1>3
<1>5. /\ Selects(cur) <=> c = 0 \/ c = o \/ c > o + 1
      /\ TwoForwards(cur) <=> c = o + 1
  BY DEF Selects, TwoForwards
<1> DEFINE n == SelLen(cur)
           from == d.from
           to == d.to
<1>. HIDE DEF c, o, off, d, n
<1>6. Selects(cur) => /\ from <= off /\ off <= to /\ from = low /\ off = low
                      /\ low + n = high + 1
  <2>1. CASE c = 0
    BY <1>1, <1>2, <1>4, <2>1 DEF n
  <2>2. CASE c = o
    BY <1>1, <1>2, <1>4, <2>2 DEF n
  <2>3. CASE c > o + 1
    BY <1>1, <1>2, <1>4, <2>3 DEF n
  <2>. QED
    BY <1>5, <2>1, <2>2, <2>3
<1>7. TwoForwards(cur) => from <= off /\ off <= to /\ from = low /\ low + n = low
  BY <1>1, <1>2, <1>4, <1>5 DEF n
<1>8. ~Selects(cur) /\ ~TwoForwards(cur) => off < from /\ from > low
  <2> SUFFICES ASSUME ~Selects(cur), ~TwoForwards(cur) PROVE off < from /\ from > low
    OBVIOUS
  <2>1. c < o /\ c > 0
    BY <1>1, <1>5
  <2>. QED
    BY <1>1, <1>2, <1>4, <2>1
<1>. QED
  BY <1>6, <1>7, <1>8 DEF c, o, off, d, n

LEMMA RangeLeft ==
  ASSUME NEW l \in Seq(Item), NEW a \in Nat, NEW b \in Nat
  PROVE  LET w == WithoutRange(l, a, b)
         IN  /\ \A x \in a .. b : \A k \in Holds(w, x) : w[k].from < a /\ w[k].to > b
             /\ \A k \in DOMAIN l :
                  l[k].to <= a \/ l[k].from >= b =>
                    l[k].to = a \/ l[k].from = b \/ \E j \in DOMAIN w : w[j] = l[k]
             /\ a <= b => \A j \in DOMAIN w : w[j].to # a /\ w[j].from # b
<1> DEFINE S == {k \in DOMAIN l : InRange(l[k], a, b)}
           w == Dropped(l, S)
<1>1. WithoutRange(l, a, b) = w
  BY DEF WithoutRange
<1>2. /\ w \in Seq(Item)
      /\ \A i \in DOMAIN w : \E k \in DOMAIN l \ S : w[i] = l[k]
      /\ \A k \in DOMAIN l \ S : \E i \in DOMAIN w : w[i] = l[k]
  <2>. HIDE DEF S
  <2>. QED
    BY DroppedElements
<1>. HIDE DEF w
<1>3. ASSUME NEW j \in DOMAIN w
      PROVE  w[j].from \in Nat \ (a .. b) /\ w[j].to \in Nat \ (a .. b)
  <2>1. PICK k \in DOMAIN l \ S : w[j] = l[k]
    BY <1>2
  <2>2. w[j] \in Item
    BY <1>2
  <2>3. w[j].from \in Nat /\ w[j].to \in Nat
    BY <2>2 DEF Item
  <2>4. ~InRange(l[k], a, b)
    OBVIOUS
  <2>. QED
    BY <2>1, <2>3, <2>4 DEF InRange
<1>4. ASSUME NEW x \in a .. b, NEW k \in Holds(w, x) PROVE w[k].from < a /\ w[k].to > b
  <2>1. k \in DOMAIN w /\ w[k].from <= x /\ x < w[k].to
    BY DEF Holds
  <2>2. w[k].from \in Nat \ (a .. b) /\ w[k].to \in Nat \ (a .. b)
    BY <1>3, <2>1
  <2>. QED
    BY <2>1, <2>2
<1>5. ASSUME NEW k \in DOMAIN l, l[k].to <= a \/ l[k].from >= b, l[k].to # a, l[k].from # b
      PROVE  \E j \in DOMAIN w : w[j] = l[k]
  <2>1. l[k] \in Item
    OBVIOUS
  <2>2. l[k].from \in Nat /\ l[k].to \in Nat /\ l[k].from <= l[k].to
    BY <2>1 DEF Item
  <2>3. k \notin S
    BY <1>5, <2>2 DEF InRange
  <2>. QED
    BY <1>2, <2>3
<1>6. ASSUME a <= b, NEW j \in DOMAIN w PROVE w[j].to # a /\ w[j].from # b
  <2>1. w[j].from \in Nat \ (a .. b) /\ w[j].to \in Nat \ (a .. b)
    BY <1>3
  <2>. QED
    BY <1>6, <2>1
<1>. QED
  BY <1>1, <1>4, <1>5, <1>6

MetaInv == data \in Seq(Item) /\ CommentsGood(comments) /\ RefsGood(xrefs)

LEMMA MetaInvSaysTrue == MetaInv => MetadataTrue
<1> SUFFICES ASSUME MetaInv PROVE MetadataTrue
  OBVIOUS
<1>1. data \in Seq(Item) /\ CommentsGood(comments) /\ RefsGood(xrefs)
  BY DEF MetaInv
<1>2. MetaTypeOK
  <2>1. \A k \in DOMAIN data : data[k] \in Item
    BY <1>1
  <2>2. \A k \in DOMAIN data : /\ data[k].from \in Nat /\ data[k].to \in Nat
                               /\ data[k].from <= data[k].to /\ data[k].type \in ItemType
    BY <2>1 DEF Item
  <2>3. comments \in Seq(MetaAddr \X Text)
    BY <1>1 DEF CommentsGood
  <2>4. xrefs \in Seq(Ref)
    BY <1>1 DEF RefsGood
  <2>5. \A k \in DOMAIN xrefs : xrefs[k] \in Ref
    BY <2>4
  <2>6. \A k \in DOMAIN xrefs : xrefs[k].addr \in MetaAddr /\ xrefs[k].from \in MetaAddr
    BY <2>5 DEF Ref
  <2>. QED
    BY <2>2, <2>3, <2>6 DEF MetaTypeOK
<1>3. NoDuplicates
  BY <1>1 DEF NoDuplicates, CommentsGood, RefsGood
<1>4. \A a \in MetaAddr : a \in Nat
  BY MetaAssumption DEF MetaAddr
<1>5. SelectionConverted
  <2> SUFFICES ASSUME NEW seek \in MetaAddr, NEW cur \in Cursors, cur.mode, cur.ocursor # -1
               PROVE
    LET l == visual_convert_bytes(data, seek, "hex", 1, cur)
        low == seek + (IF cur.cursor < cur.ocursor THEN cur.cursor ELSE cur.ocursor)
        high == seek + (IF cur.cursor < cur.ocursor THEN cur.ocursor ELSE cur.cursor)
    IN  /\ Selects(cur) => /\ l[1] = [from |-> low, to |-> high + 1, type |-> "hex"]
                           /\ \A k \in 2 .. Len(l) : low \notin l[k].from .. l[k].to - 1
        /\ TwoForwards(cur) => l[1] = [from |-> low, to |-> low, type |-> "hex"]
        /\ ~Selects(cur) /\ ~TwoForwards(cur) => l[1].from > low
        /\ Selects(cur) \/ TwoForwards(cur) => \A k \in 2 .. Len(l) : \E j \in DOMAIN data : data[j] = l[k]
    BY DEF SelectionConverted
  <2>1. cur \in Cursor /\ cur.ocursor \in Nat /\ seek \in Nat
    BY <1>4, MetaAssumption DEF Cursor
  <2> DEFINE l == visual_convert_bytes(data, seek, "hex", 1, cur)
             off == SelStart(seek, cur)
             d == NewItem(off, "hex", 1, cur, seek)
  <2>2. /\ d.from <= off /\ off <= d.to =>
             /\ l[1] = [from |-> d.from, to |-> d.from + SelLen(cur), type |-> "hex"]
             /\ \A k \in 2 .. Len(l) : \E j \in DOMAIN data :
                  data[j] = l[k] /\ off \notin l[k].from .. l[k].to - 1
        /\ off < d.from => l[1] = d
    BY <1>1, <2>1, SelectionMade
  <2> DEFINE low == seek + (IF cur.cursor < cur.ocursor THEN cur.cursor ELSE cur.ocursor)
             high == seek + (IF cur.cursor < cur.ocursor THEN cur.ocursor ELSE cur.cursor)
  <2>3. /\ Selects(cur) => /\ d.from <= off /\ off <= d.to /\ d.from = low /\ off = low
                           /\ low + SelLen(cur) = high + 1
        /\ TwoForwards(cur) => /\ d.from <= off /\ off <= d.to /\ d.from = low
                               /\ low + SelLen(cur) = low
        /\ ~Selects(cur) /\ ~TwoForwards(cur) => off < d.from /\ d.from > low
    BY <2>1, SelectionBounds
  <2>. HIDE DEF l, off, d, low, high
  <2>4. Selects(cur) => /\ l[1] = [from |-> low, to |-> high + 1, type |-> "hex"]
                        /\ \A k \in 2 .. Len(l) : low \notin l[k].from .. l[k].to - 1
                        /\ \A k \in 2 .. Len(l) : \E j \in DOMAIN data : data[j] = l[k]
    BY <2>2, <2>3
  <2>5. TwoForwards(cur) => /\ l[1] = [from |-> low, to |-> low, type |-> "hex"]
                            /\ \A k \in 2 .. Len(l) : \E j \in DOMAIN data : data[j] = l[k]
    BY <2>2, <2>3
  <2>6. ~Selects(cur) /\ ~TwoForwards(cur) => l[1].from > low
    BY <2>2, <2>3
  <2>. QED
    BY <2>4, <2>5, <2>6 DEF l, low, high
<1>6. RangeEmptied
  <2> SUFFICES ASSUME NEW a \in MetaAddr, NEW len \in ItemLen
               PROVE  LET l == WithoutRange(data, a, a + len)
                      IN  /\ \A x \in a .. a + len : \A k \in Holds(l, x) : l[k].from < a /\ l[k].to > a + len
                          /\ \A k \in DOMAIN data :
                               data[k].to <= a \/ data[k].from >= a + len =>
                                 data[k].to = a \/ data[k].from = a + len
                                 \/ \E j \in DOMAIN l : l[j] = data[k]
                          /\ \A j \in DOMAIN l : l[j].to # a /\ l[j].from # a + len
    BY DEF RangeEmptied
  <2>1. a \in Nat /\ a + len \in Nat /\ a <= a + len
    BY <1>4, MetaAssumption
  <2> DEFINE b == a + len
  <2>2. b \in Nat /\ a <= b
    BY <2>1
  <2>. HIDE DEF b
  <2>3. LET l == WithoutRange(data, a, b)
        IN  /\ \A x \in a .. b : \A k \in Holds(l, x) : l[k].from < a /\ l[k].to > b
            /\ \A k \in DOMAIN data :
                 data[k].to <= a \/ data[k].from >= b =>
                   data[k].to = a \/ data[k].from = b \/ \E j \in DOMAIN l : l[j] = data[k]
            /\ \A j \in DOMAIN l : l[j].to # a /\ l[j].from # b
    BY <1>1, <2>1, <2>2, RangeLeft
  <2>. QED
    BY <2>3 DEF b
<1>7. ProjectKeeps
  <2>1. ReplayedComments(comments) = comments
    BY <1>1, CommentsKept
  <2>2. ReplayedRefs(ReplayedRefs(xrefs)) = Dropped(xrefs, {k \in DOMAIN xrefs : xrefs[k].type # "code"})
    BY <1>1, RefsTwice DEF DataRefs
  <2>3. {ReplayedItems(<<>>, data)[k] : k \in DOMAIN ReplayedItems(<<>>, data)} =
           {Whole(data[k]) : k \in {k \in DOMAIN data : \A j \in k + 1 .. Len(data) :
                                      data[j].from \notin data[k].from .. Whole(data[k]).to - 1}}
    BY <1>1, ItemsRead DEF Elements
  <2>. QED
    BY <2>1, <2>2, <2>3 DEF ProjectKeeps
<1>. QED
  BY <1>2, <1>3, <1>5, <1>6, <1>7 DEF MetadataTrue

LEMMA MetaInitHolds == Init => MetaInv
  BY DEF Init, MetaInit, MetaInv, CommentsGood, RefsGood

LEMMA MetaNextKeeps == MetaInv /\ [MetaNext]_metavars => MetaInv'
<1> SUFFICES ASSUME MetaInv, [MetaNext]_metavars PROVE MetaInv'
  OBVIOUS
<1>1. data \in Seq(Item) /\ CommentsGood(comments) /\ RefsGood(xrefs)
  BY DEF MetaInv
<1>2. \A a \in MetaAddr : a \in Nat
  BY MetaAssumption DEF MetaAddr
<1>3. ASSUME NEW new, new \in Seq(Item), SetData(new) PROVE MetaInv'
  BY <1>1, <1>3 DEF SetData, MetaInv
<1>4. \A l \in Seq(Item) : \A S : Dropped(l, S) \in Seq(Item)
  BY DroppedFacts
<1>5. ASSUME NEW a \in MetaAddr, NEW len \in ItemLen, NEW type \in ItemType \union {"code"},
             NEW cur \in Cursors, AddCommand(a, type, len, cur)
      PROVE  MetaInv'
  <2>1. a \in Nat /\ len \in Nat /\ cur \in Cursor
    BY <1>2, MetaAssumption DEF Cursor
  <2> DEFINE off == a + (IF cur.mode THEN cur.cursor ELSE 0)
  <2>2. off \in Nat
    BY <2>1 DEF Cursor
  <2>. HIDE DEF off
  <2>3. data_add(data, off, type, len, cur, a) \in Seq(Item)
    BY <1>1, <2>1, <2>2, AddTyped
  <2>4. SetData(data_add(data, off, type, len, cur, a))
    BY <1>5 DEF AddCommand, off
  <2>. QED
    BY <1>3, <2>3, <2>4
<1>6. ASSUME NEW a \in MetaAddr, NEW len \in ItemLen, NEW type \in ItemType \union {"code"},
             NEW cur \in Cursors, Convert(a, type, len, cur)
      PROVE  MetaInv'
  <2>1. a \in Nat /\ len \in Nat /\ cur \in Cursor
    BY <1>2, MetaAssumption DEF Cursor
  <2>2. SelStart(a, cur) >= 0 /\ SetData(visual_convert_bytes(data, a, type, len, cur))
    BY <1>6 DEF Convert
  <2>3. visual_convert_bytes(data, a, type, len, cur) \in Seq(Item)
    BY <1>1, <2>1, <2>2, ConvertTyped
  <2>. QED
    BY <1>3, <2>2, <2>3
<1>7. ASSUME NEW a \in MetaAddr, NEW len \in ItemLen, data_del_range(a, len) PROVE MetaInv'
  <2>1. CASE DeletedTwice(a, a + len)
    <3>1. data' = <<>> /\ comments' = <<>> /\ xrefs' = <<>>
      BY <1>7, <2>1 DEF data_del_range
    <3>. QED
      BY <3>1 DEF MetaInv, CommentsGood, RefsGood
  <2>2. CASE ~DeletedTwice(a, a + len)
    <3>1. data' \in Seq(Item)
      BY <1>1, <1>4, <1>7, <2>2 DEF data_del_range, WithoutRange
    <3>2. CommentsGood(comments')
      BY <1>1, <1>7, <2>2, DroppedComments DEF data_del_range
    <3>3. RefsGood(xrefs')
      BY <1>1, <1>7, <2>2, DroppedRefs DEF data_del_range
    <3>. QED
      BY <3>1, <3>2, <3>3 DEF MetaInv
  <2>. QED
    BY <2>1, <2>2
<1>8. ASSUME NEW a \in MetaAddr, Fold(a) \/ Unfold(a) PROVE MetaInv'
  <2>1. "open" \in ItemType /\ "closed" \in ItemType
    BY DEF ItemType
  <2>2. Folded(data, a) \in Seq(Item) /\ Unfolded(data, a) \in Seq(Item)
    BY <1>1, <2>1, SetTyped DEF Folded, Unfolded
  <2>. QED
    BY <1>3, <1>8, <2>2 DEF Fold, Unfold
<1>9. ASSUME NEW a \in MetaAddr, NEW size, data_del(a, size) PROVE MetaInv'
  <2> DEFINE S == {k \in DOMAIN data : /\ data[k].from = a /\ data[k].type = "fun"
                                       /\ size \in {0, data[k].to - data[k].from + 1}}
             new == IF S = {} THEN data ELSE Dropped(data, {Earliest(S)})
  <2>1. SetData(new)
    BY <1>9 DEF data_del
  <2>. HIDE DEF S
  <2>2. new \in Seq(Item)
    BY <1>1, <1>4
  <2>. HIDE DEF new
  <2>. QED
    BY <1>3, <2>1, <2>2
<1>10. ASSUME NEW a \in MetaAddr, NEW text \in Text, Comment(a, text) \/ Uncomment(a, text) PROVE MetaInv'
  <2>1. CommentsGood(comments') /\ data' = data /\ xrefs' = xrefs
    BY <1>1, <1>10, CommentAdded, CommentDeleted DEF Comment, Uncomment, SetComments
  <2>. QED
    BY <1>1, <2>1 DEF MetaInv
<1>11. ASSUME NEW a \in MetaAddr, NEW b \in MetaAddr, NEW type \in {"code", "data"},
              data_xrefs_del(a, b) \/ AddRef(a, b, type)
       PROVE  MetaInv'
  <2>1. RefsGood(xrefs') /\ data' = data /\ comments' = comments
    BY <1>1, <1>11, RefAdded, DroppedRefs DEF data_xrefs_del, AddRef
  <2>. QED
    BY <1>1, <2>1 DEF MetaInv
<1>12. ASSUME Reopen PROVE MetaInv'
  <2>1. CommentsGood(comments')
    BY <1>1, <1>12, CommentsKept DEF Reopen
  <2>2. RefsGood(xrefs')
    BY <1>1, <1>12, RefsTwice DEF Reopen
  <2>3. ItemsOfRefs(xrefs) \in Seq(Item)
    <3>1. xrefs \in Seq(Ref)
      BY <1>1 DEF RefsGood
    <3>2. PICK f : ReadsRefItems(f, xrefs) /\ ItemsOfRefs(xrefs) = f[Len(xrefs)]
      BY <3>1, RefItemsUnfold
    <3>3. f \in [0 .. Len(xrefs) -> Seq(Item)]
      BY <3>2 DEF ReadsRefItems
    <3>4. Len(xrefs) \in 0 .. Len(xrefs)
      BY <3>1
    <3>. QED
      BY <3>2, <3>3, <3>4
  <2>4. ReplayedItems(ItemsOfRefs(xrefs), data) \in Seq(Item)
    <3>1. PICK f : /\ ReadsItems(f, ItemsOfRefs(xrefs), data)
                   /\ ReplayedItems(ItemsOfRefs(xrefs), data) = f[Len(data)]
      BY <1>1, <2>3, ItemsUnfold
    <3>2. f \in [0 .. Len(data) -> Seq(Item)]
      BY <3>1 DEF ReadsItems
    <3>3. Len(data) \in 0 .. Len(data)
      BY <1>1
    <3>. QED
      BY <3>1, <3>2, <3>3
  <2>. QED
    BY <1>12, <2>1, <2>2, <2>4 DEF Reopen, MetaInv
<1>13. CASE UNCHANGED metavars
  BY <1>1, <1>13 DEF metavars, MetaInv
<1>14. CASE MetaNext
  BY <1>5, <1>6, <1>7, <1>8, <1>9, <1>10, <1>11, <1>12, <1>14 DEF MetaNext
<1>. QED
  BY <1>13, <1>14

LEMMA MetaSteps == [Next]_vars => [MetaNext]_metavars
  BY DEF Next, vars, metavars, OnlyMacros

\* What the user has said about addresses is kept as it was said, for every
\* bound on addresses, lengths, texts and cursors: no comment or reference is
\* there twice; a selection becomes exactly one item, but for two bytes made
\* forwards, whose item is empty, and one made backwards that does not begin at
\* the first byte of the block, whose item misses a byte; Cr empties its range
\* and takes with it, of the items outside, those that adjoin the range; and a
\* project gives back comments, code references and items.
THEOREM MetadataCorrect == Spec => []MetadataTrue
<1>1. MetaInv /\ [Next]_vars => MetaInv'
  BY MetaNextKeeps, MetaSteps
<1>. QED
  BY <1>1, MetaInitHolds, MetaInvSaysTrue, PTL DEF Spec

=============================================================================
