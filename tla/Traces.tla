------------------------------- MODULE Traces -------------------------------
(***************************************************************************)
(* Execution traces (trace.c): the list of traced instructions with how    *)
(* often and when each ran, the tags that group them, and the listing of   *)
(* the at command, which sorts the list and joins instructions that follow *)
(* each other into ranges.                                                 *)
(*                                                                         *)
(* A trace is identified by its count: no two have the same.  Times of day *)
(* are left out.                                                           *)
(***************************************************************************)
EXTENDS Integers, Sequences

CONSTANTS
  MaxTraceAddr, \* the addresses are 0 .. MaxTraceAddr
  OpSize,       \* the size of the instruction at each address
  TraceTags,    \* tags the user selects, -1 for none
  AtTimes,      \* times the user gives to at+
  MaxAdds       \* bound on n_traces

TraceAddr == 0 .. MaxTraceAddr

\* An instruction is at least one byte.  A tag selects a bit with a shift of an
\* int; tags of 31 and more, which that shift cannot express, are left out.
ASSUME TraceAssumption ==
  /\ MaxTraceAddr \in Nat /\ MaxAdds \in Nat /\ OpSize \in [TraceAddr -> Nat \ {0}]
  /\ TraceTags \subseteq -1 .. 30 /\ -1 \in TraceTags /\ AtTimes \subseteq Nat

VARIABLES
  traces,       \* the list
  n_traces, trace_changed, trace_tag,
  dup,          \* trace.dup
  ran,          \* history variable: for each address, how often it was traced
                \* since the last reset and the number of the last time
  dupped        \* history variable: trace.dup was used since the last reset

tracevars == <<traces, n_traces, trace_changed, trace_tag, dup, ran, dupped>>

NotRun == [a \in TraceAddr |-> [times |-> 0, last |-> 0]]

TraceTypeOK ==
  /\ traces \in Seq([addr : TraceAddr, times : Nat, count : 1 .. MaxAdds, tags : SUBSET (0 .. 5)])
  /\ n_traces \in 0 .. MaxAdds /\ trace_tag \in TraceTags
  /\ \A i, j \in DOMAIN traces : traces[i].count = traces[j].count => i = j
  /\ {trace_changed, dup, dupped} \subseteq BOOLEAN

TraceInit ==
  /\ traces = <<>> /\ n_traces = 0 /\ trace_changed = FALSE /\ trace_tag = -1
  /\ dup = FALSE /\ dupped = FALSE
  /\ ran = NotRun

(***************************************************************************)
(* Adding.                                                                 *)
(***************************************************************************)
\* t->tags |= trace_tag: the bits of the number, not the bit of that number.
TagBits(tag) == IF tag = -1 THEN {} ELSE {b \in 0 .. 5 : (tag \div 2 ^ b) % 2 = 1}

TracedAt(l, a) == {i \in DOMAIN l : l[i].addr = a}
FirstOf(S) == CHOOSE i \in S : \A j \in S : i <= j

Again(t) == [t EXCEPT !.times = @ + 1, !.tags = @ \union TagBits(trace_tag)]

\* With trace.dup every trace of the address counts and a new one is added;
\* without, the first one counts and gets the next number.  Variants with a
\* bug: it keeps its number, and numbers begin with 0.
TraceAdded(a, renumbered, number) ==
  LET new == [addr |-> a, times |-> 1, count |-> number, tags |-> TagBits(trace_tag)]
      here == TracedAt(traces, a)
  IN  IF ~dup /\ here # {}
      THEN [traces EXCEPT ![FirstOf(here)] =
              [Again(@) EXCEPT !.count = IF renumbered THEN number ELSE @]]
      ELSE Append([i \in DOMAIN traces |-> IF i \in here THEN Again(traces[i]) ELSE traces[i]], new)

trace_add_kept(a) == TraceAdded(a, FALSE, n_traces + 1)
trace_add_from_0(a) == TraceAdded(a, TRUE, n_traces)
trace_add(a) == TraceAdded(a, TRUE, n_traces + 1)

\* trace_changed afterwards; a variant with a bug: a new trace does not set it.
Grown_not(l) == trace_changed
Grown(l) == trace_changed \/ Len(l) > Len(traces)

\* An instruction is executed with tracing on.
Execute(a) ==
  /\ n_traces < MaxAdds
  /\ traces' = trace_add(a) /\ n_traces' = n_traces + 1 /\ trace_changed' = Grown(trace_add(a))
  /\ ran' = [ran EXCEPT ![a] = [times |-> @.times + 1, last |-> n_traces + 1]]
  /\ dupped' = (dupped \/ dup)
  /\ UNCHANGED <<trace_tag, dup>>

\* at+ addr times: the first trace of the address gets its times.
AtPlus(a, n) ==
  LET l == trace_add(a)
  IN  /\ n_traces < MaxAdds
      /\ traces' = [l EXCEPT ![FirstOf(TracedAt(l, a))].times = n]
      /\ n_traces' = n_traces + 1 /\ trace_changed' = Grown(l)
      /\ ran' = [ran EXCEPT ![a] = [times |-> n, last |-> n_traces + 1]]
      /\ dupped' = (dupped \/ dup)
      /\ UNCHANGED <<trace_tag, dup>>

\* at-
trace_reset ==
  /\ traces' = <<>> /\ ran' = NotRun /\ dupped' = FALSE
  /\ UNCHANGED <<n_traces, trace_changed, trace_tag, dup>>

\* att tag, eval trace.dup
trace_tag_set(tag) ==
  trace_tag' = tag /\ UNCHANGED <<traces, n_traces, trace_changed, dup, ran, dupped>>

SetDup(b) == dup' = b /\ UNCHANGED <<traces, n_traces, trace_changed, trace_tag, ran, dupped>>

(***************************************************************************)
(* The listing.                                                            *)
(***************************************************************************)
\* The inner walk of trace_sort: trace k goes behind the last of the others
\* with a smaller address.
Smaller(l, k) == {j \in DOMAIN l : l[j].addr < l[k].addr}

BehindSmaller(l, k) ==
  LET j == CHOOSE x \in Smaller(l, k) : \A y \in Smaller(l, k) : y <= x
  IN  IF Smaller(l, k) = {} THEN l
      ELSE IF j < k
           THEN SubSeq(l, 1, j) \o <<l[k]>> \o SubSeq(l, j + 1, k - 1) \o SubSeq(l, k + 1, Len(l))
           ELSE SubSeq(l, 1, k - 1) \o SubSeq(l, k + 1, j) \o <<l[k]>> \o SubSeq(l, j + 1, Len(l))

\* The outer walk goes on with the trace that followed before the move; at
\* the end there is none.  ch: list_move was called, even if it put the trace
\* where it was.  Two turns for each trace are enough (ListingSorted).
Turn(w) ==
  IF w.at = 0 THEN w
  ELSE LET k == CHOOSE i \in DOMAIN w.list : w.list[i].count = w.at
       IN  [list |-> BehindSmaller(w.list, k),
            at |-> IF k = Len(w.list) THEN 0 ELSE w.list[k + 1].count,
            ch |-> w.ch \/ Smaller(w.list, k) # {}]

Walk(l) ==
  LET f[n \in 0 .. 2 * Len(l)] ==
        IF n = 0 THEN [list |-> l, at |-> IF l = <<>> THEN 0 ELSE l[1].count, ch |-> FALSE]
        ELSE Turn(f[n - 1])
  IN  f[2 * Len(l)]

trace_sort == IF trace_changed THEN Walk(traces).list ELSE traces

Tagged(t, tag) == tag = -1 \/ tag \in t.tags

trace_get(l, a, tag) == {i \in TracedAt(l, a) : Tagged(l[i], tag)}

\* The end of the run of instructions that starts at from.
trace_range(l, from, tag) ==
  LET f[d \in 0 .. MaxTraceAddr + 1] ==
        IF d = 0 THEN from
        ELSE LET a == f[d - 1]
             IN  IF a \in TraceAddr /\ trace_get(l, a, tag) # {} THEN a + OpSize[a] ELSE a
  IN  f[MaxTraceAddr + 1]

\* The next traced address of the tag, 0 when there is none.
NextOf(l, S) == LET A == {l[i].addr : i \in S} IN IF A = {} THEN 0 ELSE FirstOf(A)

trace_next(l, from, tag) == NextOf(l, {i \in DOMAIN l : Tagged(l[i], tag) /\ l[i].addr > from})

\* "get the lower address", of all tags: 0 stands for not known yet.
LowestTraced(l) ==
  LET f[n \in 0 .. Len(l)] ==
        IF n = 0 THEN 0
        ELSE LET a == f[n - 1] IN IF a = 0 \/ l[n].addr < a THEN l[n].addr ELSE a
  IN  f[Len(l)]

\* The ranges at and atr print: the loop ends at address 0 and at a range
\* that is empty.
Listing(l, tag) ==
  LET f[n \in 0 .. MaxTraceAddr + 1] ==
        IF n = 0 THEN [from |-> LowestTraced(l), shown |-> {}]
        ELSE LET p == f[n - 1]
                 last == trace_range(l, p.from, tag)
             IN  IF p.from = 0 \/ last = p.from THEN [p EXCEPT !.from = 0]
                 ELSE [from |-> trace_next(l, last, tag), shown |-> p.shown \union {<<p.from, last>>}]
  IN  f[MaxTraceAddr + 1].shown

\* at, at*, atr, atd.
trace_show ==
  /\ traces' = trace_sort /\ trace_changed' = (trace_changed /\ Walk(traces).ch)
  /\ UNCHANGED <<n_traces, trace_tag, dup, ran, dupped>>

TraceNext ==
  \/ \E a \in TraceAddr : Execute(a) \/ \E n \in AtTimes : AtPlus(a, n)
  \/ trace_reset \/ trace_show
  \/ \E tag \in TraceTags : trace_tag_set(tag)
  \/ \E b \in BOOLEAN : SetDup(b)

-----------------------------------------------------------------------------
OpBytes(t) == t.addr .. t.addr + OpSize[t.addr] - 1

\* As long as trace.dup is not used every address that was executed has one
\* trace, with the number of times it ran and the number of the last time,
\* whatever was sorted, tagged or set by hand in between: the execution
\* order is read off these numbers.
CountsTrue ==
  ~dupped => \A a \in TraceAddr :
    IF ran[a].last = 0 THEN TracedAt(traces, a) = {}
    ELSE \E i \in DOMAIN traces : /\ TracedAt(traces, a) = {i}
                                  /\ traces[i].times = ran[a].times
                                  /\ traces[i].count = ran[a].last

\* A listing sees the traces sorted, none lost or doubled, although the sort
\* moves traces under its own walk and is skipped when nothing was added
\* since the sort last had nothing to move.
ListingSorted ==
  LET l == trace_sort
  IN  /\ Walk(traces).at = 0
      /\ \A i, j \in DOMAIN l : i < j => l[i].addr <= l[j].addr
      /\ Len(l) = Len(traces)
      /\ {l[i] : i \in DOMAIN l} = {traces[i] : i \in DOMAIN traces}

\* The ranges of a listing hold the bytes of the traced instructions of the
\* tag, all of them and no others, as long as no traced instruction begins
\* inside another one: except the instruction at address 0, and everything
\* when the lowest traced address does not have the tag.
ListingTrue ==
  LET l == trace_sort
      mine == {i \in DOMAIN l : Tagged(l[i], trace_tag)}
      shown == UNION {r[1] .. r[2] - 1 : r \in Listing(l, trace_tag)}
      apart == \A i, j \in DOMAIN l : l[i].addr # l[j].addr => OpBytes(l[i]) \intersect OpBytes(l[j]) = {}
      lowest == {i \in mine : l[i].addr = LowestTraced(l)}
  IN  /\ shown \subseteq UNION {OpBytes(l[i]) : i \in mine}
      /\ apart => shown = IF lowest = {} THEN {} ELSE UNION {OpBytes(l[i]) : i \in {j \in mine : l[j].addr # 0}}

\* Traces are true: each instruction has its number of runs, and the listings
\* show all of them in order.
TracesTrue == TraceTypeOK /\ CountsTrue /\ ListingSorted /\ ListingTrue
=============================================================================
