-------------------------------- MODULE Ranges --------------------------------
(***************************************************************************)
(* The list of address ranges behind the 'ar' commands (ranges.c): adding, *)
(* subtracting, merging and sorting ranges in place, and the gaps 'arb'    *)
(* reports.  A command that walks the list, and may start again from its   *)
(* head with goto, takes one step for each element it visits.              *)
(*                                                                         *)
(* A range covers from <= x < to.  The byte count printed at the end of a  *)
(* listing and the drawing of 'ar%' are left out.                          *)
(***************************************************************************)
EXTENDS Integers, Sequences

CONSTANTS
  Addr,       \* the addresses the user names
  MaxRanges   \* bound: the length of the list

ASSUME AddrAssumption == Addr \subseteq Nat

VARIABLES
  ranges,          \* the list
  ranges_changed,  \* whether a range was added since the last sort
  run,             \* the command that walks the list, and where it is
  before,          \* history variable: the list when that command started
  cut              \* history variable: ar- moved a start since the last sort

vars == <<ranges, ranges_changed, run, before, cut>>

range_t == [from : Addr, to : Addr]

Covers(s, x) == \E i \in 1 .. Len(s) : s[i].from <= x /\ x < s[i].to
Ordered(s) == \A i \in 1 .. Len(s) : s[i].from <= s[i].to
Sorted(s) == \A i, j \in 1 .. Len(s) : i < j => s[i].from <= s[j].from

Without(s, i) == [k \in 1 .. Len(s) - 1 |-> IF k < i THEN s[k] ELSE s[k + 1]]

Idle == [op |-> "idle", from |-> 0, to |-> 0, pos |-> 0, at |-> 0, then |-> "idle", ch |-> 0,
         gaps |-> {}]

Start(op, f, t, then) ==
  /\ run = Idle
  /\ run' = [Idle EXCEPT !.op = op, !.from = f, !.to = t, !.at = f, !.pos = 1, !.then = then]
  /\ before' = ranges

Visiting(op) == run.op = op /\ run.pos <= Len(ranges)
Visited(op) == run.op = op /\ run.pos > Len(ranges)

------------------------------------------------------------------------------
(***************************************************************************)
(* ranges_add joins the new range with every range it overlaps or touches, *)
(* one by one; only if there is none it is appended.                       *)
(***************************************************************************)
\* ranges_abs, and a variant with a bug: the ends are not swapped.
ranges_abs_none(f, t) == [from |-> f, to |-> t]

ranges_abs(f, t) == IF f > t THEN [from |-> t, to |-> f] ELSE [from |-> f, to |-> t]

\* The test of the four cases of ranges_add, and a variant with a bug: it
\* also takes the range that follows after a gap of one.
Touches_next(r, n) == r.from <= n.to + 1 /\ r.to >= n.from

Touches(r, n) == r.from <= n.to /\ r.to >= n.from

\* What those cases make of r, and a variant with a bug: only the end moves.
Joined_to(r, n) == [r EXCEPT !.to = IF n.to > r.to THEN n.to ELSE r.to]

Joined(r, n) ==
  [from |-> IF n.from < r.from THEN n.from ELSE r.from,
   to |-> IF n.to > r.to THEN n.to ELSE r.to]

JoinAll(s, n) == [i \in 1 .. Len(s) |-> IF Touches(s[i], n) THEN Joined(s[i], n) ELSE s[i]]

Alone(s, n) == \A i \in 1 .. Len(s) : ~Touches(s[i], n)

\* ranges_add with rw set
ranges_add(s, n) == IF Alone(s, n) THEN Append(s, n) ELSE JoinAll(s, n)

\* ar+ from to
AddCommand(f, t) ==
  /\ run = Idle
  /\ LET n == ranges_abs(f, t)
     IN  /\ Len(ranges_add(ranges, n)) <= MaxRanges
         /\ ranges' = ranges_add(ranges, n)
         /\ ranges_changed' = (ranges_changed \/ Alone(ranges, n))
  /\ UNCHANGED <<run, before, cut>>

------------------------------------------------------------------------------
(***************************************************************************)
(* ranges_sub.  All the comparisons are strict.                            *)
(***************************************************************************)
SubCommand(f, t) ==
  /\ LET n == ranges_abs(f, t) IN Start("sub", n.from, n.to, "idle")
  /\ UNCHANGED <<ranges, ranges_changed, cut>>

\* A range that crosses one end is cut there.  The variant has a bug: it is
\* cut at the wrong end.
Cut_wrong(r) ==
  IF r.from < run.from /\ r.to > run.from /\ r.to < run.to THEN [r EXCEPT !.to = run.from]
  ELSE IF r.from > run.from /\ r.from < run.to /\ r.to > run.to THEN [r EXCEPT !.from = run.from]
  ELSE r

Cut(r) ==
  IF r.from < run.from /\ r.to > run.from /\ r.to < run.to THEN [r EXCEPT !.to = run.from]
  ELSE IF r.from > run.from /\ r.from < run.to /\ r.to > run.to THEN [r EXCEPT !.from = run.to]
  ELSE r

Inside(r) == r.from > run.from /\ r.from < run.to /\ r.to > run.from /\ r.to < run.to

Around(r) == r.from < run.from /\ r.to > run.to

\* A range around the subtracted one: its end is moved first, and what is
\* then added is the subtracted range itself.  The variant has a bug: the
\* end is not moved.
Split_kept(s, i) == ranges_add(s, [from |-> run.from, to |-> run.to])

Split(s, i) == ranges_add([s EXCEPT ![i].to = run.from], ranges_abs(run.to, run.from))

SubStep ==
  /\ Visiting("sub")
  /\ LET r == Cut(ranges[run.pos])
     IN  \/ /\ Inside(r)
            /\ ranges' = Without(ranges, run.pos)
            /\ ranges_changed' = TRUE
            /\ run' = [run EXCEPT !.pos = 1]
         \/ /\ Around(r)
            /\ ranges' = Split(ranges, run.pos)
            /\ run' = [run EXCEPT !.pos = 1]
            /\ UNCHANGED ranges_changed
         \/ /\ ~Inside(r) /\ ~Around(r)
            /\ ranges' = [ranges EXCEPT ![run.pos] = r]
            /\ run' = [run EXCEPT !.pos = @ + 1]
            /\ UNCHANGED ranges_changed
  /\ cut' = (cut \/ Cut(ranges[run.pos]).from # ranges[run.pos].from)
  /\ UNCHANGED before

------------------------------------------------------------------------------
(***************************************************************************)
(* ranges_merge adds every range of the list to the list, never a new one. *)
(***************************************************************************)
MergeCommand == Start("merge", 0, 0, "idle") /\ UNCHANGED <<ranges, ranges_changed, cut>>

MergeStep ==
  /\ Visiting("merge")
  /\ ranges' = JoinAll(ranges, ranges[run.pos])
  /\ run' = [run EXCEPT !.pos = @ + 1]
  /\ UNCHANGED <<ranges_changed, before, cut>>

------------------------------------------------------------------------------
(***************************************************************************)
(* ranges_sort, called first by the listings and by arb: the inner loop    *)
(* moves the range behind each smaller one in turn, so it ends up behind   *)
(* the last of them; the outer loop goes on with the one that followed it. *)
(***************************************************************************)
Smaller(s, i) == {j \in 1 .. Len(s) : s[i].from > s[j].from}

\* The place of element i among the others: behind the last smaller one, or
\* where it is.  The variant has a bug: behind the first smaller one.
Behind_first(s, i) ==
  IF Smaller(s, i) = {} THEN i
  ELSE LET j == CHOOSE j \in Smaller(s, i) : \A k \in Smaller(s, i) : j <= k
       IN  IF j > i THEN j ELSE j + 1

Behind(s, i) ==
  IF Smaller(s, i) = {} THEN i
  ELSE LET j == CHOOSE j \in Smaller(s, i) : \A k \in Smaller(s, i) : j >= k
       IN  IF j > i THEN j ELSE j + 1

\* The list with element i moved to place p among the others.
Moved(s, i, p) ==
  [k \in 1 .. Len(s) |-> IF k < p THEN Without(s, i)[k]
                         ELSE IF k = p THEN s[i] ELSE Without(s, i)[k - 1]]

\* ar, ar* and ranges_get_n; arb with the bounds f and t.
SortFirst(f, t, then) ==
  /\ Start(IF ranges_changed THEN "sort" ELSE then, f, t, then)
  /\ UNCHANGED <<ranges, ranges_changed, cut>>

ListCommand == SortFirst(0, 0, "list")

BooleanCommand(f, t) == SortFirst(f, t, "bool")

SortStep ==
  /\ Visiting("sort")
  /\ LET p == Behind(ranges, run.pos)
     IN  /\ ranges' = Moved(ranges, run.pos, p)
         /\ run' = [run EXCEPT !.pos = IF p > @ THEN @ ELSE @ + 1,
                               !.ch = IF Smaller(ranges, run.pos) # {} THEN 1 ELSE @]
  /\ UNCHANGED <<ranges_changed, before, cut>>

SortEnd ==
  /\ Visited("sort")
  /\ ranges_changed' = (run.ch = 1)
  /\ run' = [run EXCEPT !.op = run.then, !.pos = 1]
  /\ cut' = FALSE
  /\ UNCHANGED <<ranges, before>>

------------------------------------------------------------------------------
(***************************************************************************)
(* ranges_boolean reports the gaps between the ranges that start after the *)
(* place it has reached.  The variants have a bug: they go on one too far, *)
(* and at the start of the range instead of its end.                       *)
(***************************************************************************)
BooleanStep_start ==
  /\ Visiting("bool")
  /\ LET r == ranges[run.pos]
     IN  run' = IF r.from > run.at /\ r.from < run.to
                THEN [run EXCEPT !.pos = @ + 1, !.at = r.from, !.gaps = @ \union (run.at .. r.from - 1)]
                ELSE [run EXCEPT !.pos = @ + 1]
  /\ UNCHANGED <<ranges, ranges_changed, before, cut>>

BooleanStep_far ==
  /\ Visiting("bool")
  /\ LET r == ranges[run.pos]
     IN  run' = IF r.from > run.at /\ r.from < run.to
                THEN [run EXCEPT !.pos = @ + 1, !.at = r.to + 1, !.gaps = @ \union (run.at .. r.from - 1)]
                ELSE [run EXCEPT !.pos = @ + 1]
  /\ UNCHANGED <<ranges, ranges_changed, before, cut>>

BooleanStep ==
  /\ Visiting("bool")
  /\ LET r == ranges[run.pos]
     IN  run' = IF r.from > run.at /\ r.from < run.to
                THEN [run EXCEPT !.pos = @ + 1, !.at = r.to, !.gaps = @ \union (run.at .. r.from - 1)]
                ELSE [run EXCEPT !.pos = @ + 1]
  /\ UNCHANGED <<ranges, ranges_changed, before, cut>>

BooleanEnd ==
  /\ Visited("bool")
  /\ run' = [run EXCEPT !.op = "reported", !.gaps = @ \union (run.at .. run.to - 1)]
  /\ UNCHANGED <<ranges, ranges_changed, before, cut>>

Finish ==
  /\ Visited("sub") \/ Visited("merge") \/ run.op \in {"list", "reported"}
  /\ run' = Idle
  /\ before' = <<>>
  /\ UNCHANGED <<ranges, ranges_changed, cut>>

\* ar-*
ranges_free ==
  /\ run = Idle
  /\ ranges' = <<>>
  /\ UNCHANGED <<ranges_changed, run, before, cut>>

Step == SubStep \/ MergeStep \/ SortStep \/ SortEnd \/ BooleanStep \/ BooleanEnd \/ Finish

Command ==
  \/ \E f, t \in Addr : AddCommand(f, t) \/ SubCommand(f, t) \/ BooleanCommand(f, t)
  \/ MergeCommand
  \/ ListCommand
  \/ ranges_free

Init ==
  /\ ranges = <<>>
  /\ ranges_changed = FALSE
  /\ run = Idle
  /\ before = <<>>
  /\ cut = FALSE

Next == Command \/ Step

\* A command that has started goes on; nothing obliges the user to give one.
Spec == Init /\ [][Next]_vars /\ WF_vars(Step)

------------------------------------------------------------------------------
(***************************************************************************)
(* Properties.                                                             *)
(***************************************************************************)
\* Type invariant: the list holds ranges whose ends are in order.
TypeOK ==
  /\ ranges \in Seq(range_t) /\ Ordered(ranges)
  /\ ranges_changed \in BOOLEAN
  /\ run \in [op : {"idle", "sub", "merge", "sort", "list", "bool", "reported"},
             from : Nat, to : Nat, pos : Nat, at : Nat, then : {"idle", "list", "bool"},
             ch : {0, 1}, gaps : SUBSET Nat]
  /\ before \in Seq(range_t) /\ cut \in BOOLEAN

\* ar+ makes the list cover exactly what it covered and the new range,
\* however many ranges it joins one by one.
AddIsUnion ==
  [][run = Idle /\ run' = Idle => \A f, t \in Addr : AddCommand(f, t) =>
       \A x \in Addr :
         Covers(ranges', x) <=> Covers(ranges, x) \/ (f <= x /\ x < t) \/ (t <= x /\ x < f)]_vars

\* ar- never makes the list cover more, keeps everything below the
\* subtracted range, and loses something above it only from a range that
\* reached around it.
SubKeeps ==
  run.op = "sub" =>
    \A x \in Addr :
      /\ Covers(ranges, x) => Covers(before, x)
      /\ Covers(before, x) /\ ~Covers(ranges, x) =>
           /\ x >= run.from
           /\ x >= run.to => \E i \in 1 .. Len(before) :
                               /\ before[i].from < run.from
                               /\ before[i].from <= x /\ x < before[i].to

\* arm changes ranges while it walks over them, and the list still covers
\* the same addresses.
MergeKeeps == run.op = "merge" => \A x \in Addr : Covers(ranges, x) <=> Covers(before, x)

\* Listings and arb see a sorted list with the ranges that were there,
\* whether the sort ran or ranges_changed let it be skipped.  Only a start
\* that ar- moved without setting ranges_changed can be out of order.
SortedWhenUsed ==
  run.op \in {"list", "bool", "reported"} =>
    /\ cut \/ Sorted(ranges)
    /\ \E p \in [1 .. Len(ranges) -> 1 .. Len(before)] :
         /\ \A i, j \in 1 .. Len(ranges) : p[i] = p[j] => i = j
         /\ \A i \in 1 .. Len(ranges) : ranges[i] = before[p[i]]
    /\ Len(ranges) = Len(before)

\* A range arb may not see: one that starts at or before its interval, or
\* inside or at the end of a range listed before it that starts later than the
\* interval.  BooleanStep skips it without moving on behind it.
PassedOver(i) ==
  \/ ranges[i].from <= run.from
  \/ \E j \in 1 .. i - 1 :
       run.from < ranges[j].from /\ ranges[j].from <= ranges[i].from /\ ranges[i].from <= ranges[j].to

\* arb reports every address of its interval that no range covers, nothing
\* outside the interval, and of the covered addresses only those of ranges it
\* passes over, as long as ar- has left the list sorted.
GapsTrue ==
  run.op = "reported" =>
    /\ \A x \in Addr : run.from <= x /\ x < run.to => x \in run.gaps \/ Covers(ranges, x)
    /\ \A x \in run.gaps :
         /\ run.from <= x /\ x < run.to
         /\ \A i \in 1 .. Len(ranges) :
              ranges[i].from <= x /\ x < ranges[i].to => cut \/ PassedOver(i)

\* A listing shows the list as it was, in order, and arb the gaps between the
\* ranges, with the exceptions above: what arb prints is no exact complement.
ListingsTrue == SortedWhenUsed /\ GapsTrue

\* Every command ends, also ar- which goes back to the head of the list
\* whenever it deletes or splits a range.
CommandEnds == run # Idle ~> run = Idle

\* After ar- the list covers no address of the subtracted range, as the
\* drawing above ranges_sub shows.  The code violates it.
SubRemoves == Visited("sub") => \A x \in Addr : run.from <= x /\ x < run.to => ~Covers(ranges, x)
===============================================================================
