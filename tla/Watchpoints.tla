---------------------------- MODULE Watchpoints -----------------------------
(***************************************************************************)
(* Watchpoints (dbg/wp.c, debug_wp and debug_contwp in dbg/debug.c): a     *)
(* table of conditions, evaluated after every step of !contwp by eval_cond *)
(* (dbg/parser.c).                                                         *)
(*                                                                         *)
(* A condition is a list of tokens; a token is a comparison or a group of  *)
(* comparisons in parentheses, with the operator behind it, "" at the end. *)
(* What a comparison yields is up to the process.  The limit of the table  *)
(* is tested against its size in bytes, so that a fifth watchpoint is      *)
(* written behind it, and !wp -4 looks there: both are left out, and so    *)
(* are the command of cmd.wp and the memory that free_cond reads after     *)
(* it is freed when a condition has a group.                               *)
(***************************************************************************)
EXTENDS Integers, Sequences, FiniteSets

CONSTANTS
  Comparison,   \* what registers and memory are compared with
  Condition,    \* the conditions the user gives
  WpSlots       \* the size of the table, 4 in the source

\* There is an operator behind every token of a list but the last.
IsList(l) ==
  /\ Len(l) \in Nat \ {0} /\ DOMAIN l = 1 .. Len(l)
  /\ \A k \in DOMAIN l : l[k].op \in IF k = Len(l) THEN {""} ELSE {"and", "or"}

ASSUME WatchAssumption ==
  /\ WpSlots \in Nat \ {0}
  /\ \A c \in Condition :
       /\ IsList(c)
       /\ \A k \in DOMAIN c :
            IF c[k].group = <<>> THEN c[k].cmp \in Comparison
            ELSE IsList(c[k].group) /\ \A j \in DOMAIN c[k].group : c[k].group[j].cmp \in Comparison

VARIABLES
  wps,          \* the table; <<>> in a free slot
  wps_n,        \* the number of watchpoints
  process,      \* which comparisons hold now
  contwp,       \* whether debug_contwp runs: "no", "steps" or "matched"
  ret,          \* what debug_wp_match returned last
  wptrace       \* dbg.wptrace: report and go on

wpvars == <<wps, wps_n, process, contwp, ret, wptrace>>

Wp == 0 .. WpSlots - 1
Used == {i \in Wp : wps[i] # <<>>}

WpTypeOK ==
  /\ wps \in [Wp -> Condition \union {<<>>}] /\ wps_n \in 0 .. WpSlots
  /\ process \in [Comparison -> BOOLEAN] /\ contwp \in {"no", "steps", "matched"}
  /\ ret \in {-1} \union Wp /\ wptrace \in BOOLEAN

WpInit ==
  /\ wps = [i \in Wp |-> <<>>] /\ wps_n = 0 /\ wptrace = FALSE
  /\ process = [c \in Comparison |-> FALSE] /\ contwp = "no" /\ ret = -1

(***************************************************************************)
(* eval_cond: from left to right, with the operator behind the last token  *)
(* that was evaluated.  A variant with a bug: a token that is passed over  *)
(* gives its operator too.                                                 *)
(***************************************************************************)
PassedOver(r) == (r.val /\ r.op = "or") \/ (~r.val /\ r.op = "and")

eval_list_passed(vals, ops) ==
  LET f[n \in 0 .. Len(vals)] ==
        IF n = 0 THEN [val |-> TRUE, op |-> ""]
        ELSE LET r == f[n - 1]
                 op == IF ops[n] = "" THEN r.op ELSE ops[n]
             IN  [val |-> IF PassedOver(r) THEN r.val ELSE vals[n], op |-> op]
  IN  f[Len(vals)].val

eval_list(vals, ops) ==
  LET f[n \in 0 .. Len(vals)] ==
        IF n = 0 THEN [val |-> TRUE, op |-> ""]
        ELSE LET r == f[n - 1]
             IN  IF PassedOver(r) THEN r
                 ELSE [val |-> vals[n], op |-> IF ops[n] = "" THEN r.op ELSE ops[n]]
  IN  f[Len(vals)].val

eval_token(t, p) ==
  IF t.group = <<>> THEN p[t.cmp]
  ELSE eval_list([k \in DOMAIN t.group |-> p[t.group[k].cmp]], [k \in DOMAIN t.group |-> t.group[k].op])

eval_cond(c, p) ==
  eval_list([k \in DOMAIN c |-> eval_token(c[k], p)], [k \in DOMAIN c |-> c[k].op])

(***************************************************************************)
(* The table.                                                              *)
(***************************************************************************)
FirstFree == CHOOSE i \in Wp \ Used : \A j \in Wp \ Used : i <= j

\* !wp condition
debug_wp_add(c) ==
  /\ contwp = "no" /\ Used # Wp
  /\ wps' = [wps EXCEPT ![FirstFree] = c] /\ wps_n' = wps_n + 1
  /\ UNCHANGED <<process, contwp, ret, wptrace>>

\* !wp -i.  A variant with a bug: a free slot is counted too.
debug_wp_rm_free(i) ==
  /\ contwp = "no" /\ wps_n > 0
  /\ wps' = [wps EXCEPT ![i] = <<>>] /\ wps_n' = wps_n - 1
  /\ UNCHANGED <<process, contwp, ret, wptrace>>

debug_wp_rm(i) ==
  /\ contwp = "no" /\ wps[i] # <<>>
  /\ wps' = [wps EXCEPT ![i] = <<>>] /\ wps_n' = wps_n - 1
  /\ UNCHANGED <<process, contwp, ret, wptrace>>

\* The first slot that matches, where the scan ends after wps_n used slots.  A
\* variant with a bug: it ends after wps_n slots.
Scanned_slots(i) == i < wps_n
Scanned(i) == Cardinality({j \in Used : j < i}) < wps_n

debug_wp_match(p) ==
  LET M == {i \in Used : Scanned(i) /\ eval_cond(wps[i], p)}
  IN  IF M = {} THEN -1 ELSE CHOOSE i \in M : \A j \in M : i <= j

(***************************************************************************)
(* !contwp: step until one matches, ^C or the end of the process.          *)
(***************************************************************************)
debug_contwp ==
  /\ contwp = "no" /\ wps_n # 0 /\ contwp' = "steps"
  /\ UNCHANGED <<wps, wps_n, process, ret, wptrace>>

Step(p) ==
  /\ contwp = "steps" /\ process' = p /\ ret' = debug_wp_match(p)
  /\ contwp' = IF ret' = -1 \/ wptrace THEN "steps" ELSE "matched"
  /\ UNCHANGED <<wps, wps_n, wptrace>>

\* The loop ends: back to the prompt.
Stopped ==
  /\ contwp # "no" /\ contwp' = "no"
  /\ UNCHANGED <<wps, wps_n, process, ret, wptrace>>

SetWptrace(b) == contwp = "no" /\ wptrace' = b /\ UNCHANGED <<wps, wps_n, process, contwp, ret>>

WpNext ==
  \/ \E c \in Condition : debug_wp_add(c)
  \/ \E i \in Wp : debug_wp_rm(i)
  \/ debug_contwp \/ Stopped
  \/ \E p \in [Comparison -> BOOLEAN] : Step(p)
  \/ \E b \in BOOLEAN : SetWptrace(b)

-----------------------------------------------------------------------------
\* What a condition means: an operator takes everything behind it as its
\* right-hand side, "and" and "or" alike.
ListMeans(vals, ops) ==
  LET f[n \in 1 .. Len(vals)] ==
        IF n = Len(vals) THEN vals[n]
        ELSE IF ops[n] = "and" THEN vals[n] /\ f[n + 1] ELSE vals[n] \/ f[n + 1]
  IN  f[1]

TokenMeans(t, p) ==
  IF t.group = <<>> THEN p[t.cmp]
  ELSE ListMeans([k \in DOMAIN t.group |-> p[t.group[k].cmp]], [k \in DOMAIN t.group |-> t.group[k].op])

Means(c, p) == ListMeans([k \in DOMAIN c |-> TokenMeans(c[k], p)], [k \in DOMAIN c |-> c[k].op])

\* !contwp stops at the watchpoint with the lowest number whose condition
\* holds, and only there, whatever was removed from the table before.
StopsWhereItHolds ==
  /\ wps_n = Cardinality(Used)
  /\ contwp = "matched" =>
       /\ ret \in Used /\ Means(wps[ret], process)
       /\ \A j \in Used : j < ret => ~Means(wps[j], process)

\* No step of !contwp passes a state in which a watchpoint holds, unless
\* dbg.wptrace says to go on.
NothingPassed ==
  [][contwp = "steps" /\ contwp' = "steps" /\ ~wptrace =>
       \A i \in Used : ~Means(wps[i], process')]_wpvars

\* Watchpoints watch what they say.
WatchTrue == [](WpTypeOK /\ StopsWhereItHolds) /\ NothingPassed
=============================================================================
