----------------------------- MODULE Breakpoints -----------------------------
(***************************************************************************)
(* The breakpoint table of the i386 Linux debugger (dbg/bp.c), the two     *)
(* ways it arms a breakpoint (int3 bytes and debug registers,              *)
(* dbg/arch/i386-bp.c), and the run-control commands that set a temporary  *)
(* breakpoint, let the traced process run and remove it again              *)
(* (dbg/debug.c, dbg/unix/debug.c).                                        *)
(*                                                                         *)
(* A byte of the process is its original value or int3, so memory is the   *)
(* set cc of the addresses that hold int3 and a saved copy of some bytes   *)
(* is the int3 addresses among them.  Address 0 marks a free slot.         *)
(* Hit counters and flags are left out: nothing reads them.                *)
(***************************************************************************)
EXTENDS Integers, FiniteSets

CONSTANTS
  MaxBps,     \* MAX_BPS, 128 in the code
  NDR,        \* DR_NADDR, 4 on i386
  Addr,       \* the mapped addresses of the traced process
  Entry,      \* the address where a new process starts
  Len,        \* the length of the instruction that starts at an address
  Succ,       \* the addresses an instruction may lead to
  Calls,      \* the instructions !stepo steps over
  BpAddr,     \* the addresses the user sets breakpoints at
  RmAddr,     \* the addresses the user asks to remove a breakpoint from
  TempAddr,   \* the addresses run control sets a temporary breakpoint at
  DrAddr,     \* the addresses the user puts in a debug register with !dr
  Types,      \* the kinds of breakpoint the user asks for
  HwBp        \* dbg.hwbp: "hard" or "soft"

ASSUME LayoutAssumption ==
  /\ MaxBps \in Nat \ {0} /\ NDR \in Nat
  /\ Addr \subseteq Nat \ {0, 1} /\ Entry \in Addr
  /\ Len \in [Addr -> Nat \ {0}]
  /\ Succ \in [Addr -> SUBSET Addr]
  /\ Calls \subseteq Addr
  /\ BpAddr \subseteq Addr /\ TempAddr \subseteq Addr /\ DrAddr \subseteq Addr \union {0}
  /\ RmAddr \subseteq Addr \union {0}
  /\ Types \subseteq {"soft", "hard", "trace"} /\ HwBp \in {"soft", "hard"}

\* Breakpoints that do not interfere: what the user sets and what run
\* control sets are apart, no breakpoint lies inside the instruction of
\* another one, and none is on a one-byte instruction, after which the
\* program would stop one byte further on.
Separate ==
  LET All == BpAddr \union TempAddr
  IN  /\ BpAddr \intersect TempAddr = {}
      /\ 0 \notin RmAddr
      /\ \A a, b \in All : b \in a .. a + Len[a] - 1 => a = b
      /\ \A a \in All : a + 1 \notin All /\ \A x \in Addr : a + 1 \notin Succ[x]

VARIABLES
  bps,    \* ps.bps
  bps_n,  \* ps.bps_n
  dr,     \* the address registers DR0.. with their access type in DR7
  cc,     \* the addresses whose byte is int3
  pc,     \* the program counter of the traced process
  mode,   \* "shell", or how the process runs: "cont", "step", "tracing"
  then,   \* what the command that let the process run does when it stops
  want,   \* history variable: breakpoints the user set and did not remove
  manual, \* history variable: the user changed a debug register with !dr
  at,     \* history variable: the instruction the program has reached
  ran     \* history variable: the command executed some instruction

table == <<bps, bps_n, dr, cc>>
vars == <<bps, bps_n, dr, cc, pc, mode, then, want, manual, at, ran>>

Slot == 0 .. MaxBps - 1
DR == 0 .. NDR - 1
Bp == [addr : Addr \union {0}, hw : {0, 1}, trace : {0, 1}, len : Nat, data : SUBSET Addr]
Bytes(a, l) == a .. a + l - 1

Done == [op |-> "done", arg |-> 0]

Used == {i \in Slot : bps[i].addr # 0}
Listed == {bps[i].addr : i \in Used}
Soft == {i \in Used : bps[i].hw = 0}
Hard == {i \in Used : bps[i].hw = 1}

First(S) == CHOOSE i \in S : \A j \in S : i <= j
Last(S) == CHOOSE i \in S : \A j \in S : i >= j

(***************************************************************************)
(* Debug registers: arch_set_wp_hw_n takes the last register that holds 0, *)
(* or keeps one that already has the address and the type.                 *)
(***************************************************************************)
DrSame(d, a, type) == {k \in DR : d[k] = [addr |-> a, type |-> type]}
DrFree(d) == {k \in DR : d[k].addr = 0}

arch_set_wp_hw(d, a, type) ==
  IF DrSame(d, a, type) # {} \/ DrFree(d) = {} THEN d
  ELSE [d EXCEPT ![Last(DrFree(d))] = [addr |-> a, type |-> type]]

DrAvailable(d, a, type) == DrSame(d, a, type) \union DrFree(d) # {}

\* The registers arch_bp_rm_hw clears for the addresses in S, and a variant
\* with a bug: a released register is not cleared.
DrWithout_kept(d, S) == d

DrWithout(d, S) ==
  [k \in DR |-> IF d[k].addr \in S /\ \A j \in 0 .. k - 1 : d[j].addr # d[k].addr
                THEN [d[k] EXCEPT !.addr = 0] ELSE d[k]]

(***************************************************************************)
(* Software breakpoints: the bytes of the instruction are saved, its first *)
(* byte becomes int3.  The length of an instruction some of whose bytes    *)
(* already are int3 is what the disassembler makes of the altered bytes.   *)
(***************************************************************************)
get_len_ins(m, a) ==
  IF a \in m THEN {1}
  ELSE IF Bytes(a, Len[a]) \intersect m = {} THEN {Len[a]}
  ELSE 1 .. Len[a]

arch_set_bp_soft(m, a, l) == [len |-> l, data |-> m \intersect Bytes(a, l)]

\* Memory after arch_bp_rm_soft of the slots R, lowest slot first, and a
\* variant with a bug: the saved bytes are not written back.
MemWithout_kept(m, R) == m

MemWithout(m, R) ==
  LET cover(x) == {i \in R : bps[i].hw = 0 /\ x \in Bytes(bps[i].addr, bps[i].len)}
  IN  {x \in Addr : IF cover(x) = {} THEN x \in m ELSE x \in bps[Last(cover(x))].data}

(***************************************************************************)
(* The table.  debug_bp_get searches every slot, the free ones included.   *)
(***************************************************************************)
debug_bp_get(a) == {i \in Slot : bps[i].addr = a}

\* The slot debug_bp_set takes, and a variant with a bug: the last free one.
FreeSlot_last == Last(Slot \ Used)

FreeSlot == First(Slot \ Used)

\* What debug_bp_set returns.
debug_bp_set_ret(a) ==
  IF bps_n = MaxBps THEN -2
  ELSE IF a \in Listed THEN 0
  ELSE FreeSlot

\* debug_bp_set.  A hardware breakpoint that finds no register becomes a
\* software one.  With no free slot left and bps_n below MAX_BPS the code
\* writes bps[-1]: the model stops there.
debug_bp_set(a, type) ==
  IF bps_n = MaxBps \/ a \in Listed THEN UNCHANGED table
  ELSE /\ Used # Slot
       /\ bps_n' = bps_n + 1
       /\ IF type = "hard" /\ DrAvailable(dr, a, "x")
          THEN /\ dr' = arch_set_wp_hw(dr, a, "x")
               /\ bps' = [bps EXCEPT ![FreeSlot] = [@ EXCEPT !.addr = a, !.hw = 1, !.trace = 0]]
               /\ UNCHANGED cc
          ELSE \E l \in get_len_ins(cc, a) :
               /\ bps' = [bps EXCEPT ![FreeSlot] =
                    [addr |-> a, hw |-> 0, trace |-> IF type = "trace" THEN 1 ELSE 0,
                     len |-> l, data |-> arch_set_bp_soft(cc, a, l).data]]
               /\ cc' = cc \union {a}
               /\ UNCHANGED dr

\* The slots of R whose removal arch_bp_rm_hw refuses.
Refused(R) == {i \in R : bps[i].hw = 1 /\ \A k \in DR : dr[k].addr # bps[i].addr}

\* Disarm and free the slots R; removing at address 0 disarms nothing.
Drop(R) ==
  /\ bps' = [i \in Slot |-> IF i \in R THEN [bps[i] EXCEPT !.addr = 0] ELSE bps[i]]
  /\ bps_n' = bps_n - Cardinality(R)
  /\ dr' = DrWithout(dr, {bps[i].addr : i \in {j \in R : bps[j].hw = 1}})
  /\ cc' = MemWithout(cc, R \intersect Used)

\* debug_bp_rm with a bug: the counter is not updated.
debug_bp_rm_uncounted(a) ==
  LET i == First(debug_bp_get(a))
  IN  IF debug_bp_get(a) = {} \/ Refused({i}) # {} THEN UNCHANGED table
      ELSE /\ bps' = [bps EXCEPT ![i].addr = 0]
           /\ dr' = DrWithout(dr, {bps[j].addr : j \in {k \in {i} : bps[k].hw = 1}})
           /\ cc' = MemWithout(cc, {i} \intersect Used)
           /\ UNCHANGED bps_n

debug_bp_rm(a) ==
  LET i == First(debug_bp_get(a))
  IN  IF debug_bp_get(a) = {} \/ Refused({i}) # {} THEN UNCHANGED table
      ELSE Drop({i})

debug_bp_rm_num(n) ==
  IF n >= 0 /\ n < bps_n THEN debug_bp_rm(bps[n].addr) ELSE UNCHANGED table

\* debug_bp_rms: the slots in order, until the counter is zero or one fails.
debug_bp_rms ==
  Drop({i \in Used : /\ Cardinality({j \in Used : j <= i}) <= bps_n
                     /\ Refused({j \in Used : j <= i}) = {}})

------------------------------------------------------------------------------
(***************************************************************************)
(* The stop of the traced process.  debug_bp_restore, called before the    *)
(* process runs, does nothing here: it returns unless WS(bp) is set, and   *)
(* in the Unix debugger nothing sets it.                                   *)
(***************************************************************************)
Goto(p) == pc' = p

\* debug_bp_restore_after, where the process trapped at p, and two variants
\* with a bug: the program counter stays after the int3, or goes back by
\* the length of the instruction.
debug_bp_restore_after_kept(p) == p

debug_bp_restore_after_len(p) == IF debug_bp_get(p - 1) # {} THEN p - Len[p - 1] ELSE p

debug_bp_restore_after(p) ==
  IF \E i \in debug_bp_get(p) : bps[i].hw = 1 THEN p
  ELSE IF debug_bp_get(p - 1) # {} THEN p - 1
  ELSE p

\* The breakpoint just hit is a trace breakpoint.
TraceHit(p) ==
  /\ \A i \in debug_bp_get(p) : bps[i].hw = 0
  /\ \E i \in debug_bp_get(p - 1) : bps[i].trace = 1

\* The rest of the command once the process has stopped.
Return ==
  \/ /\ then.op = "done"
     /\ mode' = "shell"
     /\ UNCHANGED <<table, then>>
  \/ /\ then.op = "rm"
     /\ mode' = "shell"
     /\ then' = Done
     /\ debug_bp_rm_num(then.arg)
  \/ /\ then.op = "here"
     /\ mode' = "cont"
     /\ then' = [op |-> "rm", arg |-> debug_bp_set_ret(then.arg)]
     /\ debug_bp_set(then.arg, "soft")

\* debug_dispatch_wait for SIGTRAP: a trace breakpoint is stepped with
\* debug_step inside the handler, any other stop ends the command.  The
\* variant has a bug: debug_cont goes on after a hardware breakpoint.
Trap_hw_ignored(p) ==
  /\ Goto(debug_bp_restore_after(p))
  /\ IF mode = "cont" /\ \E i \in debug_bp_get(p) : bps[i].hw = 1
     THEN UNCHANGED <<table, mode, then>>
     ELSE Return

Trap(p) ==
  /\ Goto(debug_bp_restore_after(p))
  /\ IF TraceHit(p)
     THEN mode' = "tracing" /\ UNCHANGED <<table, then>>
     ELSE Return

\* The processor executes the instruction at pc.  A debug register for
\* execution stops the process before the instruction it names.
Execute ==
  /\ mode \in {"cont", "step"}
  /\ pc \notin cc
  /\ \E s \in Succ[pc] :
       /\ at' = s
       /\ IF mode = "cont" /\ DrSame(dr, s, "x") = {}
          THEN Goto(s) /\ UNCHANGED <<table, mode, then>>
          ELSE Trap(s)
  /\ ran' = TRUE
  /\ UNCHANGED <<want, manual>>

\* The processor executes an int3.
Int3 ==
  /\ mode # "shell"
  /\ mode = "tracing" => TraceHit(pc + 1)
  /\ pc \in cc
  /\ Trap(pc + 1)
  /\ UNCHANGED <<want, manual, at, ran>>

\* Another signal stops the running process, where it is.
Signal ==
  /\ mode = "cont"
  /\ Return
  /\ ran' = TRUE
  /\ UNCHANGED <<pc, want, manual, at>>

------------------------------------------------------------------------------
(***************************************************************************)
(* The commands of the user.                                               *)
(***************************************************************************)
Prompt == mode = "shell"

Stay == UNCHANGED <<pc, mode, then, at, ran>>

\* !bp, !bps, !bph, !bpt addr
SetCommand(a, type) ==
  /\ Prompt
  /\ debug_bp_set(a, type)
  /\ want' = IF bps_n = MaxBps THEN want ELSE want \union {a}
  /\ UNCHANGED manual
  /\ Stay

\* !bp -addr
RemoveCommand(a) ==
  /\ Prompt
  /\ debug_bp_rm(a)
  /\ want' = IF table' = table THEN want ELSE want \ {a}
  /\ UNCHANGED manual
  /\ Stay

\* !bp*
RemoveAllCommand ==
  /\ Prompt
  /\ debug_bp_rms
  /\ want' = want \intersect {bps'[i].addr : i \in Slot}
  /\ UNCHANGED manual
  /\ Stay

\* !dr[k][type] addr sets one register, or the one arch_set_wp_hw chooses.
DrCommand(k, a, type) ==
  /\ Prompt
  /\ dr' = IF k = -1 THEN arch_set_wp_hw(dr, a, type)
           ELSE [dr EXCEPT ![k] = [addr |-> a, type |-> type]]
  /\ manual' = TRUE
  /\ UNCHANGED <<bps, bps_n, cc, want>>
  /\ Stay

\* !dr-
DrReset ==
  /\ Prompt
  /\ DrAddr # {}
  /\ dr' = [k \in DR |-> [addr |-> 0, type |-> "x"]]
  /\ manual' = TRUE
  /\ UNCHANGED <<bps, bps_n, cc, want>>
  /\ Stay

\* !load: debug_fork_and_attach starts a new process, which has no int3 and
\* no debug register, and debug_bp_reload_all arms the table in it.  The
\* loop there ends only if bps_n slots are in use: the model stops where it
\* would leave the array.
Reloaded == {i \in Used : Cardinality({j \in Used : j <= i}) <= bps_n}

ReloadedHard == {i \in Reloaded : bps[i].hw = 1}

ReloadedSoft == {i \in Reloaded : bps[i].hw = 0}

\* The int3 bytes already set when the loop reaches slot i.
Int3Before(i) == {bps[j].addr : j \in {k \in ReloadedSoft : k < i}}

debug_bp_reload_all ==
  /\ bps_n >= 0 /\ Cardinality(Reloaded) = bps_n
  /\ dr' = [k \in DR |->
       LET S == {i \in ReloadedHard : Cardinality({j \in ReloadedHard : j <= i}) = NDR - k}
       IN  [addr |-> IF S = {} THEN 0 ELSE bps[First(S)].addr, type |-> "x"]]
  /\ cc' = {bps[i].addr : i \in ReloadedSoft}
  /\ \E l \in [ReloadedSoft -> UNION {1 .. Len[bps[i].addr] : i \in ReloadedSoft}] :
       /\ \A i \in ReloadedSoft : l[i] \in get_len_ins(Int3Before(i), bps[i].addr)
       /\ bps' = [i \in Slot |->
            IF i \in ReloadedSoft
            THEN [bps[i] EXCEPT !.len = l[i],
                                !.data = arch_set_bp_soft(Int3Before(i), bps[i].addr, l[i]).data]
            ELSE bps[i]]
  /\ UNCHANGED bps_n

Load ==
  /\ Prompt
  /\ debug_bp_reload_all
  /\ pc' = Entry /\ at' = Entry /\ ran' = TRUE
  /\ UNCHANGED <<mode, then, want, manual>>

\* Let the process run; the command ends with t.
Run(how, t) ==
  /\ mode' = how
  /\ then' = t
  /\ ran' = FALSE
  /\ UNCHANGED <<pc, want, manual, at>>

\* !step, with dbg.stepo off (the default)
debug_step == Prompt /\ Run("step", Done) /\ UNCHANGED table

\* !cont
debug_cont == Prompt /\ Run("cont", Done) /\ UNCHANGED table

\* A temporary breakpoint at a, to be removed by its slot number.
RunUntil(a, type) ==
  /\ debug_bp_set(a, type)
  /\ Run("cont", [op |-> "rm", arg |-> debug_bp_set_ret(a)])

\* !stepo: a call, if int3 does not hide it, is passed with a hardware
\* breakpoint after it; any other instruction is a step.
debug_stepo ==
  /\ Prompt
  /\ IF pc \in Calls \ cc
     THEN pc + Len[pc] \in TempAddr /\ RunUntil(pc + Len[pc], "hard")
     ELSE Run("step", Done) /\ UNCHANGED table

\* !contu addr
debug_cont_until(a) ==
  /\ Prompt
  /\ RunUntil(a, HwBp)

\* !contuh: one step, then until the same address again.
debug_contuh ==
  /\ Prompt
  /\ pc \in TempAddr
  /\ Run("step", [op |-> "here", arg |-> pc])
  /\ UNCHANGED table

Init ==
  /\ bps = [i \in Slot |-> [addr |-> 0, hw |-> 0, trace |-> 0, len |-> 0, data |-> {}]]
  /\ bps_n = 0
  /\ dr = [k \in DR |-> [addr |-> 0, type |-> "x"]]
  /\ cc = {}
  /\ pc = Entry
  /\ mode = "shell"
  /\ then = Done
  /\ want = {}
  /\ manual = FALSE
  /\ at = Entry
  /\ ran = TRUE

Process == Execute \/ Int3 \/ Signal

Next ==
  \/ Process
  \/ \E a \in BpAddr, type \in Types : SetCommand(a, type)
  \/ \E a \in RmAddr : RemoveCommand(a)
  \/ RemoveAllCommand
  \/ \E k \in -1 .. NDR - 1, a \in DrAddr, type \in {"r", "x"} : DrCommand(k, a, type)
  \/ DrReset
  \/ Load
  \/ debug_step
  \/ debug_cont
  \/ debug_stepo
  \/ \E a \in TempAddr : debug_cont_until(a)
  \/ debug_contuh

Spec == Init /\ [][Next]_vars

------------------------------------------------------------------------------
(***************************************************************************)
(* Properties.                                                             *)
(***************************************************************************)
\* Type invariant: the table, the registers and memory keep their shape.
TypeOK ==
  /\ bps \in [Slot -> Bp]
  /\ bps_n \in 0 .. MaxBps
  /\ dr \in [DR -> [addr : Addr \union {0}, type : {"r", "x"}]]
  /\ cc \subseteq Addr
  /\ pc \in Addr
  /\ mode \in {"shell", "cont", "step", "tracing"}
  /\ then \in [op : {"done", "rm", "here"}, arg : Int]
  /\ want \subseteq Addr
  /\ manual \in BOOLEAN
  /\ at \in Addr
  /\ ran \in BOOLEAN

\* The counter every function of bp.c trusts (the full test of
\* debug_bp_set, the guard of debug_bp_rm_num, the loops of debug_bp_rms and
\* debug_bp_reload_all) is the number of slots in use.
CountAgrees == bps_n = Cardinality(Used)

\* No two slots hold the same address.
Unique == \A i, j \in Used : bps[i].addr = bps[j].addr => i = j

\* The process has an int3 exactly where the table lists a software
\* breakpoint, whatever was set, hit, removed and reloaded: saving and
\* restoring instruction bytes loses none and leaves none behind.
MemoryMatchesTable == cc = {bps[i].addr : i \in Soft}

\* Unless the user interferes, a debug register stops execution exactly at
\* the hardware breakpoints of the table: none is unarmed and none leaks.
RegistersMatchTable ==
  ~manual => {dr[k].addr : k \in DR} \ {0} = {bps[i].addr : i \in Hard}

\* At the prompt, every breakpoint of the table is one the user set: the
\* temporary one of !stepo, !contu and !contuh was removed by its number,
\* although that number is compared with the count of breakpoints.
NoTemporaryLeft == mode = "shell" => Listed \subseteq want

\* At the prompt, the program counter shows the instruction the program has
\* reached, after any mix of int3 stops, register stops and steps.
ProgramCounterTrue == mode = "shell" => pc = at

\* A running process never executes an instruction that has a software
\* breakpoint, and never runs on past one that has a hardware breakpoint.
NoBreakpointMissed ==
  [][at' # at /\ mode # "shell" =>
       /\ pc \notin {bps[i].addr : i \in Soft}
       /\ ~manual /\ mode = "cont" /\ mode' = "cont" => at' \notin {bps[i].addr : i \in Hard}]_vars

\* A command that lets the process run has executed something when it
\* returns: it does not stop again at the breakpoint it starts from.
ContinueProceeds == mode = "shell" => ran
=============================================================================
