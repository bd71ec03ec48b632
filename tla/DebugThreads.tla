---------------------------- MODULE DebugThreads ----------------------------
(***************************************************************************)
(* The debugger and the threads of the traced process: how !cont and !step *)
(* let threads run (debug_contp, debug_os_steps), how debug_dispatch_wait  *)
(* reads what waitpid reports, and the list of known threads               *)
(* (dbg/thread.c), on i386 Linux.  The kernel's side is modelled from how  *)
(* the code uses ptrace and waitpid: a thread that stops or ends has an    *)
(* unread event, waitpid reads the event of any thread, or of a given one, *)
(* and PTRACE_CONT of a stopped thread drops the event it did not read.    *)
(*                                                                         *)
(* Breakpoints are left to module Breakpoints; memory is assumed to        *)
(* suffice.  The list is a set: what it holds twice it shows twice.        *)
(***************************************************************************)
EXTENDS Naturals

CONSTANTS
  Main,     \* ps.pid
  Others,   \* the identifiers of other threads and of forked processes
  Ignorable, \* the events the user has !ignore ignore: "stop" or "trap"
  NoTid     \* -1, what waitpid returns when there is no child

ASSUME TidAssumption == Main \notin Others /\ NoTid \notin Others \union {Main}

Tid == Others \union {Main}

VARIABLES
  st,        \* kernel: "absent", "running", "stopped", "dead" or "reaped"
  ev,        \* kernel: the event of a thread that nobody has read
  child,     \* kernel: the thread the clone event of the main thread is about
  tid,       \* ps.tid
  th_list,   \* ps.th_list
  phase,     \* "shell"; "loop" of debug_cont; in "wait"pid; "waitnew"
  cmd,       \* the command that waits: "cont" or "step"
  newt,      \* the thread the second waitpid of debug_dispatch_wait waits for
  opt,       \* dbg.focus, dbg.contall and the events !ignore ignores
  lost,      \* history variable: threads whose event nobody was shown
  switched   \* history variable: the user changed the thread with !th

kernel == <<st, ev, child>>
options == <<opt, switched>>
vars == <<st, ev, child, tid, th_list, phase, cmd, newt, opt, lost, switched>>

\* A signal without an entry in the table of events is handled like a trap
\* that is not ignored, and so is the fork event of the creator of a process.
StopEvent == {"stop", "trap", "clone"}
Opt == [focus : BOOLEAN, contall : BOOLEAN, ignored : SUBSET Ignorable]

TypeOK ==
  /\ st \in [Tid -> {"absent", "running", "stopped", "dead", "reaped"}]
  /\ ev \in [Tid -> StopEvent \union {"none", "end"}]
  /\ child \in Tid
  /\ tid \in Tid \union {NoTid}
  /\ th_list \subseteq Tid \union {NoTid}
  /\ phase \in {"shell", "loop", "wait", "waitnew"} /\ cmd \in {"cont", "step"}
  /\ newt \in IF phase = "waitnew" THEN Others ELSE {Main}
  /\ opt \in Opt /\ lost \subseteq Tid /\ switched \in BOOLEAN

Init ==
  /\ st = [t \in Tid |-> IF t = Main THEN "stopped" ELSE "absent"]
  /\ ev = [t \in Tid |-> "none"]
  /\ child = Main
  /\ tid = Main /\ th_list = {}
  /\ phase = "shell" /\ cmd = "cont" /\ newt = Main
  /\ opt \in Opt
  /\ lost = {} /\ switched = FALSE

(***************************************************************************)
(* The kernel and the traced process.                                      *)
(***************************************************************************)
Stop(t, e) ==
  /\ st[t] = "running"
  /\ st' = [st EXCEPT ![t] = "stopped"] /\ ev' = [ev EXCEPT ![t] = e]
  /\ UNCHANGED <<child, tid, th_list, phase, cmd, newt, lost, options>>

\* A thread creates another one, whose identifier may have been used before:
\* both stop, the creator with the event e and the new one with SIGSTOP.
Create(t, u, e) ==
  /\ st[t] = "running" /\ u # Main /\ st[u] \in {"absent", "reaped"}
  /\ st' = [st EXCEPT ![t] = "stopped", ![u] = "stopped"]
  /\ ev' = [ev EXCEPT ![t] = e, ![u] = "stop"]
  /\ child' = IF t = Main /\ e = "clone" THEN u ELSE child
  /\ lost' = lost \ {u}
  /\ UNCHANGED <<tid, th_list, phase, cmd, newt, options>>

\* A thread exits, or is killed while it is stopped.
End(t) ==
  /\ st[t] \in {"running", "stopped"}
  /\ st' = [st EXCEPT ![t] = "dead"] /\ ev' = [ev EXCEPT ![t] = "end"]
  /\ UNCHANGED <<child, tid, th_list, phase, cmd, newt, lost, options>>

\* What waitpid leaves of a thread whose event it has read.
ReadEvent(t) ==
  /\ ev' = [ev EXCEPT ![t] = "none"]
  /\ st' = [st EXCEPT ![t] = IF @ = "dead" THEN "reaped" ELSE @]
  /\ child' = IF t = Main THEN Main ELSE child

NoChildren == \A t \in Tid : st[t] \in {"absent", "reaped"}

\* PTRACE_CONT or PTRACE_SINGLESTEP of the threads in S.
Resume(S) ==
  LET R == {t \in S \intersect Tid : st[t] = "stopped"}
  IN  /\ st' = [t \in Tid |-> IF t \in R THEN "running" ELSE st[t]]
      /\ ev' = [t \in Tid |-> IF t \in R THEN "none" ELSE ev[t]]
      /\ lost' = lost \union {t \in R : ev[t] # "none"}
      /\ child' = IF Main \in R THEN Main ELSE child

Stopped(t) == t \in Tid /\ st[t] = "stopped"

(***************************************************************************)
(* The commands.                                                           *)
(***************************************************************************)
\* The threads debug_contp continues, and variants with a bug: the process
\* itself is not among them; a listed thread is taken for the current one.
Continued_no_main == IF opt.contall THEN th_list \union {tid} ELSE {tid}

Continued_listed ==
  IF opt.contall THEN th_list \union {tid, Main}
  ELSE {IF th_list = {} THEN tid ELSE CHOOSE t \in th_list : TRUE}

Continued == IF opt.contall THEN th_list \union {tid, Main} ELSE {tid}

\* debug_contp fails only when it continues one thread and that is not
\* stopped.  Variants with a bug: the failure goes unnoticed; dbg.contall
\* is taken for set.
debug_contp_unchecked ==
  /\ Resume(Continued)
  /\ phase' = "wait"

debug_contp_always_all ==
  /\ IF opt.contall \/ Stopped(tid)
     THEN Resume(th_list \union {tid, Main}) /\ phase' = "wait"
     ELSE UNCHANGED <<kernel, lost>> /\ phase' = "shell"

debug_contp ==
  IF opt.contall \/ Stopped(tid)
  THEN Resume(Continued) /\ phase' = "wait"
  ELSE UNCHANGED <<kernel, lost>> /\ phase' = "shell"

\* One turn of the loop of !cont.
debug_cont ==
  /\ phase \in {"shell", "loop"}
  /\ debug_contp
  /\ cmd' = "cont"
  /\ UNCHANGED <<tid, th_list, newt, options>>

debug_step ==
  /\ phase = "shell" /\ Stopped(tid)
  /\ Resume({tid})
  /\ phase' = "wait" /\ cmd' = "step"
  /\ UNCHANGED <<tid, th_list, newt, options>>

\* !th changes the current thread.
debug_th(t) ==
  /\ phase = "shell" /\ t # tid
  /\ tid' = t /\ switched' = TRUE
  /\ UNCHANGED <<kernel, th_list, phase, cmd, newt, opt, lost>>

(***************************************************************************)
(* debug_dispatch_wait.                                                    *)
(***************************************************************************)
\* What the caller does with the result: the loop of !cont goes on unless it
\* is 0, !step does not look at it.
Return(ret) ==
  /\ phase' = IF cmd = "cont" /\ ret # 0 THEN "loop" ELSE "shell"
  /\ cmd' = "cont"

event_is_ignored(e) ==
  \/ e = "stop" /\ "stop" \in opt.ignored
  \/ e \in {"trap", "clone"} /\ "trap" \in opt.ignored

\* dbg.focus: the event of another thread is read and forgotten.  A variant
\* with a bug: the thread of interest is the main one.
OutOfFocus_main(t) == opt.focus /\ t # Main

OutOfFocus(t) == opt.focus /\ t # tid

IgnoreOther(t) ==
  /\ phase = "wait" /\ ev[t] # "none" /\ OutOfFocus(t)
  /\ ReadEvent(t)
  /\ lost' = lost \union {t}
  /\ UNCHANGED <<tid, th_list, phase, cmd, newt, options>>

\* The thread that reported becomes the current one and is put in the list.
\* A variant with a bug: it is not.
Current_unlisted(t) ==
  /\ tid' = t
  /\ UNCHANGED th_list

Current(t) ==
  /\ tid' = t
  /\ th_list' = IF t = Main THEN th_list ELSE th_list \union {t}

\* The clone of the main thread makes the debugger wait for the new thread.
\* A variant with a bug: so does that of any thread.
IsClone_any(t) == ev[t] = "clone" /\ ~event_is_ignored("clone")

IsClone(t) == t = Main /\ ev[t] = "clone" /\ ~event_is_ignored("clone")

Dispatch(t) ==
  /\ phase = "wait" /\ ev[t] # "none" /\ ~OutOfFocus(t)
  /\ ReadEvent(t)
  /\ Current(t)
  /\ IF IsClone(t) THEN phase' = "waitnew" /\ newt' = child /\ UNCHANGED cmd
     ELSE Return(IF event_is_ignored(ev[t]) THEN 1 ELSE 0) /\ UNCHANGED newt
  /\ UNCHANGED <<lost, options>>

\* waitpid fails.  With dbg.focus the debugger calls it again for ever.
DispatchNoChild ==
  /\ phase = "wait" /\ NoChildren /\ ~OutOfFocus(NoTid)
  /\ Current(NoTid)
  /\ Return(0)
  /\ UNCHANGED <<kernel, newt, lost, options>>

\* The second waitpid: the new thread is put in the list when it stopped with
\* SIGSTOP; otherwise, and when it is gone, an error is printed.
DispatchNew ==
  /\ phase = "waitnew"
  /\ \/ st[newt] \in {"absent", "reaped"} /\ UNCHANGED <<kernel, tid, th_list, lost>>
     \/ ev[newt] # "none" /\ ReadEvent(newt)
        /\ IF ev[newt] = "stop"
           THEN tid' = newt /\ th_list' = th_list \union {newt} /\ UNCHANGED lost
           ELSE lost' = lost \union {newt} /\ UNCHANGED <<tid, th_list>>
  /\ Return(1) /\ newt' = Main
  /\ UNCHANGED options

Process == \E t \in Tid :
  \/ \E e \in {"stop", "trap"} : Stop(t, e)
  \/ \E u \in Others, e \in {"clone", "trap"} : Create(t, u, e)
  \/ End(t)

Wait == (\E t \in Tid : IgnoreOther(t) \/ Dispatch(t)) \/ DispatchNoChild \/ DispatchNew

User == debug_cont \/ debug_step \/ \E t \in Tid : debug_th(t)

Next == Process \/ Wait \/ User

\* The debugger returns from a waitpid that has an answer.
Spec == Init /\ [][Next]_vars /\ WF_vars(Wait)

-----------------------------------------------------------------------------
CanReport(t) == st[t] = "running" \/ ev[t] # "none"
Held(t) == st[t] = "stopped" /\ ev[t] = "none"

\* Every thread that stands still after its stop was read (by any of the
\* three waitpid calls of debug_dispatch_wait) can be reached by dbg.contall:
\* it is the main thread or in ps.th_list, unless one of its stops was
\* dropped without a word.
StoppedReachable == \A t \in Tid : Held(t) => t \in th_list \union {Main} \union lost

\* After the debug_contp of !cont with dbg.contall, and without dbg.focus,
\* nothing stands still but threads the debugger never listed: no thread is
\* left behind by a clone, an ignored signal or a change of thread.
ContAllRunsAll ==
  phase = "wait" /\ cmd = "cont" /\ opt.contall /\ ~opt.focus =>
    \A t \in Tid : Held(t) => t # Main /\ t \in lost \ th_list

\* No thread is left behind: what stands still can be reached by dbg.contall,
\* and dbg.contall reaches it, whatever was taken for a new thread before.
NoThreadLeftBehind == TypeOK /\ StoppedReachable /\ ContAllRunsAll

\* debug_dispatch_wait never sleeps in its first waitpid while everyone stands
\* still: some thread it listens to can report, or there is no child and
\* waitpid fails.  With dbg.focus it listens to the current thread alone.
\* The exceptions are dbg.contall, which waits whatever it continued, with
\* the focus on a thread that is gone or that was never listed.
SomeoneCanReport ==
  phase = "wait" =>
    \/ \E t \in Tid : CanReport(t) /\ (opt.focus => t = tid)
    \/ ~opt.focus /\ NoChildren
    \/ opt.contall /\ (opt.focus \/ lost # {})

\* The second waitpid waits for a thread that can still report.  It does not
\* when the SIGSTOP of the new thread was read first and nothing continued
\* the thread since: dbg.focus dropped it, or the user turned to another
\* thread with !th and does not continue them all.
NewThreadCanReport ==
  phase = "waitnew" =>
    \/ CanReport(newt) \/ st[newt] \in {"absent", "reaped"}
    \/ newt \in lost \/ (switched /\ ~(opt.contall /\ cmd = "cont"))

\* Neither waitpid of debug_dispatch_wait waits for a process of which every
\* thread waits for the debugger.
WaitCanEnd == SomeoneCanReport /\ NewThreadCanReport

\* Nothing a thread reports is dropped without a word as long as neither
\* dbg.focus nor dbg.contall nor !th is used, but for a new thread whose own
\* stop was read before the clone event of its creator, or that was killed
\* before the debugger saw it.
NoEventLost ==
  ~opt.focus /\ ~opt.contall /\ ~switched =>
    \A t \in lost : t \in th_list \/ st[t] = "reaped"

\* A stop that debug_dispatch_wait may report ends the wait: with dbg.focus
\* the stops of other threads cannot keep it from the one it is about.
StopEndsWait ==
  (phase = "wait" /\ \E t \in Tid : ev[t] # "none" /\ (opt.focus => t = tid)) ~> phase # "wait"

=============================================================================
