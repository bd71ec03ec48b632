-------------------------- MODULE DebugThreadsProofs --------------------------
(***************************************************************************)
(* Proofs about DebugThreads, for any number of threads and any settings   *)
(* of dbg.focus, dbg.contall and !ignore: no thread is left behind, no     *)
(* waitpid waits for threads that all wait for the debugger, and no event  *)
(* is lost where nothing drops one on purpose.                             *)
(***************************************************************************)
EXTENDS DebugThreads, TLAPS

\* What the kernel keeps: a running thread has nothing to report, a stop is
\* unread only while the thread stands still, and whoever is gone and not
\* yet reaped has its end to report.
KernelInv ==
  \A t \in Tid :
    /\ st[t] = "running" => ev[t] = "none"
    /\ ev[t] \in StopEvent => st[t] = "stopped"
    /\ st[t] = "dead" <=> ev[t] = "end"

\* The main thread does not run and no stop of it is unread.
MainRead == st[Main] # "running" /\ ev[Main] \in {"none", "end"}

\* A clone event is about a thread other than the main one, and the debugger
\* waits for the new thread only after it has read that event.
CloneInv ==
  /\ ev[Main] = "clone" => child \in Others
  /\ phase = "waitnew" => MainRead

\* While a clone event of the main thread is unread, the new thread can still
\* report, or is gone, or lost an event, or its stop was read and it is the
\* current thread (so the next !cont or !step runs it), or the user changed
\* the thread and does not continue them all.
ChildKnown ==
  ev[Main] = "clone" =>
    \/ CanReport(child) \/ st[child] \in {"absent", "reaped"} \/ child \in lost
    \/ phase = "wait" /\ switched /\ ~(opt.contall /\ cmd = "cont")
    \/ phase # "wait" /\ (tid = child \/ switched)

\* Until the user changes it, the current thread is the main one or listed,
\* and at the prompt the main thread is current only with its stop read.
CurrentInv ==
  ~switched =>
    /\ tid \in th_list \union {Main}
    /\ phase \in {"shell", "loop"} /\ tid = Main => MainRead

\* Where only the current thread is ever continued, what runs or did run
\* since its stop was last read is listed.
ListedInv ==
  ~opt.focus /\ ~opt.contall /\ ~switched =>
    \A t \in Tid : st[t] = "running" \/ ev[t] \in {"trap", "clone"} =>
                     t \in th_list \union {Main}

IInv ==
  /\ TypeOK /\ KernelInv /\ CloneInv /\ ChildKnown /\ CurrentInv /\ ListedInv
  /\ StoppedReachable /\ ContAllRunsAll
  /\ SomeoneCanReport /\ NewThreadCanReport
  /\ NoEventLost

------------------------------------------------------------------------------
\* The debugger starts with the main thread stopped, its stop read.
LEMMA InitIInv == Init => IInv
<1> SUFFICES ASSUME Init PROVE IInv
  OBVIOUS
<1> USE TidAssumption DEF Init, Tid, StopEvent
<1>1. TypeOK /\ KernelInv /\ CloneInv /\ ChildKnown /\ CurrentInv /\ ListedInv
  BY DEF TypeOK, KernelInv, CloneInv, ChildKnown, CurrentInv, ListedInv,
      MainRead
<1>2. StoppedReachable /\ ContAllRunsAll
  BY DEF StoppedReachable, ContAllRunsAll, Held
<1>3. SomeoneCanReport /\ NewThreadCanReport /\ NoEventLost
  BY DEF SomeoneCanReport, NewThreadCanReport, NoEventLost
<1>4. QED BY <1>1, <1>2, <1>3 DEF IInv


\* A thread of the process stops.
LEMMA Step_Stop ==
  ASSUME IInv, NEW t \in Tid, NEW e \in {"stop", "trap"}, Stop(t, e)
  PROVE  IInv'
<1> USE TidAssumption DEF Tid, IInv, Stop, StopEvent, options
<1>1. TypeOK'
  BY DEF TypeOK, Opt
<1>2. KernelInv'
  BY DEF TypeOK, KernelInv
<1>3. CloneInv'
  BY DEF TypeOK, KernelInv, CloneInv, MainRead
<1>4. ChildKnown'
  BY DEF TypeOK, KernelInv, CloneInv, MainRead, ChildKnown, CanReport
<1>5. CurrentInv'
  BY DEF TypeOK, KernelInv, CloneInv, MainRead, CurrentInv
<1>6. ListedInv'
  BY DEF TypeOK, KernelInv, CurrentInv, ListedInv
<1>7. StoppedReachable'
  BY DEF TypeOK, KernelInv, StoppedReachable, Held
<1>8. ContAllRunsAll'
  BY DEF TypeOK, StoppedReachable, ContAllRunsAll, Held
<1>9. SomeoneCanReport'
  BY DEF TypeOK, KernelInv, SomeoneCanReport, CanReport, NoChildren, Held,
      ContAllRunsAll
<1>10. NewThreadCanReport'
  BY DEF TypeOK, KernelInv, CloneInv, ChildKnown, NewThreadCanReport, CanReport
<1>11. NoEventLost'
  BY DEF TypeOK, KernelInv, CurrentInv, MainRead, ListedInv, NoEventLost
<1>12. QED BY <1>1, <1>2, <1>3, <1>4, <1>5, <1>6, <1>7, <1>8, <1>9, <1>10,
      <1>11

\* A thread of the process creates another one.
LEMMA Step_Create ==
  ASSUME IInv, NEW t \in Tid, NEW u \in Others, NEW e \in {"clone", "trap"},
         Create(t, u, e)
  PROVE  IInv'
<1> USE TidAssumption DEF Tid, IInv, Create, StopEvent, options
<1>1. TypeOK'
  BY DEF TypeOK, Opt
<1>2. KernelInv'
  BY DEF TypeOK, KernelInv
<1>3. CloneInv'
  BY DEF TypeOK, KernelInv, CloneInv, MainRead
<1>4. ChildKnown'
  BY DEF TypeOK, KernelInv, CloneInv, MainRead, ChildKnown, CanReport
<1>5. CurrentInv'
  BY DEF TypeOK, KernelInv, CloneInv, MainRead, CurrentInv
<1>6. ListedInv'
  BY DEF TypeOK, KernelInv, CurrentInv, ListedInv
<1>7. StoppedReachable'
  BY DEF TypeOK, KernelInv, StoppedReachable, Held
<1>8. ContAllRunsAll'
  BY DEF TypeOK, StoppedReachable, ContAllRunsAll, Held
<1>9. SomeoneCanReport'
  BY DEF TypeOK, KernelInv, SomeoneCanReport, CanReport, NoChildren, Held,
      ContAllRunsAll
<1>10. NewThreadCanReport'
  BY DEF TypeOK, KernelInv, CloneInv, ChildKnown, NewThreadCanReport, CanReport
<1>11. NoEventLost'
  BY DEF TypeOK, KernelInv, CurrentInv, MainRead, ListedInv, NoEventLost
<1>12. QED BY <1>1, <1>2, <1>3, <1>4, <1>5, <1>6, <1>7, <1>8, <1>9, <1>10,
      <1>11

\* A thread ends: what is gone still has its end to report.
LEMMA Step_End ==
  ASSUME IInv, NEW t \in Tid, End(t)
  PROVE  IInv'
<1> USE TidAssumption DEF Tid, IInv, End, StopEvent, options
<1>1. TypeOK'
  BY DEF TypeOK, Opt
<1>2. KernelInv'
  BY DEF TypeOK, KernelInv
<1>3. CloneInv'
  BY DEF TypeOK, KernelInv, CloneInv, MainRead
<1>4. ChildKnown'
  BY DEF TypeOK, KernelInv, CloneInv, MainRead, ChildKnown, CanReport
<1>5. CurrentInv'
  BY DEF TypeOK, KernelInv, CloneInv, MainRead, CurrentInv
<1>6. ListedInv'
  BY DEF TypeOK, KernelInv, CurrentInv, ListedInv
<1>7. StoppedReachable'
  BY DEF TypeOK, KernelInv, StoppedReachable, Held
<1>8. ContAllRunsAll'
  BY DEF TypeOK, StoppedReachable, ContAllRunsAll, Held
<1>9. SomeoneCanReport'
  BY DEF TypeOK, KernelInv, SomeoneCanReport, CanReport, NoChildren, Held,
      ContAllRunsAll
<1>10. NewThreadCanReport'
  BY DEF TypeOK, KernelInv, CloneInv, ChildKnown, NewThreadCanReport, CanReport
<1>11. NoEventLost'
  BY DEF TypeOK, KernelInv, CurrentInv, MainRead, ListedInv, NoEventLost
<1>12. QED BY <1>1, <1>2, <1>3, <1>4, <1>5, <1>6, <1>7, <1>8, <1>9, <1>10,
      <1>11

\* debug_dispatch_wait drops the event of a thread out of focus: the thread
\* is among those that lost one.
LEMMA Step_IgnoreOther ==
  ASSUME IInv, NEW t \in Tid, IgnoreOther(t)
  PROVE  IInv'
<1> USE TidAssumption DEF Tid, IInv, IgnoreOther, OutOfFocus, ReadEvent,
      StopEvent, options
<1>1. TypeOK'
  BY DEF TypeOK, Opt
<1>2. KernelInv'
  BY DEF TypeOK, KernelInv
<1>3. CloneInv'
  BY DEF TypeOK, KernelInv, CloneInv, MainRead
<1>4. ChildKnown'
  BY DEF TypeOK, KernelInv, CloneInv, MainRead, ChildKnown, CanReport
<1>5. CurrentInv'
  BY DEF TypeOK, KernelInv, CloneInv, MainRead, CurrentInv
<1>6. ListedInv'
  BY DEF TypeOK, KernelInv, CurrentInv, ListedInv
<1>7. StoppedReachable'
  BY DEF TypeOK, KernelInv, StoppedReachable, Held
<1>8. ContAllRunsAll'
  BY DEF TypeOK, StoppedReachable, ContAllRunsAll, Held
<1>9. SomeoneCanReport'
  BY DEF TypeOK, KernelInv, SomeoneCanReport, CanReport, NoChildren, Held,
      ContAllRunsAll
<1>10. NewThreadCanReport'
  BY DEF TypeOK, KernelInv, CloneInv, ChildKnown, NewThreadCanReport, CanReport
<1>11. NoEventLost'
  BY DEF TypeOK, KernelInv, CurrentInv, MainRead, ListedInv, NoEventLost
<1>12. QED BY <1>1, <1>2, <1>3, <1>4, <1>5, <1>6, <1>7, <1>8, <1>9, <1>10,
      <1>11

\* debug_dispatch_wait reads an event: its thread becomes the current one
\* and is listed, and a clone is followed by the wait for the new thread.
LEMMA Step_Dispatch ==
  ASSUME IInv, NEW t \in Tid, Dispatch(t)
  PROVE  IInv'
<1> USE TidAssumption DEF Tid, IInv, Dispatch, OutOfFocus, ReadEvent, Current,
      IsClone, Return, StopEvent, options
<1>1. TypeOK'
  BY DEF TypeOK, Opt, CloneInv
<1>2. KernelInv'
  BY DEF TypeOK, KernelInv
<1>3. CloneInv'
  BY DEF TypeOK, KernelInv, CloneInv, MainRead
<1>4. ChildKnown'
  BY DEF TypeOK, KernelInv, CloneInv, MainRead, ChildKnown, CanReport
<1>5. CurrentInv'
  BY DEF TypeOK, KernelInv, CloneInv, MainRead, CurrentInv
<1>6. ListedInv'
  BY DEF TypeOK, KernelInv, CurrentInv, ListedInv
<1>7. StoppedReachable'
  BY DEF TypeOK, KernelInv, StoppedReachable, Held
<1>8. ContAllRunsAll'
  BY DEF TypeOK, StoppedReachable, ContAllRunsAll, Held
<1>9. SomeoneCanReport'
  BY DEF TypeOK, KernelInv, SomeoneCanReport, CanReport, NoChildren, Held,
      ContAllRunsAll
<1>10. NewThreadCanReport'
  BY DEF TypeOK, KernelInv, CloneInv, ChildKnown, NewThreadCanReport, CanReport
<1>11. NoEventLost'
  BY DEF TypeOK, KernelInv, CurrentInv, MainRead, ListedInv, NoEventLost
<1>12. QED BY <1>1, <1>2, <1>3, <1>4, <1>5, <1>6, <1>7, <1>8, <1>9, <1>10,
      <1>11

\* waitpid fails, for there is no child.
LEMMA Step_DispatchNoChild ==
  ASSUME IInv, DispatchNoChild
  PROVE  IInv'
<1> USE TidAssumption DEF Tid, IInv, DispatchNoChild, OutOfFocus, Current,
      Return, NoChildren, StopEvent, options, kernel
<1>1. TypeOK'
  BY DEF TypeOK, Opt
<1>2. KernelInv'
  BY DEF TypeOK, KernelInv
<1>3. CloneInv'
  BY DEF TypeOK, KernelInv, CloneInv, MainRead
<1>4. ChildKnown'
  BY DEF TypeOK, KernelInv, CloneInv, MainRead, ChildKnown, CanReport
<1>5. CurrentInv'
  BY DEF TypeOK, KernelInv, CloneInv, MainRead, CurrentInv
<1>6. ListedInv'
  BY DEF TypeOK, KernelInv, CurrentInv, ListedInv
<1>7. StoppedReachable'
  BY DEF TypeOK, KernelInv, StoppedReachable, Held
<1>8. ContAllRunsAll'
  BY DEF TypeOK, StoppedReachable, ContAllRunsAll, Held
<1>9. SomeoneCanReport'
  BY DEF TypeOK, KernelInv, SomeoneCanReport, CanReport, NoChildren, Held,
      ContAllRunsAll
<1>10. NewThreadCanReport'
  BY DEF TypeOK, KernelInv, CloneInv, ChildKnown, NewThreadCanReport, CanReport
<1>11. NoEventLost'
  BY DEF TypeOK, KernelInv, CurrentInv, MainRead, ListedInv, NoEventLost
<1>12. QED BY <1>1, <1>2, <1>3, <1>4, <1>5, <1>6, <1>7, <1>8, <1>9, <1>10,
      <1>11

\* The second waitpid of debug_dispatch_wait ends.
LEMMA Step_DispatchNew ==
  ASSUME IInv, DispatchNew
  PROVE  IInv'
<1> USE TidAssumption DEF Tid, IInv, DispatchNew, ReadEvent, Return, StopEvent,
      options, kernel
<1>1. TypeOK'
  BY DEF TypeOK, Opt
<1>2. KernelInv'
  BY DEF TypeOK, KernelInv
<1>3. CloneInv'
  BY DEF TypeOK, KernelInv, CloneInv, MainRead
<1>4. ChildKnown'
  BY DEF TypeOK, KernelInv, CloneInv, MainRead, ChildKnown, CanReport
<1>5. CurrentInv'
  BY DEF TypeOK, KernelInv, CloneInv, MainRead, CurrentInv
<1>6. ListedInv'
  BY DEF TypeOK, KernelInv, CurrentInv, ListedInv
<1>7. StoppedReachable'
  BY DEF TypeOK, KernelInv, StoppedReachable, Held
<1>8. ContAllRunsAll'
  BY DEF TypeOK, StoppedReachable, ContAllRunsAll, Held
<1>9. SomeoneCanReport'
  BY DEF TypeOK, KernelInv, SomeoneCanReport, CanReport, NoChildren, Held,
      ContAllRunsAll
<1>10. NewThreadCanReport'
  BY DEF TypeOK, KernelInv, CloneInv, ChildKnown, NewThreadCanReport, CanReport
<1>11. NoEventLost'
  BY DEF TypeOK, KernelInv, CurrentInv, MainRead, ListedInv, NoEventLost
<1>12. QED BY <1>1, <1>2, <1>3, <1>4, <1>5, <1>6, <1>7, <1>8, <1>9, <1>10,
      <1>11

\* !cont continues the current thread, or all the debugger knows of.
LEMMA Step_debug_cont ==
  ASSUME IInv, debug_cont
  PROVE  IInv'
<1> USE TidAssumption DEF Tid, IInv, debug_cont, debug_contp, Continued,
      Stopped, Resume, StopEvent, options, kernel
<1>1. TypeOK'
  BY DEF TypeOK, Opt
<1>2. KernelInv'
  BY DEF TypeOK, KernelInv
<1>3. CloneInv'
  BY DEF TypeOK, KernelInv, CloneInv, MainRead
<1>4. ChildKnown'
  BY DEF TypeOK, KernelInv, CloneInv, MainRead, ChildKnown, CanReport
<1>5. CurrentInv'
  BY DEF TypeOK, KernelInv, CloneInv, MainRead, CurrentInv
<1>6. ListedInv'
  BY DEF TypeOK, KernelInv, CurrentInv, ListedInv
<1>7. StoppedReachable'
  BY DEF TypeOK, KernelInv, StoppedReachable, Held
<1>8. ContAllRunsAll'
  BY DEF TypeOK, StoppedReachable, ContAllRunsAll, Held
<1>9. SomeoneCanReport'
  <2> SUFFICES ASSUME phase' = "wait" PROVE SomeoneCanReport'
    BY DEF SomeoneCanReport
  <2>1. CASE ~opt.contall
    BY <2>1 DEF TypeOK, SomeoneCanReport, CanReport
  <2>2. CASE opt.contall /\ opt.focus
    BY <2>2 DEF SomeoneCanReport
  <2>3. CASE opt.contall /\ ~opt.focus
    <3>1. SUFFICES ASSUME ~\E t \in Tid : CanReport(t)', lost' = {}
                   PROVE  NoChildren'
      BY <2>3 DEF SomeoneCanReport
    <3>2. \A t \in Tid : ~Held(t)'
      BY <1>8, <2>3, <3>1 DEF ContAllRunsAll
    <3>3. KernelInv' /\ TypeOK'
      BY <1>1, <1>2
    <3>4. QED
      BY <3>1, <3>2, <3>3 DEF TypeOK, KernelInv, CanReport, Held, NoChildren
  <2>4. QED BY <2>1, <2>2, <2>3
<1>10. NewThreadCanReport'
  BY DEF TypeOK, KernelInv, CloneInv, ChildKnown, NewThreadCanReport, CanReport
<1>11. NoEventLost'
  BY DEF TypeOK, KernelInv, CurrentInv, MainRead, ListedInv, NoEventLost
<1>12. QED BY <1>1, <1>2, <1>3, <1>4, <1>5, <1>6, <1>7, <1>8, <1>9, <1>10,
      <1>11

\* !step continues the current thread.
LEMMA Step_debug_step ==
  ASSUME IInv, debug_step
  PROVE  IInv'
<1> USE TidAssumption DEF Tid, IInv, debug_step, Stopped, Resume, StopEvent,
      options
<1>1. TypeOK'
  BY DEF TypeOK, Opt
<1>2. KernelInv'
  BY DEF TypeOK, KernelInv
<1>3. CloneInv'
  BY DEF TypeOK, KernelInv, CloneInv, MainRead
<1>4. ChildKnown'
  BY DEF TypeOK, KernelInv, CloneInv, MainRead, ChildKnown, CanReport
<1>5. CurrentInv'
  BY DEF TypeOK, KernelInv, CloneInv, MainRead, CurrentInv
<1>6. ListedInv'
  BY DEF TypeOK, KernelInv, CurrentInv, ListedInv
<1>7. StoppedReachable'
  BY DEF TypeOK, KernelInv, StoppedReachable, Held
<1>8. ContAllRunsAll'
  BY DEF TypeOK, StoppedReachable, ContAllRunsAll, Held
<1>9. SomeoneCanReport'
  BY DEF TypeOK, KernelInv, SomeoneCanReport, CanReport, NoChildren, Held,
      ContAllRunsAll
<1>10. NewThreadCanReport'
  BY DEF TypeOK, KernelInv, CloneInv, ChildKnown, NewThreadCanReport, CanReport
<1>11. NoEventLost'
  BY DEF TypeOK, KernelInv, CurrentInv, MainRead, ListedInv, NoEventLost
<1>12. QED BY <1>1, <1>2, <1>3, <1>4, <1>5, <1>6, <1>7, <1>8, <1>9, <1>10,
      <1>11

\* !th changes the current thread.
LEMMA Step_debug_th ==
  ASSUME IInv, NEW t \in Tid, debug_th(t)
  PROVE  IInv'
<1> USE TidAssumption DEF Tid, IInv, debug_th, StopEvent, options, kernel
<1>1. TypeOK'
  BY DEF TypeOK, Opt
<1>2. KernelInv'
  BY DEF TypeOK, KernelInv
<1>3. CloneInv'
  BY DEF TypeOK, KernelInv, CloneInv, MainRead
<1>4. ChildKnown'
  BY DEF TypeOK, KernelInv, CloneInv, MainRead, ChildKnown, CanReport
<1>5. CurrentInv'
  BY DEF TypeOK, KernelInv, CloneInv, MainRead, CurrentInv
<1>6. ListedInv'
  BY DEF TypeOK, KernelInv, CurrentInv, ListedInv
<1>7. StoppedReachable'
  BY DEF TypeOK, KernelInv, StoppedReachable, Held
<1>8. ContAllRunsAll'
  BY DEF TypeOK, StoppedReachable, ContAllRunsAll, Held
<1>9. SomeoneCanReport'
  BY DEF TypeOK, KernelInv, SomeoneCanReport, CanReport, NoChildren, Held,
      ContAllRunsAll
<1>10. NewThreadCanReport'
  BY DEF TypeOK, KernelInv, CloneInv, ChildKnown, NewThreadCanReport, CanReport
<1>11. NoEventLost'
  BY DEF TypeOK, KernelInv, CurrentInv, MainRead, ListedInv, NoEventLost
<1>12. QED BY <1>1, <1>2, <1>3, <1>4, <1>5, <1>6, <1>7, <1>8, <1>9, <1>10,
      <1>11

\* Every step, of the process, the debugger or the user, preserves IInv.
LEMMA NextIInv == IInv /\ [Next]_vars => IInv'
<1> SUFFICES ASSUME IInv, [Next]_vars PROVE IInv'
  OBVIOUS
<1>1. CASE Process
  BY <1>1, Step_Stop, Step_Create, Step_End DEF Process
<1>2. CASE Wait
  BY <1>2, Step_IgnoreOther, Step_Dispatch, Step_DispatchNoChild,
     Step_DispatchNew DEF Wait
<1>3. CASE User
  BY <1>3, Step_debug_cont, Step_debug_step, Step_debug_th DEF User
<1>4. CASE UNCHANGED vars
  <2> USE <1>4 DEF IInv, vars, CanReport, Held
  <2>1. TypeOK' /\ KernelInv' /\ CloneInv' /\ ChildKnown' /\ CurrentInv' /\ ListedInv'
    BY DEF TypeOK, KernelInv, CloneInv, ChildKnown, CurrentInv, ListedInv,
        MainRead
  <2>2. StoppedReachable' /\ ContAllRunsAll'
    BY DEF StoppedReachable, ContAllRunsAll
  <2>3. SomeoneCanReport' /\ NewThreadCanReport' /\ NoEventLost'
    BY DEF SomeoneCanReport, NewThreadCanReport, NoEventLost, NoChildren
  <2>4. QED BY <2>1, <2>2, <2>3
<1>5. QED BY <1>1, <1>2, <1>3, <1>4 DEF Next

\* The inductive invariant holds of every state the debugger reaches.
THEOREM Invariance == Spec => []IInv
BY InitIInv, NextIInv, PTL DEF Spec

\* debug_contp with dbg.contall leaves no thread behind that the debugger
\* ever showed a stop of, for any number of threads (dbg/thread.c, the list
\* that debug_dispatch_wait and debug_contp share).
THEOREM NobodyLeftBehind == Spec => []NoThreadLeftBehind
<1>1. IInv => NoThreadLeftBehind
  BY DEF IInv, NoThreadLeftBehind
<1>2. QED BY <1>1, Invariance, PTL

\* Neither waitpid of debug_dispatch_wait is entered, or stays entered, with
\* all the threads it could hear of waiting for the debugger.
THEOREM WaitsCanEnd == Spec => []WaitCanEnd
<1>1. IInv => WaitCanEnd
  BY DEF IInv, WaitCanEnd
<1>2. QED BY <1>1, Invariance, PTL

\* Without dbg.focus, dbg.contall and !th, debug_cont and debug_dispatch_wait
\* drop no event of a thread the debugger has not listed.
THEOREM EventsAreShown == Spec => []NoEventLost
<1>1. IInv => NoEventLost
  BY DEF IInv
<1>2. QED BY <1>1, Invariance, PTL

=============================================================================
