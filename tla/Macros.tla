------------------------------- MODULE Macros -------------------------------
(***************************************************************************)
(* Macros (macros.c): radare_macro_call runs the lines of a macro as       *)
(* commands, which may call macros, itself included.  While a line runs,   *)
(* the line end behind it is replaced by the end of the string, in the     *)
(* code all calls share.                                                   *)
(*                                                                         *)
(* A line is a command, a call, a break, a label or a jump.  Arguments are *)
(* left out, and so is the removal of a macro, which compares names with   *)
(* memory that was never written.                                          *)
(***************************************************************************)
EXTENDS Integers, Sequences

CONSTANTS
  Macro,        \* names of macros
  Label,        \* names of labels
  Body,         \* the codes macros may have: non-empty sequences of lines
  MACRO_LIMIT   \* 4096 in the source

MacLine ==
  {<<"cmd">>, <<"break">>} \union ({"call"} \X Macro) \union ({"label", "goto", "if"} \X Label)

ASSUME MacAssumption ==
  /\ MACRO_LIMIT \in Nat
  /\ \A b \in Body : b \in Seq(MacLine) /\ b # <<>>

VARIABLES
  code,         \* the lines of each macro
  cut,          \* the lines whose end is overwritten, for each macro
  stack,        \* the calls under way
  macro_level,
  macro_break,
  torn          \* history variable: the lines at which a jump failed

macvars == <<code, cut, stack, macro_level, macro_break, torn>>

NoLabel == <<>>
Frame ==
  [mac : Macro, line : Nat, label : {NoLabel} \union (Label \X Nat), waits : BOOLEAN, end : BOOLEAN]

MacTypeOK ==
  /\ code \in [Macro -> Body] /\ cut \in [Macro -> SUBSET Nat] /\ torn \in [Macro -> SUBSET Nat]
  /\ stack \in Seq(Frame) /\ macro_break \in BOOLEAN
  /\ macro_level = Len(stack) /\ macro_level <= MACRO_LIMIT
  /\ \A k \in DOMAIN stack : stack[k].line \in DOMAIN code[stack[k].mac]

MacInit ==
  /\ code \in [Macro -> Body] /\ cut = [m \in Macro |-> {}] /\ torn = cut
  /\ stack = <<>> /\ macro_level = 0 /\ macro_break = FALSE

Top == stack[Len(stack)]
Below == SubSeq(stack, 1, Len(stack) - 1)
NewFrame(m) == [mac |-> m, line |-> 1, label |-> NoLabel, waits |-> FALSE, end |-> FALSE]

\* strchr(ptr, '\n').  A variant with a bug: the string always ends with the
\* last line.
HasEnd_whole(f) == f.line < Len(code[f.mac])

HasEnd(f) == f.line < Len(code[f.mac]) /\ f.line \notin cut[f.mac]

\* (name ... ) at the prompt: new code.
radare_macro_add(m, b) ==
  /\ stack = <<>>
  /\ code' = [code EXCEPT ![m] = b]
  /\ cut' = [cut EXCEPT ![m] = {}] /\ torn' = [torn EXCEPT ![m] = {}]
  /\ UNCHANGED <<stack, macro_level, macro_break>>

\* .(name) at the prompt.
radare_macro_call(m) ==
  /\ stack = <<>> /\ macro_level < MACRO_LIMIT
  /\ stack' = <<NewFrame(m)>> /\ macro_level' = macro_level + 1 /\ macro_break' = FALSE
  /\ UNCHANGED <<code, cut, torn>>

(***************************************************************************)
(* One line.                                                               *)
(***************************************************************************)
Running == stack # <<>> /\ ~Top.waits
Line == code[Top.mac][Top.line]
JumpTo(l) == stack' = Append(Below, [Top EXCEPT !.line = l])

\* The call returns.
Return == stack' = Below /\ macro_level' = macro_level - 1

\* After the last line the call returns, after any other the next one runs.
Go(n) ==
  IF HasEnd(Top) THEN JumpTo(n) /\ UNCHANGED macro_level ELSE Return

Command ==
  /\ Running /\ Line[1] \in {"cmd", "if"}
  /\ Go(Top.line + 1)
  /\ UNCHANGED <<code, cut, macro_break, torn>>

\* A label is noted when it is the first one of the call.
macro_label ==
  /\ Running /\ Line[1] = "label"
  /\ IF HasEnd(Top)
     THEN /\ stack' = Append(Below, [Top EXCEPT !.line = Top.line + 1,
                                                !.label = IF Top.label = NoLabel
                                                          THEN <<Line[2], Top.line>> ELSE Top.label])
          /\ UNCHANGED macro_level
     ELSE Return
  /\ UNCHANGED <<code, cut, macro_break, torn>>

Noted(l) == Top.label # NoLabel /\ Top.label[1] = l

\* .label: and the conditional ones, when the condition holds.
Jump ==
  /\ Running /\ Line[1] \in {"goto", "if"}
  /\ Noted(Line[2])
  /\ Go(Top.label[2] + 1)
  /\ UNCHANGED <<code, cut, macro_break, torn>>

\* A jump to a label that was not noted ends the call; the line end is not
\* put back.
JumpFails ==
  /\ Running /\ Line[1] \in {"goto", "if"}
  /\ ~Noted(Line[2])
  /\ LET at == IF HasEnd(Top) THEN {Top.line} ELSE {}
     IN  /\ cut' = [cut EXCEPT ![Top.mac] = @ \union at]
         /\ torn' = [torn EXCEPT ![Top.mac] = @ \union at]
  /\ Return
  /\ UNCHANGED <<code, macro_break>>

\* ()
radare_macro_break ==
  /\ Running /\ Line[1] = "break"
  /\ macro_break' = TRUE /\ Return
  /\ UNCHANGED <<code, cut, torn>>

\* .(name) in a macro.  Without the limit it is a variant with a bug.
Call_deeper ==
  /\ Running /\ Line[1] = "call"
  /\ stack' = Append(Append(Below, [Top EXCEPT !.waits = TRUE, !.end = HasEnd(Top)]),
                     NewFrame(Line[2]))
  /\ cut' = [cut EXCEPT ![Top.mac] = @ \union IF HasEnd(Top) THEN {Top.line} ELSE {}]
  /\ macro_level' = macro_level + 1 /\ macro_break' = FALSE
  /\ UNCHANGED <<code, torn>>

Call == macro_level < MACRO_LIMIT /\ Call_deeper

\* Maximum macro recursivity reached.  A variant with a bug: the line is tried
\* again.
CallRefused_again ==
  Running /\ Line[1] = "call" /\ macro_level >= MACRO_LIMIT /\ UNCHANGED macvars

CallRefused ==
  /\ Running /\ Line[1] = "call" /\ macro_level >= MACRO_LIMIT
  /\ Go(Top.line + 1)
  /\ UNCHANGED <<code, cut, macro_break, torn>>

\* The command of a line returns: the line end is put back, and a break in
\* what it called ends this call too.  Variants with a bug: the line end is
\* not put back after a break, and the break is only looked at by the caller.
Restored_not == IF macro_break THEN cut ELSE [cut EXCEPT ![Top.mac] = @ \ {Top.line}]

Restored == IF Top.end THEN [cut EXCEPT ![Top.mac] = @ \ {Top.line}] ELSE cut

GoesOn_always == Top.end

GoesOn == Top.end /\ ~macro_break

Resume ==
  /\ stack # <<>> /\ Top.waits
  /\ cut' = Restored
  /\ IF GoesOn
     THEN /\ stack' = Append(Below, [Top EXCEPT !.line = Top.line + 1, !.waits = FALSE, !.end = FALSE])
          /\ UNCHANGED macro_level
     ELSE Return
  /\ UNCHANGED <<code, macro_break, torn>>

MacStep ==
  \/ Command \/ macro_label \/ Jump \/ JumpFails \/ radare_macro_break
  \/ Call \/ CallRefused \/ Resume

MacNext ==
  \/ \E m \in Macro : radare_macro_call(m) \/ \E b \in Body : radare_macro_add(m, b)
  \/ MacStep

-----------------------------------------------------------------------------
\* The line ends that are overwritten are those of the lines that calls wait
\* at, each put back by its own call, and those of jumps that failed: between
\* two commands of the user every other macro is whole.
CodePutBack ==
  \A m \in Macro :
    cut[m] \ torn[m] =
      {stack[k].line : k \in {j \in DOMAIN stack : stack[j].mac = m /\ stack[j].end}} \ torn[m]

\* A recursive call runs no line behind the one that calls it: the code ends
\* there for it.
RecursionSeesPrefix ==
  \A j, k \in DOMAIN stack :
    j < k /\ stack[j].mac = stack[k].mac => stack[k].line <= stack[j].line

\* A break ends the call it is in and every call that led to it; nothing else
\* runs before the user's next command.
BreakEndsAll ==
  [][macro_break /\ stack # <<>> => Len(stack') = Len(stack) - 1]_macvars

\* Without jumps every call ends, recursive ones too, by the limit.
CallsEnd ==
  [](stack # <<>> /\ (\A m \in Macro : \A l \in DOMAIN code[m] : code[m][l][1] \notin {"goto", "if"})
       => <>(stack = <<>>))

\* A macro that runs, calls itself or breaks leaves the code of all macros as
\* it was, and comes to an end.
MacrosTrue == [](MacTypeOK /\ CodePutBack /\ RecursionSeesPrefix) /\ BreakEndsAll /\ CallsEnd
=============================================================================
