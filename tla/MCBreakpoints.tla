---------------------------- MODULE MCBreakpoints ----------------------------
(***************************************************************************)
(* Programs for the breakpoint runs.                                       *)
(***************************************************************************)
EXTENDS Breakpoints

\* A loop of two-byte instructions: 2, a call at 4 to 8, its return to 6, and 10.
MCAddr == 2 .. 11
MCLen == [a \in MCAddr |-> IF a % 2 = 0 THEN 2 ELSE 1]
MCSucc == [a \in MCAddr |-> IF a = 2 THEN {4} ELSE IF a = 4 THEN {8} ELSE IF a = 8 THEN {6}
                          ELSE IF a = 6 THEN {10} ELSE {2}]
=============================================================================
