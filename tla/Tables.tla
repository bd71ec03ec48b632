------------------------------- MODULE Tables -------------------------------
(***************************************************************************)
(* What a session keeps besides the file: sections, macros, remote hosts,  *)
(* traces, IO maps, metadata and watchpoints.  They share no state, so a   *)
(* behaviour works with one of them.                                       *)
(***************************************************************************)
EXTENDS Sections, Macros, Hosts, Traces, IoMaps, Metadata, Watchpoints

VARIABLE part

vars == <<part, secvars, macvars, hostvars, tracevars, iovars, metavars, wpvars>>

Init ==
  /\ part \in {"sections", "macros", "hosts", "traces", "maps", "metadata", "watchpoints"}
  /\ SecInit /\ MacInit /\ HostInit /\ TraceInit /\ IoInit /\ MetaInit /\ WpInit
  /\ part # "macros" => code = [m \in Macro |-> CHOOSE b \in Body : TRUE]

\* The variables of the other parts.
OnlyMacros == UNCHANGED <<part, secvars, hostvars, tracevars, iovars, metavars, wpvars>>

Next ==
  \/ part = "sections" /\ SecNext /\ UNCHANGED <<part, macvars, hostvars, tracevars, iovars, metavars, wpvars>>
  \/ part = "macros" /\ MacNext /\ OnlyMacros
  \/ part = "hosts" /\ HostNext /\ UNCHANGED <<part, secvars, macvars, tracevars, iovars, metavars, wpvars>>
  \/ part = "traces" /\ TraceNext /\ UNCHANGED <<part, secvars, macvars, hostvars, iovars, metavars, wpvars>>
  \/ part = "maps" /\ IoNext /\ UNCHANGED <<part, secvars, macvars, hostvars, tracevars, metavars, wpvars>>
  \/ part = "metadata" /\ MetaNext /\ UNCHANGED <<part, secvars, macvars, hostvars, tracevars, iovars, wpvars>>
  \/ part = "watchpoints" /\ WpNext /\ UNCHANGED <<part, secvars, macvars, hostvars, tracevars, iovars, metavars>>

\* A call that is under way goes on: nothing else runs in the process.
Spec == Init /\ [][Next]_vars /\ WF_vars(part = "macros" /\ MacStep /\ OnlyMacros)
=============================================================================
