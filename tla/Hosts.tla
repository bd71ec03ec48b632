-------------------------------- MODULE Hosts -------------------------------
(***************************************************************************)
(* The table of remote hosts (rtr.c): connections are added, removed, and  *)
(* selected by the number of their descriptor; a command without a number  *)
(* goes to the selected one.  A slot whose descriptor is 0 is free.        *)
(*                                                                         *)
(* The operating system gives the lowest free descriptor.  What a          *)
(* connection carries is the matter of RapProtocol.                        *)
(***************************************************************************)
EXTENDS Integers

CONSTANTS
  RTR_MAX_HOSTS,  \* 255 in the source
  MaxFd           \* descriptors are 0 .. MaxFd; 0 is the standard input

ASSUME HostAssumption == RTR_MAX_HOSTS \in Nat \ {0} /\ MaxFd \in Nat

Fd == 0 .. MaxFd
HostSlot == 0 .. RTR_MAX_HOSTS - 1

VARIABLES
  rtr_host,     \* the descriptor in each slot
  rtr_n,        \* the selected slot
  open,         \* the descriptors in use
  chosen,       \* history variable: the host added or selected last, 0 when
                \* that host was removed or the number was unknown
  lost          \* history variable: connections the table never held

hostvars == <<rtr_host, rtr_n, open, chosen, lost>>

HostTypeOK ==
  /\ rtr_host \in [HostSlot -> Fd] /\ rtr_n \in 0 .. RTR_MAX_HOSTS
  /\ open \subseteq Fd /\ chosen \in Fd /\ lost \subseteq Fd

HostInit ==
  /\ rtr_host = [k \in HostSlot |-> 0] /\ rtr_n = 0
  /\ open = {0} /\ chosen = 0 /\ lost = {}

Lowest(S) == CHOOSE x \in S : \A y \in S : x <= y

\* The loops over the table, which end at RTR_MAX_HOSTS.  A variant with a
\* bug: they go one further.
SlotOf_further(t, fds) ==
  LET S == {k \in HostSlot : t[k] \in fds} IN IF S = {} THEN RTR_MAX_HOSTS + 1 ELSE Lowest(S)

SlotOf(t, fds) ==
  LET S == {k \in HostSlot : t[k] \in fds} IN IF S = {} THEN RTR_MAX_HOSTS ELSE Lowest(S)

Free(t) == SlotOf(t, {0})

\* The slot of a new host.  A variant with a bug: the one behind the selected.
SlotForNew_next == IF rtr_n + 1 < RTR_MAX_HOSTS THEN rtr_n + 1 ELSE Free(rtr_host)

SlotForNew == Free(rtr_host)

\* =+ host: the connection is made before a slot is looked for, and is left
\* open when there is none or when a rap server answers wrongly.
rtr_add(accepted) ==
  /\ Fd \ open # {}
  /\ LET fd == Lowest(Fd \ open)
     IN  /\ open' = open \union {fd}
         /\ IF accepted /\ SlotForNew < RTR_MAX_HOSTS
            THEN /\ rtr_host' = [rtr_host EXCEPT ![SlotForNew] = fd]
                 /\ rtr_n' = SlotForNew /\ chosen' = fd
                 /\ lost' = IF fd = 0 THEN lost \union {0} ELSE lost
            ELSE lost' = lost \union {fd} /\ UNCHANGED <<rtr_host, rtr_n, chosen>>

\* The slot selected after the one at k was emptied.  Variants with a bug:
\* the selection stays, and the first host is selected after every removal.
Selected_stays(t, k) == rtr_n

Selected_first(t, k) == SlotOf(t, Fd \ {0})

Selected(t, k) == IF rtr_n = k THEN SlotOf(t, Fd \ {0}) ELSE rtr_n

\* =-fd.  With 0 it finds a free slot and closes the standard input.
rtr_remove(fd) ==
  LET k == SlotOf(rtr_host, {fd})
      t == [rtr_host EXCEPT ![k] = 0]
  IN  /\ k < RTR_MAX_HOSTS
      /\ rtr_host' = t /\ rtr_n' = Selected(t, k)
      /\ open' = open \ {fd} /\ chosen' = IF chosen = fd THEN 0 ELSE chosen
      /\ lost' = lost \ {fd}

\* =-*
rtr_remove_all ==
  /\ open' = open \ ({rtr_host[k] : k \in HostSlot} \ {0})
  /\ rtr_host' = [k \in HostSlot |-> 0] /\ rtr_n' = 0 /\ chosen' = 0
  /\ UNCHANGED lost

\* =fd cmd, =<fd cmd and ==fd select the host with that number; ==0 selects a
\* free slot.
Select(fd) ==
  /\ rtr_n' = SlotOf(rtr_host, {fd})
  /\ chosen' = IF SlotOf(rtr_host, {fd}) = RTR_MAX_HOSTS THEN 0 ELSE fd
  /\ UNCHANGED <<rtr_host, open, lost>>

HostNext ==
  \/ \E accepted \in BOOLEAN : rtr_add(accepted)
  \/ \E fd \in Fd : rtr_remove(fd) \/ Select(fd)
  \/ rtr_remove_all

-----------------------------------------------------------------------------
\* A command without a number goes to the host that was added or selected
\* last, for as long as that one is there.
SelectedIsChosen ==
  chosen # 0 => rtr_n < RTR_MAX_HOSTS /\ rtr_host[rtr_n] = chosen

\* After the removal of the selected host another one is selected if there is
\* one; the index is beyond the table only when it is empty or the user gave
\* an unknown number.
FallsBack ==
  [][\A fd \in Fd : rtr_remove(fd) /\ fd # 0 /\ (\E k \in HostSlot : rtr_host'[k] # 0)
       /\ rtr_n < RTR_MAX_HOSTS /\ rtr_host[rtr_n] # 0 =>
       rtr_n' < RTR_MAX_HOSTS /\ rtr_host'[rtr_n'] # 0]_hostvars

\* Every connection that is open is in the table, in one slot, but for those
\* that were refused, came when it was full or got the number of the standard
\* input after =-0 closed it.
ConnectionsListed ==
  /\ open \ (lost \union {0}) = {rtr_host[k] : k \in HostSlot} \ {0}
  /\ \A j, k \in HostSlot : rtr_host[j] # 0 /\ rtr_host[j] = rtr_host[k] => j = k

\* The table of hosts is true: it lists the open connections, and the selected
\* slot is that of the host the user means, through every removal.
HostsTrue == [](HostTypeOK /\ SelectedIsChosen /\ ConnectionsListed) /\ FallsBack
=============================================================================
