------------------------------ MODULE FlagMap ------------------------------
(***************************************************************************)
(* What the f commands promise as long as every flag has a name of its     *)
(* own: a finite map from names to addresses.  Setting a flag changes one  *)
(* name, removing takes away the names that were asked for, renaming moves *)
(* an address to a new name.  Once a name is there twice the promise is    *)
(* void; it holds again from the moment every name is unique again.        *)
(***************************************************************************)
CONSTANTS
  Prefix,   \* the first part of a name, as in "sym." and "section."
  Base,     \* the rest of a name
  Addr      \* the addresses

Name == Prefix \X Base
Tables == UNION {[S -> Addr] : S \in SUBSET Name}

Empty == [n \in {} |-> 0]

VARIABLES
  table,    \* the map, Empty while the promise is void
  void      \* some name is there twice

Init == table = Empty /\ void = FALSE

Drop(S) == table' = [n \in DOMAIN table \ S |-> table[n]]

At(a) == {n \in DOMAIN table : table[n] = a}

\* f name, fN, fu; fb, which moves one flag.
Set(n, a) == table' = [m \in DOMAIN table \union {n} |-> IF m = n THEN a ELSE table[m]]

Remove(n) == Drop({n})

RemoveAt(a) == Drop(At(a))

\* f -prefix* also removes the flags at the address its text has as an
\* expression, which is 0.
RemovePrefix(p) == Drop({n \in Name : n[1] = p} \union At(0))

RemoveAll == Drop(Name)

Rename(n, m) ==
  /\ n \in DOMAIN table /\ m \notin DOMAIN table
  /\ table' = [x \in (DOMAIN table \ {n}) \union {m} |-> IF x = m THEN table[n] ELSE table[x]]

\* fr old* new: every name with one prefix gets another one.
RenamePrefix(p, q) ==
  LET Moved(n) == IF n[1] = p THEN <<q, n[2]>> ELSE n
  IN  /\ p # q /\ \A n \in DOMAIN table : n[1] = p => <<q, n[2]>> \notin DOMAIN table
      /\ table' = [m \in {Moved(n) : n \in DOMAIN table} |->
                     table[CHOOSE n \in DOMAIN table : Moved(n) = m]]

Step ==
  \/ \E n \in Name : Remove(n) \/ \E a \in Addr : Set(n, a)
  \/ \E a \in Addr : RemoveAt(a)
  \/ \E p \in Prefix : RemovePrefix(p)
  \/ RemoveAll
  \/ \E n, m \in Name : Rename(n, m)
  \/ \E p, q \in Prefix : RenamePrefix(p, q)

Next ==
  \/ ~void /\ Step /\ UNCHANGED void
  \/ table' = Empty /\ void' = TRUE
  \/ void /\ table' \in Tables /\ void' = FALSE

Spec == Init /\ [][Next]_<<table, void>>

=============================================================================
