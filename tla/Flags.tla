------------------------------- MODULE Flags -------------------------------
(***************************************************************************)
(* Flags: the list of named addresses, the table of flag spaces, and the   *)
(* section name the disassembler caches (flags.c), driven by the f         *)
(* commands, the visual mode and the debugger.                             *)
(*                                                                         *)
(* config.interrupted, which ^C and the end of a traced process set and    *)
(* the prompt clears, makes the loops over the list stop before they look  *)
(* at a flag; it is read as one value per command.  A name is a pair of a  *)
(* prefix and the rest.  Sizes, formats and commands of flags are left     *)
(* out: no flag command reads them.                                        *)
(***************************************************************************)
EXTENDS Integers, Sequences

CONSTANTS
  Prefix, Base, \* the two parts of names
  SectionEnd,   \* the second parts that contain "end"
  Short,        \* names of fewer than four letters
  MaxAddr,      \* the addresses are 0 .. MaxAddr
  FromAddr,     \* the addresses the user gives to ff
  FLAG_SPACES,  \* slots in the table of flag spaces, 32 in the source
  SpaceName,    \* names of flag spaces
  NULL,         \* no name in a slot
  AnyText,      \* the empty text, which every name contains
  MaxFlags      \* bound on the length of the list

Addr == 0 .. MaxAddr

ASSUME FlagsAssumption ==
  /\ MaxAddr \in Nat /\ MaxFlags \in Nat /\ FLAG_SPACES \in Nat \ {0}
  /\ FromAddr \subseteq Addr /\ SectionEnd \subseteq Base /\ Short \subseteq Prefix \X Base /\ NULL \notin SpaceName
  /\ {NULL, AnyText} \intersect Prefix = {} /\ NULL # AnyText

Name == Prefix \X Base
Slot == 0 .. FLAG_SPACES - 1

VARIABLES
  flags,        \* the list
  from,         \* flag_from_i
  spaces,       \* flag_spaces
  idx,          \* flag_space_idx
  interrupted,  \* config.interrupted
  cache,        \* sec_start, sec_end and sec_str of flag_get_here_filter
  orphans,      \* history variable: a space was removed while interrupted
  filled        \* history variable: the filter the cached name was found with,
                \* NULL when the list changed or a search failed since then

vars == <<flags, from, spaces, idx, interrupted, cache, orphans, filled>>

Flag == [name : Name, offset : Addr, space : Slot \union {-1}]

TypeOK ==
  /\ flags \in Seq(Flag) /\ Len(flags) <= MaxFlags
  /\ from \in Addr /\ idx \in Slot \union {-1} /\ {interrupted, orphans} \subseteq BOOLEAN
  /\ spaces \in [Slot -> SpaceName \union {NULL}]
  /\ cache \in [start : Addr, end : Addr \union {MaxAddr + 1}, str : Name \union {NULL}]
  /\ filled \in Prefix \union {AnyText, NULL}

\* The selected space exists, and so does the space of every flag unless a
\* space was removed with an interruption pending: flag_space_get reads the
\* name of the slot without a test, and a slot that is used again would take
\* the flags of the old space with it.
SpacesExist ==
  /\ TypeOK
  /\ idx # -1 => spaces[idx] # NULL
  /\ ~orphans => \A i \in DOMAIN flags : flags[i].space # -1 => spaces[flags[i].space] # NULL

Init ==
  /\ flags = <<>> /\ from = 0
  /\ spaces = [i \in Slot |-> NULL] /\ idx = -1
  /\ interrupted = FALSE
  /\ cache = [start |-> 0, end |-> 0, str |-> NULL] /\ orphans = FALSE /\ filled = NULL

First(S) == CHOOSE i \in S : \A j \in S : i <= j
Last(S) == CHOOSE i \in S : \A j \in S : i >= j

Named(l, n) == {i \in DOMAIN l : l[i].name = n}
AtAddr(a) == {i \in DOMAIN flags : flags[i].offset = a}

\* flag_get searches from the end; a variant with a bug does from the start.
flag_get_first(l, n) == l[First(Named(l, n))]

flag_get(l, n) == l[Last(Named(l, n))]

Without(l, S) ==
  LET kept == {i \in DOMAIN l : i \notin S}
      f[k \in 0 .. Len(l)] ==
        IF k = 0 THEN <<>> ELSE IF k \in kept THEN Append(f[k - 1], l[k]) ELSE f[k - 1]
  IN  f[Len(l)]

Change(l) == flags' = l /\ filled' = IF l = flags THEN filled ELSE NULL

Rest == UNCHANGED <<from, spaces, idx, interrupted, cache, orphans>>

(***************************************************************************)
(* Setting flags.                                                          *)
(***************************************************************************)
\* A flag as flag_set makes it, and a variant with a bug: the base is added
\* twice.
New_twice(n, a) == [name |-> n, offset |-> a + from + from, space |-> idx]

New(n, a) == [name |-> n, offset |-> a + from, space |-> idx]

\* flag_set with dup = 0: the first flag of that name moves.
flag_set(n, a) ==
  IF Named(flags, n) # {} /\ ~interrupted
  THEN [flags EXCEPT ![First(Named(flags, n))].offset = a + from]
  ELSE Append(flags, New(n, a))

\* f name; the names that fN builds are like any other.
CmdFlag(n, a) ==
  /\ a + from <= MaxAddr /\ Len(flag_set(n, a)) <= MaxFlags
  /\ Change(flag_set(n, a)) /\ Rest

\* fu name: only where no flag is, or one with a short name.
flag_set_undef(n, a) ==
  /\ AtAddr(a) # {} /\ ~interrupted => flags[First(AtAddr(a))].name \in Short
  /\ CmdFlag(n, a)

\* flag_set with dup, for a flag set in visual mode or with a breakpoint: the
\* name is added again unless it is at that very address.
flag_set_dup(n, a) ==
  /\ a + from <= MaxAddr /\ Len(flags) < MaxFlags
  /\ interrupted \/ Named(flags, n) \intersect AtAddr(a) = {}
  /\ Change(Append(flags, New(n, a))) /\ Rest

\* ff addr: what is added to every address set from now on.
flag_from(a) ==
  /\ from' = a
  /\ UNCHANGED <<flags, spaces, idx, interrupted, cache, orphans, filled>>

\* fb delta: the first flag at the current position moves.  A variant with a
\* bug: they all do.
flag_rebase_all(a, d) ==
  /\ AtAddr(a) # {} /\ ~interrupted /\ a + d \in Addr
  /\ Change([i \in DOMAIN flags |->
               IF i \in AtAddr(a) THEN [flags[i] EXCEPT !.offset = a + d] ELSE flags[i]])
  /\ Rest

flag_rebase(a, d) ==
  /\ AtAddr(a) # {} /\ ~interrupted /\ a + d \in Addr
  /\ Change([flags EXCEPT ![First(AtAddr(a))].offset = a + d]) /\ Rest

(***************************************************************************)
(* Removing and renaming flags.  What flag_remove does not find by name it *)
(* removes by the value of the text: unknown names and prefixes have the   *)
(* value 0.                                                                *)
(***************************************************************************)
\* A variant with a bug: one flag at the address is removed.
Cleared_one(l, a) ==
  LET S == {i \in DOMAIN l : l[i].offset = a}
  IN  IF interrupted \/ S = {} THEN l ELSE Without(l, {First(S)})

Cleared(l, a) == IF interrupted THEN l ELSE Without(l, {i \in DOMAIN l : l[i].offset = a})

flag_remove(n) ==
  /\ LET found == Named(flags, n)
     IN  Change(IF interrupted THEN flags
                ELSE IF found # {} THEN Without(flags, found) ELSE Cleared(flags, 0))
  /\ Rest

Matching(p) == {i \in DOMAIN flags : flags[i].name[1] = p}

flag_remove_prefix(p) ==
  /\ Change(IF interrupted THEN flags ELSE Cleared(Without(flags, Matching(p)), 0))
  /\ Rest

flag_remove_all == Change(IF interrupted THEN flags ELSE <<>>) /\ Rest

\* f -0x..., the key F of visual mode, the removal of a breakpoint there.
flag_clear_by_addr(a) == Change(Cleared(flags, a)) /\ Rest

\* The removal of a function in the variables view: one flag.
flag_remove_at(a) ==
  /\ AtAddr(a) # {}
  /\ Change(Without(flags, {First(AtAddr(a))})) /\ Rest

flag_rename(n, m) ==
  /\ Change([i \in DOMAIN flags |->
               IF flags[i].name = n THEN [flags[i] EXCEPT !.name = m] ELSE flags[i]])
  /\ Rest

flag_rename_prefix(p, q) ==
  /\ Change([i \in DOMAIN flags |->
               IF flags[i].name[1] = p THEN [flags[i] EXCEPT !.name[1] = q] ELSE flags[i]])
  /\ Rest

(***************************************************************************)
(* Flag spaces.                                                            *)
(***************************************************************************)
SlotsOf(s) == {i \in Slot : spaces[i] = s}

\* fs name selects the space, after making it when there is a free slot.
flag_space_set(s) ==
  LET i == First(IF SlotsOf(s) # {} THEN SlotsOf(s) ELSE SlotsOf(NULL))
  IN  /\ IF SlotsOf(s) \union SlotsOf(NULL) = {} THEN UNCHANGED <<spaces, idx>>
         ELSE spaces' = [spaces EXCEPT ![i] = s] /\ idx' = i
      /\ UNCHANGED <<flags, from, interrupted, cache, orphans, filled>>

\* The flags of a space that is removed: none stays in it.  A variant with a
\* bug: they do.
Unlinked_not(i) == flags

Unlinked(i) ==
  IF interrupted THEN flags
  ELSE [k \in DOMAIN flags |->
          IF flags[k].space = i THEN [flags[k] EXCEPT !.space = -1] ELSE flags[k]]

RemoveSlot(i) ==
  /\ spaces' = [spaces EXCEPT ![i] = NULL]
  /\ idx' = IF idx = i THEN -1 ELSE idx
  /\ flags' = Unlinked(i) /\ orphans' = (orphans \/ interrupted)
  /\ UNCHANGED <<from, interrupted, cache, filled>>

flag_space_remove(s) == SlotsOf(s) # {} /\ RemoveSlot(First(SlotsOf(s)))

\* fs -* removes the first space there is.
flag_space_remove_any ==
  /\ \E i \in Slot : spaces[i] # NULL
  /\ RemoveSlot(First({i \in Slot : spaces[i] # NULL}))

\* fs *
flag_space_all == idx' = -1 /\ UNCHANGED <<flags, from, spaces, interrupted, cache, orphans, filled>>

\* fm name, for a flag that exists: there is no test for one that does not.
flag_space_move(n) ==
  /\ Named(flags, n) # {}
  /\ flags' = [flags EXCEPT ![Last(Named(flags, n))].space = idx]
  /\ UNCHANGED <<from, spaces, idx, interrupted, cache, orphans, filled>>

(***************************************************************************)
(* The name of the section an address is in (fh, and flag_get_here_filter2 *)
(* for the disassembler): the flag with the greatest address not above it. *)
(* A flag at address 0 never is.                                           *)
(***************************************************************************)
Sections(p) ==
  {i \in DOMAIN flags : p \in {flags[i].name[1], AnyText} /\ flags[i].name[2] \notin SectionEnd}

Below(at, p) == {i \in Sections(p) : flags[i].offset \in 1 .. at}
Above(at, p) == {flags[i].offset : i \in {j \in Sections(p) : flags[j].offset > at}}

Found(at, p) ==
  First({i \in Below(at, p) : \A j \in Below(at, p) : flags[j].offset <= flags[i].offset})

\* The end of the interval for which a name is kept, and a variant with a
\* bug: there is none.
NextFlag_none(at, p) == MaxAddr + 1

NextFlag(at, p) == IF Above(at, p) = {} THEN MaxAddr + 1 ELSE First(Above(at, p))

Cached(at) == at >= cache.start /\ at < cache.end

flag_get_here_filter(at, p) ==
  /\ ~Cached(at)
  /\ IF Below(at, p) = {} THEN cache' = [cache EXCEPT !.str = NULL] /\ filled' = NULL
     ELSE /\ cache' = [start |-> flags[Found(at, p)].offset,
                       end   |-> NextFlag(at, p),
                       str   |-> flags[Found(at, p)].name]
          /\ filled' = p
  /\ UNCHANGED <<flags, from, spaces, idx, interrupted, orphans>>

\* ^C, or the end of the traced process; the next prompt.
Interrupt == ~interrupted /\ interrupted' = TRUE
             /\ UNCHANGED <<flags, from, spaces, idx, cache, orphans, filled>>
radare_prompt == interrupted /\ interrupted' = FALSE
                 /\ UNCHANGED <<flags, from, spaces, idx, cache, orphans, filled>>

Next ==
  \/ \E n \in Name, a \in Addr : CmdFlag(n, a) \/ flag_set_undef(n, a) \/ flag_set_dup(n, a)
  \/ \E a \in FromAddr : flag_from(a)
  \/ \E a \in Addr : flag_clear_by_addr(a) \/ flag_remove_at(a)
  \/ \E a \in Addr, d \in {-1, 1} : flag_rebase(a, d)
  \/ \E n \in Name : flag_remove(n) \/ flag_space_move(n) \/ \E m \in Name : flag_rename(n, m)
  \/ \E p \in Prefix : flag_remove_prefix(p) \/ \E q \in Prefix : flag_rename_prefix(p, q)
  \/ flag_remove_all \/ flag_space_all \/ flag_space_remove_any
  \/ \E s \in SpaceName : flag_space_set(s) \/ flag_space_remove(s)
  \/ \E at \in Addr, p \in Prefix \union {AnyText} : flag_get_here_filter(at, p)
  \/ Interrupt \/ radare_prompt

Spec == Init /\ [][Next]_vars

-----------------------------------------------------------------------------
\* The cached section name is what a search of the list finds for every
\* address in the interval it is kept for, from the moment it is found until
\* the list changes, another prefix is asked for or a search fails.
CachedNameTrue ==
  filled # NULL =>
    \A at \in Addr : Cached(at) =>
      Below(at, filled) # {} /\ flags[Found(at, filled)].name = cache.str

\* What is remembered beside the list is true of it: the spaces of the flags
\* exist, and the cached name is the one a search finds.
RemembersTrue == SpacesExist /\ CachedNameTrue

Unique == \A i, j \in DOMAIN flags : flags[i].name = flags[j].name => i = j

Table ==
  [n \in {flags[i].name : i \in IF Unique THEN DOMAIN flags ELSE {}} |-> flag_get(flags, n).offset]

Map == INSTANCE FlagMap WITH void <- ~Unique, table <- Table

\* While every name is there once the list is a map from names to addresses,
\* and nothing any command of flags.c does to it is more than FlagMap allows.
ImplementsMap == Map!Spec

\* Each command does to the map what it is documented to do, and only f and
\* fr can make a name appear twice: f when an interruption hides the flag it
\* should move, fr when the new name is taken.  f -name of an unknown name and
\* f -prefix* remove the flags at address 0 too.  After f name the name
\* evaluates to the new address even then, though setting looks for it from
\* the start of the list and flag_get from its end, and though an interruption
\* makes the loop miss the flag; the exception is a name that is there twice.
SetWins(n, a) ==
  CmdFlag(n, a) /\ (interrupted \/ ~ \E i, j \in Named(flags, n) : i # j) =>
    flag_get(flags', n).offset = a + from

CommandsRefine ==
  [][/\ \A n \in Name, a \in Addr : SetWins(n, a)
     /\ Unique /\ ~interrupted =>
          /\ \A n \in Name, a \in Addr : CmdFlag(n, a) => Unique' /\ Map!Set(n, a + from)
          /\ \A a \in Addr : flag_clear_by_addr(a) => Map!RemoveAt(a)
          /\ \A n \in Name : flag_remove(n) =>
               IF Named(flags, n) # {} THEN Map!Remove(n) ELSE Map!RemoveAt(0)
          /\ \A p \in Prefix : flag_remove_prefix(p) => Map!RemovePrefix(p)
          /\ \A n, m \in Name : flag_rename(n, m) /\ n # m /\ Named(flags, m) = {} =>
               Unique' /\ (Named(flags, n) # {} => Map!Rename(n, m))
    ]_vars
=============================================================================
