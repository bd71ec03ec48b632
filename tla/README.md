# Verification of radare's stateful core

radare is a command-line hexadecimal editor, disassembler and debugger. Most of
its code transforms bytes (disassemblers, file formats, printing). This
directory is about the rest: the parts that keep state from one command to the
next, where a mistake needs a sequence of commands, a stop of the debugged
process or a split network message to show. For each part there is a TLA+
module written from the C code, a TLC configuration that explores a small
instance completely, and TLAPS proofs of its safety properties that hold for
every instance.

Paths below are relative to `src/` of the repository unless they start with
`doc/`.

## Inventory

### The parts that keep state

| component | state | operations | what is hard | what makes it correct | module |
|---|---|---|---|---|---|
| Seek history (`undo.c`, callers in `cmds.c`, `visual.c`) | array `undos[64]`, `undos_idx`, `undos_lim`, `config.seek` | push, undo, redo, reset, `$l` | the full array is shifted in place; callers record before, after or around the seek; index 0 reads `undos[-1]` | index inside the array; only visited positions are offered; redo reverts undo | `SeekHistory` |
| Write history (`undo.c`, `rio.c`, `cmds.c`) | list of writes with old and new bytes and a set mark, a lock, the write mask | record, undo or redo one or all, clear, write, poke, dump | overlapping entries, skipped duplicates, masked and refused writes, undo in any order | undo all brings every recorded byte back | `WriteHistory` |
| Breakpoints and run control (`dbg/bp.c`, `dbg/arch/i386-bp.c`, `dbg/debug.c`, `dbg/unix/debug.c`) | table `ps.bps`, count `ps.bps_n`, debug registers, int3 bytes in the process | set, remove, remove all, reload; step, continue, step over, continue until | the stop of the process interleaves with the rest of the command; two ways to arm; temporary breakpoints removed by number; limits of table and registers | memory, registers and count agree with the table; nothing temporary is left; the program counter is true; no breakpoint is missed | `Breakpoints` |
| Remote protocol (`plug/io/remote.c`, `rtr.c`, `socket.c`) | sockets, `config.fd`, `config.seek`, `config.block` of the server | open, read, write, seek, system, command, close | messages split by TCP, unchecked reads, both ends waiting | ends stay in step, data is true, every call returns | `RapProtocol` |
| Address ranges (`ranges.c`) | list of ranges, `ranges_changed` | add, subtract, merge, sort, list, gaps, reset | lists changed while they are walked, `goto` back to the head, a stale flag | coverage, order, true gaps, termination | `Ranges` |
| Debug events and threads (`dbg/unix/debug.c`, `dbg/thread.c`, `dbg/events.c`) | thread list, `ps.tid`, the event last read | wait, continue, step, change thread; stops, clones and ends of threads | results of waitpid in any order, a second wait inside the first, forgotten stops | every stopped thread can be continued; nobody waits for someone who waits; a stop ends the wait | `DebugThreads` |
| Flags (`flags.c`) | list of named addresses, flag spaces, a cached section name | set, rename, remove by name, prefix or address, select and move between spaces, look up | two search directions, an interruption that hides the list, a stale cache | a map from names to addresses | `Flags`, `FlagMap` |
| Search (`search.c`, `binparse.c`) | automaton state per keyword, position, hits and their flags | feed byte, hit, block loop over ranges, `/n` | matches across blocks, restart after a mismatch, ^C between two bytes | hits are occurrences, misses are accounted for | `Search` |
| Sections (`section.c`, `rio.c`) | section list, `io.vaddr`, `io.paddr`, the last translation | add, remove, change, translate, seek, read and write elsewhere | stale translation, reads that seek there and back, also between the seek and the write of a write | a write hits what a read showed; the user's position is kept | `Sections` |
| Macros (`macros.c`) | code of each macro, nesting level, break flag | define, call, jump, break | recursion on code that is cut while it runs | code is put back, calls end | `Macros` |
| Remote hosts (`rtr.c`) | table of hosts, selected index | add, remove, select | full and empty table, leaked connections | the selected host is the one the user means | `Hosts` |
| Traces (`trace.c`) | list of traced instructions, tags | add, set, reset, sort, list | a sort that moves what it walks over | counts and listings are true | `Traces` |
| Metadata and projects (`data.c`, `cmds.c`, `visual.c`, `project.c`) | lists of items, comments and references | add, convert a selection, fold, remove, remove a range, save and open a project | items found again by address, lists read back in another order | selections, removals and projects do what they show | `Metadata` |
| Watchpoints (`dbg/wp.c`, `dbg/debug.c`, `dbg/parser.c`) | table of conditions, their number | add, remove, step until one holds | skipped tokens keep no operator, holes in the table | `!contwp` stops where a condition holds and passes no such state | `Watchpoints` |
| IO maps (`io.c`, `rio.c`, `undo.c`) | list of mapped files, open file, write history | map, read, write, undo | short reads reported as full, undo through a map | bytes appear at their own address only; undo restores the file | `IoMaps` |

How they interact: every command goes through `radare_cmd`, which runs one
command at a time; there are no threads in radare itself. Concurrency comes
from outside: the debugged process (signals and stops, read with `waitpid`),
the other end of a socket, and the user, who may give any legal command between
two others. Undoing a write calls `radare_write_at`, which records unless the
undo lock is taken and asks the sections for permission. Run control sets and
removes breakpoints around a wait for the process. Listings of ranges trigger
the sort; the search and the disassembly loops ask the ranges for intervals.
The remote plugin is an IO plugin whose server executes whole commands.

### Not modelled

* Debugger pages (`dbg/mem.c`): each command is one injected system call; the
  list of permissions is never applied, as nothing calls `up_regions`.
* IO plugins (`plugin.c`, `plug/io`): the table is filled once; each plugin
  passes calls on. Plugins that talk to other debuggers have their state there.
* Signals, descriptors and system calls of the process: one injected call each.
* Code variables (`vars.c`): local variables and arguments of functions, lists
  by address that only listings read.
* Disassemblers, assemblers and analysis (`arch/`, `pas.c`, `vm.c`,
  `analyze.c`, `code.c`): decoding tables, much of it third-party; they are
  more than half of the lines of the repository and keep no state. This is why
  the modules stand for a small share of its lines: outside the parts listed
  above there is no control to model.
* Stand-alone tools (`rabin`, `rahash`, `radiff`, `rasm`, `rsc`, `rax.c`): one
  pass over a file.
* Console, line editor, printing and visual mode: drawing; the visual keys that
  touch the seek history are in `SeekHistory`, those that convert and fold in
  `Metadata`.
* Command parsing and configuration: parsing and formatting; the variables that
  matter are constants or variables of the modules.
* Back ends for other processors and systems: the breakpoint table is shared,
  only arming differs. Graphical interfaces and scripting.

## Plan

1. `SeekHistory`, `WriteHistory`, `Breakpoints`, `RapProtocol`, `Ranges`: done,
   with proofs of all their safety properties.
2. `DebugThreads`, `Flags` with its abstract `FlagMap`, `Search`: done, with
   proofs of all their safety properties.
3. `Sections`, `Macros`, `Hosts`, `Traces`, `IoMaps`, `Metadata` and
   `Watchpoints`, checked together as `Tables`: done, with proofs of all their
   safety properties.
4. What is left is listed above under "Not modelled", and liveness, which stays
   with TLC.

## The modules

Every module keeps the names of the C functions. A definition whose name ends
in a suffix after the name of another one (`undo_push_no_shift`, `Cut_wrong`)
is that definition with a plausible bug; each property is known to be violated
by at least one of them, so that none holds for an empty reason.

### SeekHistory

The array, the index and the high-water mark are one record `hist`;
`undo_push`, `undo_seek`, `undo_redo`, `undo_reset` and `undo_get_last_seek`
are translated statement by statement. `SeekCmd` (seek, then push),
`VisualJump` (push, then seek), `VisualDigit` (both) and `Scroll` (no push) are
the callers. The word before the array, read when the index is 0, is any
address. `visited` and `lastseek` are history variables.

Run `seek_history`: capacity 4 and three positions, 20 205 states. Four slots
let the array fill, shift and be walked both ways; three positions tell the
newest, the previous and another entry apart. It shows that the index stays in
the array (`SeekTypeOK`), that no slot that was never written is offered
(`OnlyVisited`), and that the three ways back agree (`UndoRedoAgree`): redo
reverts undo (`RedoRestores`), undo returns to the place before a seek also
when the array shifts (`UndoGoesBack`), and `$l` names the target of the next
undo (`LastSeekAgrees`).

### WriteHistory

A run of bytes is a function on the offsets it covers, so overlaps are domain
intersections. Entries keep old and new bytes and the set mark. Modelled are
`undo_write_new` with its duplicate test and lock, `undo_write_set`,
`undo_write_set_all`, `undo_write_clear`, `radare_write_at` with the section
test and the write mask, `radare_write` with `cfg.count`, `radare_poke`,
`radare_dump`, and the switches `file.write`, `file.undowrite` and the mask
(`Setup`). `base` is the file when the history was last empty and `lost` the
bytes changed while no entry covered them.

Run `write_history`: a file of two bytes, a history of two entries, writes of
one and two bytes, masks, a refusing section, `cfg.count` up to 2, recording
and writing switched on and off; 809 784 states. This is enough for two entries
that overlap completely, partly or not at all, for a duplicate of an undone
entry and for an entry that covers a byte another one did not. To keep the run
small, a history of two entries, one of them longer than a byte, is not
extended once a byte was changed without an entry (`Bounded` of `MCWrite`); the
theorems below have no such bound. The run shows that the oldest entry of a
byte always knows its original value (`OldestKnowsBase`), that `ua` restores it
(`UndoAllRestores`) and that `u 0` reverts the last write
(`UndoNewestRestores`).

Run `RedoAllRestores` is violated: redo all applies the entries from newest to
oldest.

### Breakpoints

The table and the count are variables; `cc` is the set of addresses whose byte
is int3 and `dr` the debug registers. A command that lets the process run sets
`mode` and what is left to do (`then`), and the process takes steps (`Execute`,
`Int3`, `Signal`; these and the processor are external) until it stops, when
the trap handler and the rest of the command run. The program is a constant:
lengths and successors of its instructions. Where the code would leave the
array (a count above the slots in use in `debug_bp_reload_all`, or no free slot
although the count says so) the model stops. `want` is what the user asked for,
`at` where the program really is, `ran` whether it executed something,
`manual` whether the user changed a debug register by hand.

Run `breakpoints`: three slots, one debug register and a loop with a call,
379 003 states. With one register a second hardware breakpoint already falls
back to int3; with three slots the table fills and gets holes. It shows
`CountAgrees`, `MemoryMatchesTable`, `RegistersMatchTable`, `NoTemporaryLeft`,
`ProgramCounterTrue` and `NoBreakpointMissed`. The constants satisfy `Separate`:
breakpoints of the user and of run control are at different addresses, not
inside each other's instructions and not on one-byte instructions. Outside it
the count, memory or the program counter go wrong (see the divergences).

Run `bp_ContinueProceeds` is violated within it: after a stop at a software
breakpoint `!cont` stops there again, since nothing steps over the int3.

### RapProtocol

A server and one client, the IO plugin or the host list, with the messages as
byte sequences and lengths as four bytes: a wrong length is a wrong number of
bytes read. A channel is what can be read now and what is on its way; one write
may arrive in two pieces (`Sent`, `Take`, `Arrive` are external), and every
read of the code returns what is there. `remote_write`, the handler of
`RMT_WRITE` and the truncation of the offset to an int are as in the code. A
read at or behind the end of the file gives 0xff. The offset -1 is left out,
which `radare_read` takes for an error.

Run `rap`: up to four calls, reads of 1, 3 and 9 bytes around a block of 7,
offsets at 0 and at 2 GB, where the int becomes negative; 99 950 states. It
shows that the ends stay in step (`InStep`), that what reads and seeks answer is
true (`AnswersTrue`) and, under weak fairness, that every call but
`remote_write` returns (`CallReturns`). Fairness is weak fairness of the server, of
the client that waits for a reply, and of delivery: both processes block in
`read` and run again as soon as there is data, and TCP delivers what was sent.
Nothing obliges the user to call. Deadlock is not checked, since a client that
has used its calls stops, and since a client in `remote_write` and the server
wait for each other.

### Ranges

`ranges_add` is an operator, since it runs through without looking back.
`ar-`, `arm`, the sort and `arb` walk the list in one step per element, with
the position and the state of the walk in `run`, because what they change under
their own feet is the point. A range covers `from <= x < to`, as `ranges_get`
has it.

Run `ranges`: five addresses and three ranges, 830 546 states. Five addresses
hold a range strictly inside another with room on both sides, and two separate
ranges with a third between them; three ranges are the least for which a sort
can go wrong in the middle. It shows what `ar+` (`AddIsUnion`), `ar-`
(`SubKeeps`) and `arm` (`MergeKeeps`) do to the covered addresses, that what is
listed is true (`ListingsTrue`: listings see a sorted permutation except after
`ar-` moved a start, and what `arb` reports, as below), and that every command ends
(`CommandEnds`, under weak fairness of the steps of the command that runs: a
loop in a single thread). `arb` is no exact complement: `GapsTrue` says that it
reports every address of its interval that no range covers and nothing outside
the interval, and of the covered addresses only those of ranges it passes over
(`PassedOver`), the ones that start at or below the address it has reached. So
with a range from 0 to 3, `arb 0 5` prints 0 to 5. Run `RangesSubRemoves` is violated: the split
overwrites the end it needs, and strict comparisons leave ranges that share an
end.

### DebugThreads

The debugger is a state machine around `debug_dispatch_wait`: at the prompt
(`shell`), in the loop of `!cont`, in the first `waitpid` (`wait`) or in the
second one, which waits for a thread the main one has created (`waitnew`). The
kernel's side (external) keeps for each thread whether it runs, is stopped or
is gone, and the event nobody has read; `ptrace` continues a stopped thread and
drops that event. `IgnoreOther`, `Dispatch`, `DispatchNoChild` and
`DispatchNew` are the ways through `debug_dispatch_wait`; `debug_cont`,
`debug_step` and `debug_th` are the commands. `lost` records threads whose
event was read or dropped without a word, `switched` the use of `!th`.

Run `threads`: a main thread and two identifiers for others, with every
combination of `dbg.focus`, `dbg.contall` and ignored events, 747 222 states. Two others are
enough for a clone whose event is read after the stop of its child, for an
identifier that is used again, and for a third thread that reports meanwhile.
It shows that every thread that stands still is known and continued
(`NoThreadLeftBehind`), that the debugger does not wait for a process that
waits for it (`WaitCanEnd`), that nothing is dropped without `dbg.focus`,
`dbg.contall` or `!th` but the stop of a new thread (`NoEventLost`), and that a
stop ends the wait (`StopEndsWait`). The exceptions each property names are
real: they are the ways in which the code loses a thread. Fairness is weak
fairness of `Wait`: `waitpid` returns when there is something to read. A
process that has ended stops the system, so deadlock is not checked.

### Flags and FlagMap

`Flags` has the list as a sequence, the spaces, the current base, the cached
section name and `config.interrupted`, which makes every loop over the list end
before it looks at a flag. One action per command (`f`, `fu`, `ff`, `fb`,
`f -`, `fr`, `fs`, `fm`, `fh`) and per caller that allows duplicates. `FlagMap`
is what the commands promise: a map from names to addresses, void while a name
is there twice.

Run `flags`: two names, three addresses, two flags, one space slot for two
space names, so that the table of spaces is full; 71 280 states. It shows that `Flags`
implements `FlagMap` under the mapping `table <- name to address of flag_get`,
`void <- ~Unique` (`ImplementsMap`), that each command is the operation it is
documented to be (`CommandsRefine`, which names the exceptions: flags at address
0 go with every `f -prefix*`), and that what is remembered beside the list is
true of it (`RemembersTrue`): the spaces of the flags exist (`SpacesExist`) and
the cached section name is the one a search would find until the list changes
(`CachedNameTrue`). The user may stop, so deadlock is not checked.

### Search

`search_range` is a program counter over ranges and blocks; `update_tlist` is
one action per byte, with `estat` of each keyword. The comparison with memory
behind the tokens after a hit is a choice. A token is the set of bytes it
accepts, which stands for characters, ranges and masks.

Run `search`: all files of four bytes over a small alphabet, blocks of two
bytes, one or two keywords of one and two tokens, one or two ranges, alignment
and a limit of hits, ^C before any byte, two searches, 979 024 states: matches across a block
border, overlapping occurrences and hits of two keywords at one byte all
happen. The reference is the set of all occurrences. Every hit is one, with the
two exceptions that `HitsAreThere` names, its flag and number lead to it, and
`/n` stays among them (`HitsTrue`); every occurrence
that is not reported has one of five causes (`MissesExplained`); what is kept
after ^C repeats nothing (`ResumeRepeatsNothing`).

### Tables: Sections, Macros, Hosts, Traces, IoMaps, Metadata, Watchpoints

Seven tables without shared state, so that a behaviour of `Tables` works with
one of them.

* `Sections`: `radare_seek` with `section_align` and its remembered result;
  `radare_read_at` as a seek there and back, and `radare_write_at` with the reads
  of the old bytes it makes between its seek and the write, none, one (for the
  history or for the mask) or two; the `S` commands and `io.vaddr`, `io.paddr`.
  Two sections, commands at address 4, which lead to the positions 0, 2 and 4,
  `io.vaddr` 0 or 2, and the properties ask about every address up to 6, below, above and at least twice `io.vaddr`.
  `SectionsTrue`: a seek can be repeated (`SeekIsStable`); a write goes where a
  read of the same address read (`WriteWhereRead`), with two exceptions: an
  address equal to the remembered result, and a write that reads first at an
  address at or above twice `io.vaddr`, whose position is not relative; where the
  bytes go in the second exception is stated too (`WriteSlips`); and both come
  back to the user's position (`ComesBack`), refused writes excepted.
* `Macros`: calls as a stack, the line ends that are overwritten while a line
  runs as `cut`. Two macros with all bodies of up to two lines and three longer
  ones, nesting limit 3. `MacrosTrue`: the code is put back on every way out,
  a recursive call sees the code up to its caller's line, a break ends all
  calls, and calls without jumps end. Fairness: weak fairness of the running
  call, since radare is one thread.
* `Hosts`: three slots, six descriptors. `HostsTrue`: open connections and table
  agree but for the ones the code leaks, the host the user selected stays
  selected, and after its removal another one is.
* `Traces`: four addresses, three additions, tags. `TracesTrue`: counts, the
  order after the sort (which moves the element it stands on; that its walk
  ends is part of the property), and the ranges listed.
* `IoMaps`: a file of three bytes, two maps of a file of two, writes of one and
  two bytes with undo and redo. A byte is where it comes from. `MapsTrue`: no
  byte appears at an address it is not mapped to, and undoing all writes
  restores every byte that was never written through a map.
* `Metadata`: items and references as sequences with the newest first, comments
  with the oldest first, as the lists have them. A project file is the commands
  `C*` prints, so that opening one is a replay of the lists (`Reopen`). Three
  addresses, two entries, seven cursors: a single byte, two and three bytes
  forwards, backwards to the first byte of the block and not, and no selection
  with and without a cursor;
  all pairs of overlapping items occur. `MetadataTrue`: no comment or
  reference is there twice; converting a selection of one byte, of three or more
  made forwards, or of any made backwards to the first byte of the block makes
  one item of exactly its bytes and changes no other (`Selects`), while two bytes
  made forwards become an empty item (`TwoForwards`) and any other backward
  selection an item that misses its first byte; `Cr` leaves no item that shows in
  its range but those that reach beyond both ends, and of the items outside takes
  away those that adjoin the range and no others; and a project keeps all
  comments in order, each code reference with its ends exchanged, and each item
  unless an older one starts inside it. Two entries are the least for an item that hides, removes or
  changes another; with three entries on two addresses the property holds too.
* `Watchpoints`: the table with its count, conditions as token lists with one
  level of groups, and the process as any change of what its comparisons
  yield. Two slots leave a hole below a used one. `WatchTrue`: `!contwp` stops at
  the first watchpoint that holds and passes no state in which one holds, where
  the meaning of a condition is defined apart from its evaluation: an operator
  takes everything behind it as its right-hand side.

Run `tables`: 290 510 states. The bounds of each part let its table fill,
empty and fill again.

## What is proved

All proofs are checked by TLAPS with Z3, Zenon and LS4. A theorem holds for
every value of the constants that satisfies the named ASSUME of its module;
those assumptions say that sizes and bounds are natural numbers, that an
instruction has at least one byte (`LayoutAssumption`, `TraceAssumption`), that
a keyword has at least one token and a block at least one byte
(`SearchAssumption`), that a cursor is a mode, a position and a mark
(`MetaAssumption`), that
a message is not split within its first ten bytes and carries no byte that is
the code of a message (`RapAssumption`), and that macros and conditions are what
the parsers make of a text (`MacAssumption`, `WatchAssumption`).

Loops of the code are recursive functions over `0 .. n`. Two lemmas make them
usable in a proof: `Recursion` (a function that starts with a value and goes on
by a step exists, so that the definition can be unfolded) and `Climbs` (a set
with 0 that has k whenever it has k - 1 has all of `0 .. n`), both from the
well-foundedness of the natural numbers. The loop invariant is the set.

* `HistoryProofs`, the seek history: `SeekTyped`, `HistoryVisited` and
  `HistoryAgrees`, for
  every capacity of at least 3. The inductive invariant is the conjunction of
  `SeekTypeOK`, `OnlyVisited` and `seek \in visited`; the lemmas say that a push,
  shifting or not, keeps a history good and within the visited positions. That
  undo, redo and `$l` agree (`UndoRedoAgree`) also needs `LastRemembered`: what
  the history variable remembers of the last command is still what the array
  holds around the index.
* `HistoryProofs`, the write history: `HistoryTyped`, `HistoryKeepsBase`,
  `UndoAllCorrect` and `UndoNewestCorrect`, for every file size, history length, section layout and
  sequence of masks. Undo all is right because it writes, for each byte, the
  old value of the oldest entry last; the invariant is that this value is the
  original one. It needs the second half (an uncovered byte still has its
  original value) so that a new entry on an uncovered byte records the right
  one. `u 0` is right because the newest entry knows the bytes before it
  (`NewestKnowsBefore`).
* `BreakpointsProofs`: `TypeCorrect`, `CountCorrect`, `MemoryCorrect`,
  `TemporaryRemoved`, `ProgramCounterCorrect`, `RegistersCorrect` and
  `BreakpointsStop`, for every program, table size and number of registers,
  under `Separate`. The invariant has a table part (count, unique addresses,
  int3 exactly at software breakpoints, saved bytes clean) and a run-control
  part: while a command waits, the slot of its temporary breakpoint is below
  the count, because the first free slot of a table without duplicates is, and
  all other breakpoints are the user's. `RegistersGood` adds that each hardware
  breakpoint has one register and each register in use one breakpoint; hence the
  table never has more hardware breakpoints than there are registers
  (`HardFits`). `Separate` is needed: it excludes `!contu` onto a breakpoint of
  the user, removal at address 0, overlapping instructions and one-byte
  instructions, for which the code loses track of the count, of memory or of
  the program counter (see the divergences below).
* `RapProtocolProofs`: `EndsInStep` and `AnswersCorrect`, for every block size,
  every number of calls and every way a message is split. As long as no read
  came back short there is at most one message on its way, the request the
  client waits for or the reply to it, whole or with the first ten bytes
  readable (`OneMessage`), and the server stands where the client last asked it
  to be (`ServerPlaced`). The lemmas take the bytes of each request and reply
  apart: a word written byte by byte is read back as the same number, and what
  each handler reads is what the client wrote.
* `RangesProofs`: `TypeCorrect`, `AddCorrect`, `MergeCorrect`, `SubCorrect` and
  `ListingsCorrect`, for every set of addresses and every length of the list.
  The invariant adds to `SubKeeps` that a range that reaches around the
  subtracted one is still one of the ranges the command started with
  (`AroundIsOld`): only then is what the split loses accounted for. For the
  listings it says that the elements the sort has passed are in their final
  place (`Passed`), that an unset `ranges_changed` means a sorted list but for a
  start that `ar-` moved (`OrderKnown`), that a sort only rearranges
  (`SameRanges`) and that `arb` has reported every gap up to where it stands
  (`GapsSoFar`). That it reports no other address but those of ranges it passes
  over needs what it knows of the ranges behind it: each of them ends at or below
  the address it has reached, begins at or beyond the end of the interval, or is
  one of those (`Behindhand`).
* `DebugThreadsProofs`: `NobodyLeftBehind`, `WaitsCanEnd` and `EventsAreShown`,
  for any number of threads and all settings. The invariant adds what the
  kernel keeps (`KernelInv`), that the new thread of an unread clone can still
  report or is accounted for (`ChildKnown`), that the current thread is known
  until the user changes it (`CurrentInv`), and that where only the current
  thread is continued whatever runs is listed (`ListedInv`).
* `FlagsProofs`: `RememberedCorrect`, `FlagsImplementMap` and `CommandsCorrect`,
  for any number of names, addresses, flags and spaces. `RemembersTrue` is
  inductive. For the refinement each command is shown to be a step of `FlagMap`
  or none: removing elements from a list without duplicates removes their names
  from the map and leaves the others (`WithoutTable`), and a move, a rename or
  an append changes one name; while a name is there twice the map is void.
* `SearchProofs`: `SearchReportsTruth`, `SearchMissesExplained` and
  `SearchResumes`, for every file, set of keywords, block size, list of ranges,
  alignment and limit of hits, and ^C before any byte. A keyword's state counts
  the bytes of a match it has seen, but a list does not see the byte at which an
  earlier list has a hit, and its state is not cleared by its own hit. So the
  invariant cannot speak of the file alone: `StatesMean` says which bytes each
  state stands for, given the hits so far (the last bytes seen match that many
  tokens, except that the second byte after a hit may have been taken for the
  first token), and `HitsGenuine` that each hit was such a match. For the misses,
  `FitsFollowed` says that what matches up to the present byte is either the
  match that the state follows, or began while the list was busy with another
  one, or has been reported or refused; with no bytes left this is
  `MissesExplained`. `Placed` ties the bytes that were given to the lists to the
  program counter. That facts about bytes already read do not change when a hit
  is added behind them (`SawStable`, `AfterStable`, `GenuineStable`) carries each
  of these over a step.
* `TablesProofs`, one theorem for each table:
  * `HostsCorrect`, for every size of the table; the invariant adds that a
    connection in no slot stays open, so that its number is not used again.
  * `SectionsCorrect`, for every list of sections. Only the type of the state is
    needed: what holds of a seek does not depend on what was done before. To
    translate an address a second time gives the same offset and remembers the
    same (`AlignAgain`), so that a read between the seek and the write of a
    relative address leaves the descriptor where it was (`SeekAgain`); a position
    that is not relative is translated as another address (`SlippingWrites`).
  * `MapsCorrect`: the oldest entry that covers a byte never written through a
    map holds the byte the file had first, and without one the file has it.
  * `WatchCorrect`, for conditions of every length: evaluation from the left with
    skipping gives what the condition means read from the right.
  * `MacroCodeCorrect`, the safety part of `MacrosTrue`. The invariant `MacInv`:
    every call but the last waits; the cut lines are those torn by a failed jump
    and those of waiting calls that have an end, each cut once; and a waiting
    line without an end is the last one, or torn, or was cut by a call further
    down the stack.
  * `TracesCorrect`, for every list, instruction sizes and tags. The traces the
    sort has passed have nothing smaller behind them, and a trace it moves ahead
    joins those that have not and stays there: so a turn goes on or settles one
    more, and two turns for each trace are enough. The flag is only cleared by a
    sort that moved nothing, which means that all addresses are the same. A
    listed range is a chain of instructions that ends where none begins, and
    each turn of the listing begins behind the end of the last.
  * `MetadataCorrect`, for all lists, addresses, lengths, texts and cursors. The
    invariant `MetaInv` adds to the type that no reference or comment is there
    twice and that no comment of an address stands before one that begins with a
    star (`CommentsGood`): only then does reading the comments of a project, where
    each star erases the others of its address, give them all back. A removal is
    shown to leave the other elements in their order (`Origin`), and each replay
    is an induction over the list: the comments read so far are the first ones,
    code references come back in the opposite order with their ends exchanged
    (so twice is as before), and of the items those are left in whose bytes no
    later one of the list starts. For a
    selection `SelectionMade` says what `data_set_len` does to the new item, and
    `SelectionBounds` which bounds the two functions compute in each case.

Only model-checked:

* Liveness, which is out of the prover's reach: `CallReturns`, `CommandEnds`,
  `StopEndsWait` and the end of macro calls, the last conjunct of `MacrosTrue`.

The properties of the runs that expect a violation are refuted by TLC, not
proved. Every other property that a run checks is the statement of a theorem.

## Divergences noted while modelling, without a run

* Seek: the visual keys `.` and quote push before they seek, so that `u` goes one
  entry too far (`visual.c:1652`; `doc/radare.but:690` says to press `u` to
  undo); the first undo reads `undos[-1]` (`undo.c:48`); `s!` keeps `undos_lim`,
  so that redo walks the old history (`undo.c:79`).
* Writes: with `cfg.count` above 1 only the first copy is recorded
  (`rio.c:274`); `u N` counts from the newest entry and the listing from the
  oldest (`undo.c:209`, `undo.c:154`); an undo refused by a section is still
  marked as done (`rio.c:102`).
* Breakpoints: `!contu` to an address that has a breakpoint takes the return
  value 0 for slot 0 and makes the count wrong (`dbg/bp.c:216`); a software
  breakpoint on a one-byte instruction followed by a
  hardware one is mistaken for it (`dbg/bp.c:118`); breakpoints in overlapping
  instruction bytes leave or erase an int3 (`dbg/arch/i386-bp.c:329`); `!bp*`
  stops at the first hardware breakpoint it cannot disarm (`dbg/bp.c:358`); the
  handler of a trace breakpoint steps into the same int3 again
  (`dbg/unix/debug.c:906`).
* Protocol: the handler of `RMT_WRITE` reads 5 bytes where the client sends 4 and
  never answers, and `remote_write` waits for an answer
  (`plug/io/remote.c:190`); unchecked short reads (`plug/io/remote.c:90`); the client goes on
  when the server could not open the file (`plug/io/remote.c:319`); the byte
  order depends on `cfg.bigendian` of each end; an `RMT_CMD` of length below 1
  gets no answer (`plug/io/remote.c:166`), which no caller sends.
* Ranges: `ar-` does not set `ranges_changed` when it moves a start;
  `ranges_is_used` includes the end; `arm` never removes an element, so that
  the total printed by a listing counts merged ranges twice; `arb` reports
  addresses that are covered (`ranges.c:509`): a range that starts at or below
  the start of the interval, or inside one it has used, is passed over, although
  the drawing above the function (`ranges.c:498-504`) shows the gaps between all
  of them.
* Threads: a clone ends `!cont` although the message says "continue after new
  process" (`dbg/debug.c:1596`); when the stop of a new thread is read first with
  `dbg.focus`, the second wait never ends (`dbg/unix/debug.c:879`); with
  `dbg.contall`, the default, unread stops are dropped (`dbg/unix/debug.c:774`);
  with `dbg.focus` and no child left the wait spins (`dbg/unix/debug.c:816`).
* Flags: the help lists `fn`, which no case handles; `f -prefix*` and
  `f -unknown` also remove the flags at address 0 (`flags.c:776`); `fs -*`
  removes one space (`flags.c:645`), and a 33rd space is silently not made
  (`flags.c:625`); a failed lookup keeps the interval of the cache and empties
  the name (`flags.c:977`); `fm` of an unknown flag dereferences NULL
  (`flags.c:608`).
* Search: a byte that does not fit is not tried as the first of a new match
  (`binparse.c:513`); the state is not cleared after a hit (`binparse.c:527`);
  bytes after the end of the file are 0xff and can match; numbers start again in
  every range, so that flags of earlier ranges are overwritten; ^C ends one range
  only (`search.c:406`).
* Sections: `S -n` reads the sign into the number, so that only section 0 can be
  removed (`cmds.c:2259`); a section with the write permission refuses writes,
  and every new section has it (`rio.c:102`, `cmds.c:2280`); a refused write
  leaves the user at its address (`rio.c:103`); `section_get` takes the newest
  section and `section_align` the oldest; an address equal to the last
  translation is not translated (`section.c:221`). A write at an address at or
  above twice `io.vaddr` with `file.undowrite`, or with a write mask, goes
  `io.vaddr` too low: the read of the old bytes inside `radare_write_at`
  (`rio.c:109` to `undo.c:125`, and `rio.c:114`) seeks back to a relative
  position that is taken as absolute, and the write follows without another
  seek. With `io.vaddr` 0x1000 and `io.paddr` 0x400 the bytes written at 0x3000
  go to 0x1400, while a read of 0x3000 shows 0x2400.
* Macros: only the first label of a call is noted; a failed jump leaves the macro
  cut (`macros.c:336`).
* Hosts: `=-0` closes the standard input; a host added to a full table, or
  refused, stays connected (`rtr.c:154`).
* Traces: the bits of a tag's number are stored instead of the bit with that
  number (`trace.c:145`), so that a tag never lists what was traced under it; a
  listing by tag is empty unless the lowest address of all has the tag
  (`trace.c:265`); address 0 is never listed (`trace.c:289`). Tags up to 63 are
  accepted, but `1<<tag` is a shift of an int (`trace.c:77`), so that tags of 31
  and more select other bits or none; the model has the tags below.
* Metadata: converting in cursor mode adds the cursor twice (`data.c:244`), so
  that only the later `data_set_len` puts the item right, and for a backward
  selection it may change an item that ends there (`data.c:82`); with a cursor and
  no selection the conversion starts a byte before the seek (`visual.c:353`);
  a selection of two bytes made forwards is taken for one made backwards
  (`visual.c:353`) and becomes an empty item; a backward one that does not begin
  at the first byte of the block becomes an item without its first byte; `Cr`
  also deletes the items that end where its range begins and those that begin
  where it ends (`data.c:664`);
  data references are saved as `Cd`, which makes an item, and code references
  with their ends exchanged (`data.c:716`); reading a project drops an item if an
  older one starts inside it (`data.c:227`); adding a comment that begins with a
  star erases the others of its address (`data.c:606`); `Cr` over both ends of a
  reference unlinks it twice and dereferences NULL (`data.c:659`).
* Watchpoints: the limit is compared with the size of the table in bytes
  (`dbg/debug.c:1331`, `dbg/debug.c:1379`), so that a fifth watchpoint is written
  behind it; `!wp -4` is accepted; `!wp*`, which the help lists, is taken for a
  condition; `>` is evaluated as `>=` (`dbg/parser.c:482`); removing a
  condition with a group reads memory after it is freed (`dbg/parser.c:344`).
* Maps: without a size the end of a map ignores its start in the file
  (`io.c:157`); `o-` removes nothing (`io.c:122`); undo writes bytes of the map
  into the open file (`undo.c:125`), and uninitialised ones where the map ended.

Outside the models:

* `ranges_free` walks on from an entry it has freed (`ranges.c:43`), and
  `ranges_add` returns an uninitialised pointer when nothing changes
  (`ranges.c:225`).
* `dealloc_page` reads a freed record (`dbg/mem.c:59`), `trace_reset` walks on
  from a freed entry (`trace.c:312`), `radare_macro_rm` compares a buffer it has
  not filled (`macros.c:130`), and the plugin table gets a sentinel without a
  test that there is room (`plugin.c:213`).
