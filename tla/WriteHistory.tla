---------------------------- MODULE WriteHistory ----------------------------
(***************************************************************************)
(* The write history of radare: the list of recorded writes (undo.c), the  *)
(* commands that write to the file and record what they replace (rio.c,    *)
(* cmds.c), and the 'u' commands that undo and redo them one by one or all *)
(* together.  A run of bytes is a function from the file offsets it covers *)
(* to bytes, so an entry's off and len are the domain of its data.         *)
(***************************************************************************)
EXTENDS Integers, Sequences, FiniteSets

CONSTANTS
  Size,       \* the size of the file
  MaxLen,     \* bound: the longest run of bytes one command writes
  MaxCount,   \* bound: the largest value of cfg.count
  MaxWrites,  \* bound: the longest history
  WSection,   \* offsets that lie in a section with the SECTION_W permission
  UndoWrite,  \* the values file.undowrite may take
  Writable,   \* the values file.write may take
  Masks       \* the values the write mask may take

ASSUME SizeAssumption ==
  /\ Size \in Nat \ {0}
  /\ WSection \subseteq 0 .. Size - 1
  /\ UndoWrite \subseteq BOOLEAN /\ Writable \subseteq BOOLEAN /\ Masks \subseteq {0, 1}

VARIABLES
  file,       \* the bytes of the file
  w,          \* undo_w_list, oldest entry first
  pos,        \* config.seek
  undowrite,  \* file.undowrite
  writable,   \* file.write
  mask,       \* write_mask, one byte of one bit: 1 is no mask
  base,       \* history variable: the file when the history was last empty
  lost,       \* history variable: bytes changed while no entry covered them
  last        \* history variable: the last command, and the file before it

vars == <<file, w, pos, undowrite, writable, mask, base, lost, last>>

Off == 0 .. Size - 1
Byte == {0, 1}
Runs == {r \in {a .. a + l - 1 : a \in Off, l \in 1 .. MaxLen} : r \subseteq Off}
Data == UNION {[r -> Byte] : r \in Runs}

Entry == {e \in [set : BOOLEAN, n : Data, o : Data] : DOMAIN e.o = DOMAIN e.n}

\* The first offset of a run.
Start(d) == CHOOSE a \in DOMAIN d : a - 1 \notin DOMAIN d

\* io_write: the bytes d over the file f, if the file is open for writing.
Patch(f, d) == IF writable THEN [x \in Off |-> IF x \in DOMAIN d THEN d[x] ELSE f[x]] ELSE f

\* The write binary mask applied to d.
Masked(d) == [x \in DOMAIN d |-> d[x] * mask]

Covered(h) == UNION {DOMAIN h[i].n : i \in DOMAIN h}

(***************************************************************************)
(* undo_write_new, and two variants with a bug for the mutation runs: the  *)
(* old bytes copied one short, and the old bytes read after the write.     *)
(***************************************************************************)
undo_write_new_short(h, d, f) ==
  IF ~undowrite \/ \E i \in DOMAIN h : h[i].n = d THEN h
  ELSE Append(h, [set |-> TRUE, n |-> d, o |-> [x \in DOMAIN d \ {Start(d)} |-> f[x]]])

undo_write_new_late(h, d, f) ==
  IF ~undowrite \/ \E i \in DOMAIN h : h[i].n = d THEN h
  ELSE Append(h, [set |-> TRUE, n |-> d, o |-> d])

undo_write_new(h, d, f) ==
  IF ~undowrite \/ \E i \in DOMAIN h : h[i].n = d THEN h
  ELSE Append(h, [set |-> TRUE, n |-> d, o |-> [x \in DOMAIN d |-> f[x]]])

(***************************************************************************)
(* The commands that write.  Effect describes the new file, history and    *)
(* bookkeeping; touched is what io_write changed.                          *)
(***************************************************************************)
Other == [cmd |-> "other", arg |-> 0, before |-> base]

Effect(h, f, touched) ==
  /\ Len(h) <= MaxWrites
  /\ w' = h
  /\ file' = f
  /\ lost' = IF writable THEN lost \union (touched \ Covered(h)) ELSE lost
  /\ last' = IF Len(h) > Len(w) /\ touched = DOMAIN h[Len(h)].n
             THEN [cmd |-> "write", arg |-> 0, before |-> file] ELSE Other
  /\ UNCHANGED <<undowrite, writable, mask, base>>

\* radare_write_at: a run that starts in a section with SECTION_W is refused
\* and leaves config.seek at the refused offset.  wF and wo seek back at the
\* end of the w command; edits of the visual mode do not.
radare_write_at(d) ==
  IF Start(d) \in WSection
  THEN /\ pos' \in {pos, Start(d)}
       /\ Effect(w, file, {})
  ELSE /\ UNCHANGED pos
       /\ Effect(undo_write_new(w, d, file), Patch(file, Masked(d)), DOMAIN d)

\* wa: the run is recorded before radare_write_at accepts or refuses it, and
\* the w command seeks back.
WriteAssembled(d) ==
  LET h == undo_write_new(w, d, file)
  IN  /\ UNCHANGED pos
      /\ IF Start(d) \in WSection THEN Effect(h, file, {})
         ELSE Effect(h, Patch(file, Masked(d)), DOMAIN d)

\* The copies of d that cfg.count = times writes one after another.
Repeated(d, times) ==
  LET len == Cardinality(DOMAIN d)
  IN  [x \in Start(d) .. Start(d) + len * times - 1 |-> d[Start(d) + ((x - Start(d)) % len)]]

\* wx, w and ww (radare_write) apply the mask first, wf (radare_poke) does
\* not; both refuse a read-only file, write the run cfg.count times from
\* config.seek on, and record it at config.seek every time.  Writes that
\* would make the file grow are left out.
WriteTimes(d, times) ==
  /\ writable
  /\ Start(d) = pos
  /\ DOMAIN Repeated(d, times) \subseteq Off
  /\ Effect(undo_write_new(w, d, file), Patch(file, Repeated(d, times)), DOMAIN Repeated(d, times))
  /\ UNCHANGED pos

radare_write(d, times) == WriteTimes(Masked(d), times)

radare_poke(d, times) == WriteTimes(d, times)

\* wv and wb: recorded and written without mask, section or mode test.
WriteValue(d) ==
  /\ Start(d) = pos
  /\ Effect(undo_write_new(w, d, file), Patch(file, d), DOMAIN d)
  /\ UNCHANGED pos

\* radare_dump: the block written to another file is recorded as a write here.
radare_dump(r) ==
  /\ Start([x \in r |-> 0]) = pos
  /\ Effect(undo_write_new(w, [x \in r |-> file[x]], file), file, {})
  /\ UNCHANGED pos

(***************************************************************************)
(* The 'u' commands.                                                       *)
(***************************************************************************)
\* The bytes undo_write_set_t writes for an entry.
Bytes(e, set) == IF set THEN e.n ELSE e.o

UndoDone(cmd, n) ==
  /\ last' = [cmd |-> cmd, arg |-> n, before |-> IF cmd = "undo_all" THEN file ELSE base]
  /\ UNCHANGED <<undowrite, writable, mask, base, lost>>

\* undo_write_set with a bug: the index is counted from the oldest entry.
undo_write_set_from_oldest(n, set) ==
  /\ n + 1 \in DOMAIN w
  /\ w' = [w EXCEPT ![n + 1].set = set]
  /\ file' = Patch(file, Masked(Bytes(w[n + 1], set)))
  /\ UNCHANGED pos
  /\ UndoDone(IF set THEN "redo" ELSE "undo", n)

\* undo_write_set and undo_write_set_t: the n-th entry counted from the
\* newest, written through radare_write_at with recording locked; the set
\* flag changes whether or not the write was accepted.
undo_write_set(n, set) ==
  LET k == Len(w) - n
      d == Bytes(w[k], set)
  IN  /\ k \in DOMAIN w
      /\ w' = [w EXCEPT ![k].set = set]
      /\ IF Start(d) \in WSection
         THEN pos' = Start(d) /\ file' = file
         ELSE file' = Patch(file, Masked(d)) /\ UNCHANGED pos
      /\ UndoDone(IF set THEN "redo" ELSE "undo", n)

Oldest(S) == CHOOSE i \in S : \A j \in S : i <= j

Newest(S) == CHOOSE i \in S : \A j \in S : j <= i

Accepted == {i \in DOMAIN w : Start(w[i].n) \notin WSection}

\* The entries that write offset x when all entries are written.
Writers(x) == {i \in Accepted : x \in DOMAIN w[i].n}

\* undo_write_set_all with a bug: the list is walked from oldest to newest.
undo_write_set_all_forwards(set) ==
  /\ w' = [i \in DOMAIN w |-> [w[i] EXCEPT !.set = set]]
  /\ file' = Patch(file, [x \in {y \in Off : Writers(y) # {}} |->
                           Bytes(w[Newest(Writers(x))], set)[x] * mask])
  /\ UNCHANGED pos
  /\ UndoDone(IF set THEN "redo_all" ELSE "undo_all", 0)

\* undo_write_set_all: from the newest entry to the oldest, for undo and for
\* redo alike, so that at each offset the oldest accepted entry is written
\* last; config.seek ends at the oldest refused entry.
undo_write_set_all(set) ==
  LET refused == DOMAIN w \ Accepted
  IN  /\ w' = [i \in DOMAIN w |-> [w[i] EXCEPT !.set = set]]
      /\ file' = Patch(file, [x \in {y \in Off : Writers(y) # {}} |->
                               Bytes(w[Oldest(Writers(x))], set)[x] * mask])
      /\ pos' = IF refused = {} THEN pos ELSE Start(w[Oldest(refused)].n)
      /\ UndoDone(IF set THEN "redo_all"
                  ELSE IF \A i \in DOMAIN w : w[i].set THEN "undo_all" ELSE "undo_some", 0)

\* undo_write_clear.
undo_write_clear ==
  /\ w' = <<>>
  /\ base' = file
  /\ lost' = {}
  /\ last' = [Other EXCEPT !.before = file]
  /\ UNCHANGED <<file, pos, undowrite, writable, mask>>

\* The user moves, sets the mask ('wm'), or changes an eval variable.
Setup ==
  /\ \/ pos' \in Off /\ UNCHANGED <<undowrite, writable, mask>>
     \/ mask' \in Masks /\ UNCHANGED <<pos, undowrite, writable>>
     \/ undowrite' \in UndoWrite /\ UNCHANGED <<pos, writable, mask>>
     \/ writable' \in Writable /\ UNCHANGED <<pos, undowrite, mask>>
  /\ UNCHANGED <<file, w, base, lost, last>>

Init ==
  /\ file = [x \in Off |-> 0]
  /\ w = <<>>
  /\ pos = 0
  /\ undowrite \in UndoWrite
  /\ writable \in Writable
  /\ mask = 1
  /\ base = file
  /\ lost = {}
  /\ last = Other

Next ==
  \/ \E d \in Data : radare_write_at(d) \/ WriteAssembled(d) \/ WriteValue(d)
  \/ \E d \in Data, t \in 1 .. MaxCount : radare_write(d, t) \/ radare_poke(d, t)
  \/ \E r \in Runs : radare_dump(r)
  \/ \E n \in 0 .. MaxWrites - 1, set \in BOOLEAN : undo_write_set(n, set)
  \/ \E set \in BOOLEAN : undo_write_set_all(set)
  \/ undo_write_clear
  \/ Setup

Spec == Init /\ [][Next]_vars

-----------------------------------------------------------------------------
(***************************************************************************)
(* Properties.                                                             *)
(***************************************************************************)

\* Every entry keeps as many old bytes as new ones, and the file stays a
\* function of its offsets.
TypeOK ==
  /\ file \in [Off -> Byte] /\ base \in [Off -> Byte]
  /\ w \in Seq(Entry)
  /\ pos \in Off
  /\ undowrite \in BOOLEAN /\ writable \in BOOLEAN /\ mask \in Byte
  /\ lost \subseteq Off

\* At every offset that was never changed behind the history's back, the
\* oldest entry covering it holds the byte the file had when the history was
\* empty, and an offset no entry covers still has that byte: through
\* skipped duplicates, masks, refused and failed writes, and any order of
\* undos and redos.
OldestKnowsBase ==
  \A x \in Off \ lost :
    /\ x \notin Covered(w) => file[x] = base[x]
    /\ \A i \in DOMAIN w :
         x \in DOMAIN w[i].n /\ (\A j \in 1 .. i - 1 : x \notin DOMAIN w[j].n)
           => w[i].o[x] = base[x]

\* 'ua' undoes all write changes: with no mask, a writable file and no refused
\* entry it brings every recorded byte back to what it was before the first
\* write, whatever single undos and redos came in between.
UndoAllRestores ==
  [][last'.cmd \in {"undo_all", "undo_some"} /\ mask = 1 /\ writable /\ Accepted = DOMAIN w
       => \A x \in Off \ lost : file'[x] = base[x]]_<<last, file>>

\* 'u 0' straight after a command that added an entry puts the file back as it
\* was before that command, unless radare_write_at refuses the write.
UndoNewestRestores ==
  [][last.cmd = "write" /\ last'.cmd = "undo" /\ last'.arg = 0
       /\ mask = 1 /\ writable /\ Len(w) \in Accepted
       => file' = last.before]_<<last, file>>

\* "ur ; redo all write changes" (cmds.c:1721): straight after 'ua' undid a
\* history of applied writes, 'ur' brings the file back.  The code violates
\* it for overlapping writes.
RedoAllRestores ==
  [][last.cmd = "undo_all" /\ last'.cmd = "redo_all" /\ mask = 1 /\ writable
       => file' = last.before]_<<last, file>>
=============================================================================
