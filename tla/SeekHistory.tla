---------------------------- MODULE SeekHistory ----------------------------
(***************************************************************************)
(* The seek history of radare: a fixed array of the last positions, an     *)
(* index that the undo and redo commands move, and the high-water mark     *)
(* that bounds redo (undo.c), driven by the callers that record a seek     *)
(* after it (the 's' command), before it (visual-mode jumps), both (digit  *)
(* keys), or not at all (visual-mode scrolling).                           *)
(***************************************************************************)
EXTENDS Integers

CONSTANTS
  UNDOS,   \* capacity of the array, 64 in the source
  Addr     \* the positions config.seek may take

ASSUME UndosAssumption == UNDOS \in Nat /\ UNDOS >= 3

VARIABLES
  hist,    \* the static variables undos, undos_idx and undos_lim
  seek,    \* config.seek
  visited, \* history variable: every value config.seek has had
  lastseek \* history variable: the last command, the position it left, and
           \* whether that position was the newest entry

seekvars == <<hist, seek, visited, lastseek>>

Slots == 0 .. UNDOS - 1

Hist == [undos : [Slots -> Addr], idx : Int, lim : Int]

Last == [kind : {"none", "reset", "seek", "jump", "scroll", "undo", "redo"},
         from : Addr, synced : BOOLEAN]

(***************************************************************************)
(* undos[undos_idx-1] as undo_push and undo_seek read it.  With an index   *)
(* of 0 the read is outside the array and yields whatever word the         *)
(* linker placed before it.                                                *)
(***************************************************************************)
Below(h, word) == IF h.idx >= 1 THEN h.undos[h.idx - 1] ELSE word

\* Variants of undo_push with a bug, for the mutation runs: no test for
\* a full array, no shift of a full array, a high-water mark one too high.
Stored(h, s) == [h.undos EXCEPT ![h.idx] = s]

undo_push_unbounded(h, s, word) ==
  IF Below(h, word) = s THEN h
  ELSE [undos |-> Stored(h, s), idx |-> h.idx + 1,
        lim |-> IF h.lim < h.idx + 1 THEN h.idx + 1 ELSE h.lim]

undo_push_no_shift(h, s, word) ==
  IF Below(h, word) = s THEN h
  ELSE IF h.idx = UNDOS - 1 THEN [h EXCEPT !.undos = Stored(h, s)]
       ELSE [undos |-> Stored(h, s), idx |-> h.idx + 1,
             lim |-> IF h.lim < h.idx + 1 THEN h.idx + 1 ELSE h.lim]

undo_push_high_mark(h, s, word) ==
  IF Below(h, word) = s \/ h.idx = UNDOS - 1 THEN h
  ELSE [undos |-> Stored(h, s), idx |-> h.idx + 1,
        lim |-> IF h.lim < UNDOS - 1 /\ h.lim <= h.idx + 1 THEN h.idx + 2 ELSE h.lim]

\* undo_push() with config.seek = s.
undo_push(h, s, word) ==
  LET full  == h.idx = UNDOS - 1
      moved == IF full THEN h.idx ELSE h.idx + 1
  IN  IF Below(h, word) = s THEN h
      ELSE [undos |-> IF full
                      THEN [i \in Slots |-> Stored(h, s)[IF i < UNDOS - 1 THEN i + 1 ELSE i]]
                      ELSE Stored(h, s),
            idx   |-> moved,
            lim   |-> IF h.lim < moved THEN moved ELSE h.lim]

(***************************************************************************)
(* The callers.                                                            *)
(***************************************************************************)
Synced == hist.idx >= 1 /\ Below(hist, seek) = seek

Note(kind) == lastseek' = [kind |-> kind, from |-> seek, synced |-> Synced]

Arrive(a, kind) ==
  /\ seek' = a
  /\ visited' = visited \union {a}
  /\ Note(kind)

\* 's', '<', '>', the visual Enter key and udis_jump: seek, then record it.
SeekCmd(a) ==
  /\ \E word \in Addr : hist' = undo_push(hist, a, word)
  /\ Arrive(a, "seek")

\* The visual '.' and quote keys: record where we are, then seek.
VisualJump(a) ==
  /\ \E word \in Addr : hist' = undo_push(hist, seek, word)
  /\ Arrive(a, "jump")

\* A visual digit key: record, then udis_jump seeks and records again.
VisualDigit(a) ==
  /\ \E word, v \in Addr : hist' = undo_push(undo_push(hist, seek, word), a, v)
  /\ Arrive(a, "seek")

\* Visual-mode scrolling and the search seeks: nothing is recorded.
Scroll(a) ==
  /\ UNCHANGED hist
  /\ Arrive(a, "scroll")

\* undo_get_last_seek_top is undo_get_last_seek with an off-by-one bug.
undo_get_last_seek_top(h, s, word) == IF h.idx = 0 THEN s ELSE Below(h, word)

\* undo_get_last_seek(), the $l variable of expressions: undos[undos_idx-2].
undo_get_last_seek(h, s, word) ==
  IF h.idx = 0 THEN s ELSE Below([h EXCEPT !.idx = @ - 1], word)

\* undo_seek(), the 's-' command and the visual 'u' key.
undo_seek ==
  IF hist.idx = 0
  THEN /\ Note("none")
       /\ UNCHANGED <<hist, seek, visited>>
  ELSE /\ hist' = [hist EXCEPT !.idx = @ - 1]
       /\ \E word \in Addr : Arrive(Below(hist', word), "undo")

\* undo_redo with a bug: the index moves by one before undo_seek moves it back.
undo_redo_by_one ==
  /\ hist.idx < hist.lim
  /\ UNCHANGED hist
  /\ \E word \in Addr : Arrive(Below(hist', word), "redo")

\* undo_redo(), the 's+' command and the visual 'U' key: the index moves two
\* up and undo_seek moves it one down.
undo_redo ==
  IF hist.idx < hist.lim
  THEN /\ hist' = [hist EXCEPT !.idx = @ + 1]
       /\ \E word \in Addr : Arrive(Below(hist', word), "redo")
  ELSE /\ Note("none")
       /\ UNCHANGED <<hist, seek, visited>>

\* undo_reset(), the 's!' command: only the index is reset.
undo_reset ==
  /\ hist' = [hist EXCEPT !.idx = 0]
  /\ Note("reset")
  /\ UNCHANGED <<seek, visited>>

SeekInit ==
  \E z \in Addr :
    /\ hist = [undos |-> [i \in Slots |-> z], idx |-> 0, lim |-> 0]
    /\ seek \in Addr
    /\ visited = {seek}
    /\ lastseek = [kind |-> "none", from |-> seek, synced |-> FALSE]

SeekNext ==
  \/ \E a \in Addr : SeekCmd(a) \/ VisualJump(a) \/ VisualDigit(a) \/ Scroll(a)
  \/ undo_seek
  \/ undo_redo
  \/ undo_reset

SeekSpec == SeekInit /\ [][SeekNext]_seekvars

-----------------------------------------------------------------------------
(***************************************************************************)
(* Properties.                                                             *)
(***************************************************************************)

\* The index never leaves 0..UNDOS-1, so that undos[undos_idx] = config.seek
\* in undo_push never writes outside the array, and redo never lifts it past
\* the high-water mark undos_lim.
SeekTypeOK ==
  /\ hist \in Hist
  /\ 0 <= hist.idx /\ hist.idx <= hist.lim /\ hist.lim <= UNDOS - 1
  /\ seek \in Addr
  /\ visited \subseteq Addr
  /\ lastseek \in Last

\* Whatever is pushed, shifted out, undone or reset, every entry redo can
\* still reach was once the current position: no never-written slot and no
\* torn shift is ever offered.
OnlyVisited == \A i \in 0 .. hist.lim - 1 : hist.undos[i] \in visited

\* The $l variable of expressions (undo_get_last_seek) names the position the
\* next undo will go to, at every index where neither reads outside the array.
LastSeekAgrees ==
  [][lastseek'.kind = "undo" /\ hist.idx >= 2
       => seek' = undo_get_last_seek(hist, seek, seek)]_seekvars

\* An undo is undone by redo: straight after undoing from the newest entry,
\* redo is possible and takes config.seek back where it was, although the
\* first undo of all reads outside the array.
RedoRestores ==
  [][lastseek.kind = "undo" /\ lastseek.synced =>
       /\ hist.idx < hist.lim
       /\ lastseek'.kind = "redo" => seek' = lastseek.from]_seekvars

\* When the position before a recorded seek was itself the newest entry, one
\* undo goes back to it, also at the moment the full array is shifted.
UndoGoesBack ==
  [][lastseek.kind = "seek" /\ lastseek.synced /\ lastseek.from # seek /\ lastseek'.kind = "undo"
       => seek' = lastseek.from]_seekvars

\* The three ways back in the history agree: one undo returns to the place
\* before a recorded seek, redo takes an undo back, and $l names the place the
\* next undo goes to, at every fill of the array.
UndoRedoAgree == UndoGoesBack /\ RedoRestores /\ LastSeekAgrees
=============================================================================
