------------------------------ MODULE Sections ------------------------------
(***************************************************************************)
(* The table of sections (section.c) and the translation of addresses that *)
(* every seek goes through (radare_seek, rio.c), with the reads and writes *)
(* that seek somewhere and back.                                           *)
(*                                                                         *)
(* config.seek is relative to io.vaddr; an address below io.vaddr is taken *)
(* as relative, any other as absolute.  The vaddr and the comment of a     *)
(* section are left out: no command but the listing reads them.  The list  *)
(* has the newest section first.                                           *)
(***************************************************************************)
EXTENDS Integers, Sequences

CONSTANTS
  SecAddr,      \* the addresses the user gives
  MaxSecAddr,   \* bound on the addresses the properties ask about
  SecLen,       \* lengths of sections
  Disk,         \* offsets on disk: of sections, and values of io.paddr
  Base,         \* values of io.vaddr
  MaxSections   \* bound on the length of the list

ASSUME SectionAssumption ==
  /\ MaxSecAddr \in Nat /\ SecAddr \subseteq 0 .. MaxSecAddr
  /\ SecLen \subseteq Nat /\ MaxSections \in Nat
  /\ Disk \subseteq Nat /\ Base \subseteq Nat /\ 0 \in Disk \intersect Base

VARIABLES
  sections,     \* the list
  vaddr, paddr, \* config.vaddr, config.paddr
  pos           \* config.seek, the offset of the descriptor, last_align

secvars == <<sections, vaddr, paddr, pos>>

SecTypeOK ==
  /\ sections \in Seq([from : Nat, to : Nat, paddr : Nat, w : BOOLEAN])
  /\ Len(sections) <= MaxSections
  /\ vaddr \in Base /\ paddr \in Disk
  /\ pos \in [seek : Nat, offset : Nat, last : Nat]

SecInit ==
  /\ sections = <<>> /\ vaddr = 0 /\ paddr = 0
  /\ pos = [seek |-> 0, offset |-> 0, last |-> 0]

(***************************************************************************)
(* Seeks.                                                                  *)
(***************************************************************************)
Containing(a) == {k \in DOMAIN sections : a \in sections[k].from .. sections[k].to}

Greatest(S) == CHOOSE x \in S : \A y \in S : y <= x
Least(S) == CHOOSE x \in S : \A y \in S : x <= y

\* section_get takes the newest section.
section_get(a) == sections[Least(Containing(a))]

\* section_align takes the oldest.  It remembers the last offset it computed
\* without a section, and returns an address equal to it as it is.  Variants
\* with a bug: it remembers the address, and it compares a relative one.
section_align_address(a, last) ==
  LET s == sections[Greatest(Containing(a))]
  IN  IF a = last THEN [offset |-> last, last |-> last]
      ELSE IF Containing(a) # {} THEN [offset |-> s.paddr + a - s.from, last |-> last]
      ELSE [offset |-> a - vaddr + paddr, last |-> a]

section_align_relative(a, last) ==
  LET s == sections[Greatest(Containing(a))]
      r == a - vaddr + paddr
  IN  IF a - vaddr = last THEN [offset |-> last, last |-> last]
      ELSE IF Containing(a) # {} THEN [offset |-> s.paddr + a - s.from, last |-> last]
      ELSE [offset |-> r, last |-> r]

section_align(a, last) ==
  LET s == sections[Greatest(Containing(a))]
      r == a - vaddr + paddr
  IN  IF a = last THEN [offset |-> last, last |-> last]
      ELSE IF Containing(a) # {} THEN [offset |-> s.paddr + a - s.from, last |-> last]
      ELSE [offset |-> r, last |-> r]

\* An address below io.vaddr is relative to it.  A variant with a bug: none is.
Absolute_always(a) == a

Absolute(a) == IF a < vaddr THEN a + vaddr ELSE a

\* radare_seek(a, SEEK_SET) at position p.
radare_seek(p, a) ==
  LET t == section_align(Absolute(a), p.last)
  IN  IF vaddr = 0 THEN [seek |-> a, offset |-> a, last |-> p.last]
      ELSE [seek |-> Absolute(a) - vaddr, offset |-> t.offset, last |-> t.last]

\* radare_read_at: a seek there and a seek back.
radare_read_at(p, a) == radare_seek(radare_seek(p, a), p.seek)

\* Between its seek and io_write, radare_write_at reads the old bytes at the
\* same address: undo_write_new does if it records the write, and a write mask
\* makes it read them again.  Each of the n reads seeks there and back.
NestedReads == 0 .. 2

\* The position at which io_write writes.  A variant with a bug: the seek back
\* to the user comes first.
BeforeWrite_back(p, a, n) == radare_read_at(p, a)

BeforeWrite(p, a, n) ==
  LET there == radare_seek(p, a)
      recorded == radare_read_at(there, a)
  IN  IF n = 0 THEN there ELSE IF n = 1 THEN recorded ELSE radare_read_at(recorded, a)

\* A section marked w refuses the write and the seek back is left out.  A
\* variant with a bug: no seek back at all.
Refuses(a) == Containing(a) # {} /\ section_get(a).w

radare_write_at_stay(p, a, n) == BeforeWrite(p, a, n)

radare_write_at(p, a, n) ==
  IF Refuses(a) THEN radare_seek(p, a) ELSE radare_seek(BeforeWrite(p, a, n), p.seek)

Seek(a) == pos' = radare_seek(pos, a) /\ UNCHANGED <<sections, vaddr, paddr>>
ReadAt(a) == pos' = radare_read_at(pos, a) /\ UNCHANGED <<sections, vaddr, paddr>>
WriteAt(a, n) == pos' = radare_write_at(pos, a, n) /\ UNCHANGED <<sections, vaddr, paddr>>

\* radare_read(0), before every prompt.
radare_read == Seek(pos.seek)

(***************************************************************************)
(* The commands on sections.                                               *)
(***************************************************************************)
\* S len disk: all three permissions are set.
section_add(len, disk) ==
  /\ Len(sections) < MaxSections
  /\ sections' = <<[from |-> pos.seek + vaddr, to |-> pos.seek + len + vaddr,
                    paddr |-> disk, w |-> TRUE]>> \o sections
  /\ UNCHANGED <<vaddr, paddr, pos>>

\* S -n: the sign is read as part of the number, so that only number 0, the
\* oldest section, is ever found.
section_rm ==
  /\ sections # <<>>
  /\ sections' = SubSeq(sections, 1, Len(sections) - 1)
  /\ UNCHANGED <<vaddr, paddr, pos>>

\* Sd, St and Sp change the sections that start at config.seek to what they
\* are in the list new.
section_set(new) ==
  /\ sections' = [k \in DOMAIN sections |->
                    IF sections[k].from = pos.seek THEN new[k] ELSE sections[k]]
  /\ UNCHANGED <<vaddr, paddr, pos>>

SetDisk(d) == section_set([k \in DOMAIN sections |-> [sections[k] EXCEPT !.paddr = d]])
SetEnd(a) == section_set([k \in DOMAIN sections |-> [sections[k] EXCEPT !.to = a]])
SetPerm(w) == section_set([k \in DOMAIN sections |-> [sections[k] EXCEPT !.w = w]])

\* eval io.vaddr and io.paddr.
SetVaddr(b) == vaddr' = b /\ UNCHANGED <<sections, paddr, pos>>
SetPaddr(d) == paddr' = d /\ UNCHANGED <<sections, vaddr, pos>>

SecNext ==
  \/ \E a \in SecAddr : Seek(a) \/ ReadAt(a) \/ SetEnd(a) \/ \E n \in NestedReads : WriteAt(a, n)
  \/ radare_read \/ section_rm
  \/ \E len \in SecLen, d \in Disk : section_add(len, d)
  \/ \E d \in Disk : SetDisk(d) \/ SetPaddr(d)
  \/ \E w \in BOOLEAN : SetPerm(w)
  \/ \E b \in Base : SetVaddr(b)

-----------------------------------------------------------------------------
Asked == 0 .. MaxSecAddr

\* What radare_seek takes for a relative address.
Relative(p) == vaddr = 0 \/ p.seek < vaddr

\* A position can be reached again: radare_read(0) after a seek changes
\* neither config.seek nor the offset, whatever was translated before.  A
\* relative position that is not below io.vaddr is taken as absolute the
\* second time.
SeekIsStable ==
  \A a \in Asked :
    LET p == radare_seek(pos, a)
    IN  Relative(p) => /\ radare_seek(p, p.seek).seek = p.seek
                       /\ radare_seek(p, p.seek).offset = p.offset

\* A write changes the byte that a read of the same address showed, though
\* the read seeks back in between and the write reads before it writes.  Two
\* exceptions: the address equals one of the offsets section_align remembers
\* meanwhile; the write reads before, and the address lies so high that the
\* position there is not relative.
WriteWhereRead ==
  \A a \in Asked :
    LET p == radare_read_at(pos, a)
        shown == radare_seek(pos, a)
    IN  vaddr = 0 \/ Absolute(a) \notin {pos.last, p.last} =>
          \A n \in IF Relative(shown) THEN NestedReads ELSE {0} :
            BeforeWrite(p, a, n).offset = shown.offset

\* In the second exception config.seek is taken as an absolute address when a
\* read seeks back to it, so that the bytes go to that address, which is lower
\* by io.vaddr than the one that was asked for; a second read may lower it again.
WriteSlips ==
  \A a \in Asked :
    LET there == radare_seek(pos, a)
    IN  ~Relative(there) =>
          /\ BeforeWrite(pos, a, 1).seek = there.seek - vaddr
          /\ BeforeWrite(pos, a, 2).seek <= there.seek - vaddr
          /\ there.seek \notin {pos.last, there.last} =>
               BeforeWrite(pos, a, 1).offset = radare_seek(pos, there.seek).offset

\* A read or write elsewhere comes back to where the user was, a refused
\* write excepted.
ComesBack ==
  Relative(pos) => \A a \in Asked :
    /\ radare_read_at(pos, a).seek = pos.seek
    /\ \A n \in NestedReads : Refuses(a) \/ radare_write_at(pos, a, n).seek = pos.seek

\* Wherever the user is and whatever sections there are, seeks can be
\* repeated, writes hit what reads showed but for the addresses named above,
\* where it is known what they hit, and reads and writes elsewhere come back.
SectionsTrue == SecTypeOK /\ SeekIsStable /\ WriteWhereRead /\ WriteSlips /\ ComesBack
=============================================================================
