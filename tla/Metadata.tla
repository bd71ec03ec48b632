------------------------------ MODULE Metadata ------------------------------
(***************************************************************************)
(* What the user has said about addresses (data.c): items (bytes, strings, *)
(* functions, folders), comments and references, made with the C commands  *)
(* and the keys of the visual mode, and kept over sessions in a project    *)
(* file (project.c), which holds the commands that make them again.        *)
(*                                                                         *)
(* io.vaddr is 0.  A comment is a model value; the ones in Starred begin   *)
(* with a star.  Strings and structs differ from bytes in how they print.  *)
(* Items and references have the newest first, comments the oldest.        *)
(***************************************************************************)
EXTENDS Integers, Sequences

CONSTANTS
  MaxMetaAddr,  \* bound on addresses the user gives
  ItemLen,      \* lengths of items
  Text,         \* comments
  Starred,      \* the comments that begin with *
  Cursors,      \* [mode, cursor, ocursor]: config.cursor_mode and so on
  MaxMeta       \* bound on items, comments and references together

ASSUME MetaAssumption ==
  /\ MaxMetaAddr \in Nat /\ MaxMeta \in Nat /\ ItemLen \subseteq Nat /\ Starred \subseteq Text
  /\ Cursors \subseteq [mode : BOOLEAN, cursor : Nat, ocursor : Nat \union {-1}]

VARIABLES data, comments, xrefs

metavars == <<data, comments, xrefs>>

MetaAddr == 0 .. MaxMetaAddr
ItemType == {"hex", "fun", "open", "closed"}

MetaTypeOK ==
  /\ \A k \in DOMAIN data : /\ data[k].from \in Nat /\ data[k].to \in Nat
                            /\ data[k].from <= data[k].to /\ data[k].type \in ItemType
  /\ comments \in Seq(MetaAddr \X Text)
  /\ \A k \in DOMAIN xrefs : xrefs[k].addr \in MetaAddr /\ xrefs[k].from \in MetaAddr

MetaInit == data = <<>> /\ comments = <<>> /\ xrefs = <<>>

RoomFor(d, c, x) == Len(d) + Len(c) + Len(x) <= MaxMeta

Earliest(S) == CHOOSE i \in S : \A j \in S : i <= j
Dropped(l, S) ==
  LET f[n \in 0 .. Len(l)] ==
        IF n = 0 THEN <<>> ELSE IF n \in S THEN f[n - 1] ELSE Append(f[n - 1], l[n])
  IN  f[Len(l)]

(***************************************************************************)
(* Items.                                                                  *)
(***************************************************************************)
\* Items that hold an address, and items that data_set and data_set_len take
\* for it: they count the end as inside.
Holds(l, a) == {k \in DOMAIN l : l[k].from <= a /\ a < l[k].to}
Reaches(l, a) == {k \in DOMAIN l : l[k].from <= a /\ a <= l[k].to}

data_type_range(l, a) == IF Holds(l, a) = {} THEN "none" ELSE l[Earliest(Holds(l, a))].type

\* The bounds of a new item at off.  In cursor mode the cursor is added to off,
\* which the callers have done already, and a selection gives the other end.
NewItem(off, type, len, cur, seek) ==
  LET from == IF cur.mode THEN off + cur.cursor ELSE off
      to == IF ~cur.mode THEN off + len
            ELSE IF cur.ocursor # -1 THEN seek + cur.ocursor ELSE off + 1
  IN  [from |-> IF to < from THEN to ELSE from, to |-> IF to < from THEN from ELSE to, type |-> type]

\* data_add: what holds off goes, and code is nothing but the absence of items.
\* A variant with a bug: only the first item goes.
data_add_over(l, off, type, len, cur, seek) ==
  LET rest == Dropped(l, IF Holds(l, off) = {} THEN {} ELSE {Earliest(Holds(l, off))})
  IN  IF type = "code" THEN rest ELSE <<NewItem(off, type, len, cur, seek)>> \o rest

data_add(l, off, type, len, cur, seek) ==
  LET rest == Dropped(l, Holds(l, off))
  IN  IF type = "code" THEN rest ELSE <<NewItem(off, type, len, cur, seek)>> \o rest

data_set_len(l, a, len) ==
  LET k == Earliest(Reaches(l, a))
  IN  IF Reaches(l, a) = {} THEN l ELSE [l EXCEPT ![k].to = l[k].from + len]

data_set(l, a, type) ==
  IF Reaches(l, a) = {} THEN l ELSE [l EXCEPT ![Earliest(Reaches(l, a))].type = type]

NoCursor == [mode |-> FALSE, cursor |-> 0, ocursor |-> -1]

SetData(new) == data' = new /\ RoomFor(new, comments, xrefs) /\ UNCHANGED <<comments, xrefs>>

\* Cc, Cd, CF, Cf and Cu len @ a, also from the prompt of the visual mode.
AddCommand(a, type, len, cur) ==
  SetData(data_add(data, a + (IF cur.mode THEN cur.cursor ELSE 0), type, len, cur, a))

\* The selection of the visual mode as visual_convert_bytes computes it.
SelStart(seek, cur) == seek + (IF cur.cursor > cur.ocursor + 1 THEN cur.ocursor ELSE cur.cursor)
SelLen(cur) ==
  IF cur.cursor > cur.ocursor + 1 THEN cur.cursor - cur.ocursor + 1 ELSE cur.ocursor - cur.cursor + 1

visual_convert_bytes(l, seek, type, len, cur) ==
  LET new == data_add(l, SelStart(seek, cur), type, len, cur, seek)
  IN  IF cur.mode THEN data_set_len(new, SelStart(seek, cur), SelLen(cur)) ELSE new

\* The keys that convert a selection; a function is made by af instead.
\* With a cursor and no selection the start is the byte before config.seek;
\* below address 0 that is the top of the address space, which is left out.
Convert(seek, type, len, cur) ==
  SelStart(seek, cur) >= 0 /\ SetData(visual_convert_bytes(data, seek, type, len, cur))

\* The keys < and > with the cursor on address a and nothing selected.
Folded(l, a) == IF data_type_range(l, a) \in {"none", "open"} THEN data_set(l, a, "closed") ELSE l
Unfolded(l, a) == IF data_type_range(l, a) = "closed" THEN data_set(l, a, "open") ELSE l

Fold(a) == SetData(Folded(data, a))
Unfold(a) == SetData(Unfolded(data, a))

\* CF- [len] @ a: the newest function that starts there; its size is one more
\* than its length.
data_del(a, size) ==
  LET S == {k \in DOMAIN data : /\ data[k].from = a /\ data[k].type = "fun"
                                /\ size \in {0, data[k].to - data[k].from + 1}}
  IN  SetData(IF S = {} THEN data ELSE Dropped(data, {Earliest(S)}))

(***************************************************************************)
(* Comments and references.                                                *)
(***************************************************************************)
\* data_comment_del: a text that begins with a star means all comments of the
\* address.
SameText(l, a, text) == {k \in DOMAIN l : l[k] = <<a, text>>}
FirstSame(l, a, text) == IF SameText(l, a, text) = {} THEN {} ELSE {Earliest(SameText(l, a, text))}

data_comment_del(l, a, text) ==
  Dropped(l, IF text \in Starred THEN {k \in DOMAIN l : l[k][1] = a} ELSE FirstSame(l, a, text))

\* The same comment is not there twice: the old one goes.  A variant with a
\* bug: it stays.
data_comment_add_again(l, a, text) == Append(l, <<a, text>>)
data_comment_add(l, a, text) == Append(data_comment_del(l, a, text), <<a, text>>)

SetComments(new) == comments' = new /\ RoomFor(data, new, xrefs) /\ UNCHANGED <<data, xrefs>>
Comment(a, text) == SetComments(data_comment_add(comments, a, text))
Uncomment(a, text) == SetComments(data_comment_del(comments, a, text))

SameRef(l, addr, from) == {k \in DOMAIN l : l[k].addr = addr /\ l[k].from = from}

data_xrefs_add(l, addr, from, type) ==
  IF SameRef(l, addr, from) # {} THEN l
  ELSE <<[addr |-> addr, from |-> from, type |-> type]>> \o l

\* Cx and CX addr @ from, and Cx- and CX-.
AddRef(addr, from, type) ==
  /\ xrefs' = data_xrefs_add(xrefs, addr, from, type)
  /\ RoomFor(data, comments, xrefs') /\ UNCHANGED <<data, comments>>

data_xrefs_del(addr, from) ==
  /\ xrefs' = Dropped(xrefs, SameRef(xrefs, addr, from))
  /\ UNCHANGED <<data, comments>>

(***************************************************************************)
(* Cr len @ a.                                                             *)
(***************************************************************************)
\* A reference with both ends in the range is removed from the list twice,
\* through null pointers the second time.
DeletedTwice(a, b) == \E k \in DOMAIN xrefs : {xrefs[k].addr, xrefs[k].from} \subseteq a .. b

\* Variants with a bug: only the start of an item counts, and the end of the
\* range does not.
InRange_start(d, a, b) == d.from \in a .. b
InRange_short(d, a, b) == d.from \in a .. b - 1 \/ d.to \in a .. b - 1
InRange(d, a, b) == d.from \in a .. b \/ d.to \in a .. b

WithoutRange(l, a, b) == Dropped(l, {k \in DOMAIN l : InRange(l[k], a, b)})

data_del_range(a, len) ==
  IF DeletedTwice(a, a + len)
  THEN data' = <<>> /\ comments' = <<>> /\ xrefs' = <<>>     \* the process dies
  ELSE /\ data' = WithoutRange(data, a, a + len)
       /\ comments' = Dropped(comments, {k \in DOMAIN comments : comments[k][1] \in a .. a + len})
       /\ xrefs' = Dropped(xrefs, {k \in DOMAIN xrefs : {xrefs[k].addr, xrefs[k].from} \intersect (a .. a + len) # {}})

(***************************************************************************)
(* The project file: saved at the end of a session and run in a new one.   *)
(* Comments come first, then references, then items.                       *)
(***************************************************************************)
ReplayedComments(l) ==
  LET f[n \in 0 .. Len(l)] ==
        IF n = 0 THEN <<>> ELSE data_comment_add(f[n - 1], l[n][1], l[n][2])
  IN  f[Len(l)]

\* A reference is written as Cx from @ addr, which is read as addr @ from, and
\* a data reference as Cd from @ addr, which makes an item of that length.
ReplayedRefs(l) ==
  LET f[n \in 0 .. Len(l)] ==
        IF n = 0 THEN <<>>
        ELSE IF l[n].type = "code" THEN data_xrefs_add(f[n - 1], l[n].from, l[n].addr, "code") ELSE f[n - 1]
  IN  f[Len(l)]

LenOf(n) == IF n < 1 THEN 1 ELSE n

ItemsOfRefs(l) ==
  LET f[n \in 0 .. Len(l)] ==
        IF n = 0 THEN <<>>
        ELSE IF l[n].type = "data"
             THEN data_add(f[n - 1], l[n].addr, "hex", LenOf(l[n].from), NoCursor, l[n].addr) ELSE f[n - 1]
  IN  f[Len(l)]

\* A variant with a bug: items are read in the order they were made.
ReplayedItems_oldest(start, l) ==
  LET f[n \in 0 .. Len(l)] ==
        IF n = 0 THEN start
        ELSE LET d == l[Len(l) + 1 - n]
             IN  data_add(f[n - 1], d.from, d.type, LenOf(d.to - d.from), NoCursor, d.from)
  IN  f[Len(l)]

ReplayedItems(start, l) ==
  LET f[n \in 0 .. Len(l)] ==
        IF n = 0 THEN start
        ELSE data_add(f[n - 1], l[n].from, l[n].type, LenOf(l[n].to - l[n].from), NoCursor, l[n].from)
  IN  f[Len(l)]

Reopen ==
  /\ comments' = ReplayedComments(comments) /\ xrefs' = ReplayedRefs(xrefs)
  /\ data' = ReplayedItems(ItemsOfRefs(xrefs), data)

MetaNext ==
  \/ \E a \in MetaAddr, len \in ItemLen :
       \/ \E type \in ItemType \union {"code"}, cur \in Cursors :
            AddCommand(a, type, len, cur) \/ (type # "fun" /\ Convert(a, type, len, cur))
       \/ data_del_range(a, len)
  \/ \E a \in MetaAddr : Fold(a) \/ Unfold(a) \/ \E size \in {0} \union ItemLen : data_del(a, size)
  \/ \E a \in MetaAddr, text \in Text : Comment(a, text) \/ Uncomment(a, text)
  \/ \E a, b \in MetaAddr : data_xrefs_del(a, b) \/ \E type \in {"code", "data"} : AddRef(a, b, type)
  \/ Reopen

-----------------------------------------------------------------------------
\* No comment is at an address twice and no reference is listed twice, also
\* after a project was read.
NoDuplicates ==
  /\ \A j, k \in DOMAIN comments : comments[j] = comments[k] => j = k
  /\ \A j, k \in DOMAIN xrefs : xrefs[j].addr = xrefs[k].addr /\ xrefs[j].from = xrefs[k].from => j = k

\* The selections that are converted as they are shown: one byte, three bytes
\* or more made forwards, and any made backwards to the first byte of the block.
Selects(cur) == cur.cursor \in {0, cur.ocursor} \/ cur.cursor > cur.ocursor + 1

\* Made forwards, two bytes are taken for a selection made backwards that
\* begins at the second byte and has length 0.
TwoForwards(cur) == cur.cursor = cur.ocursor + 1

\* Converting such a selection makes one item of exactly the selected bytes,
\* which is what the disassembly shows there, though data_add computes other
\* bounds and data_set_len looks the item up again by an address.  Two bytes
\* made forwards become an empty item at the first of them.  Any other
\* selection made backwards becomes an item that misses its first byte.
\* Every other item stays as it is or goes, but for the last case, in which
\* data_set_len may find one.  The block size does not matter.
SelectionConverted ==
  \A seek \in MetaAddr, cur \in {c \in Cursors : c.mode /\ c.ocursor # -1} :
    LET l == visual_convert_bytes(data, seek, "hex", 1, cur)
        low == seek + (IF cur.cursor < cur.ocursor THEN cur.cursor ELSE cur.ocursor)
        high == seek + (IF cur.cursor < cur.ocursor THEN cur.ocursor ELSE cur.cursor)
    IN  /\ Selects(cur) => /\ l[1] = [from |-> low, to |-> high + 1, type |-> "hex"]
                           /\ \A k \in 2 .. Len(l) : low \notin l[k].from .. l[k].to - 1
        /\ TwoForwards(cur) => l[1] = [from |-> low, to |-> low, type |-> "hex"]
        /\ ~Selects(cur) /\ ~TwoForwards(cur) => l[1].from > low
        /\ Selects(cur) \/ TwoForwards(cur) => \A k \in 2 .. Len(l) : \E j \in DOMAIN data : data[j] = l[k]

\* What a project keeps: all comments in their order, the code references with
\* their ends exchanged, which a second time puts right, and each item, unless
\* an older one starts inside it.
Whole(d) == [d EXCEPT !.to = IF d.to = d.from THEN d.from + 1 ELSE d.to]

ProjectKeeps ==
  LET kept == {k \in DOMAIN data : \A j \in k + 1 .. Len(data) : data[j].from \notin data[k].from .. Whole(data[k]).to - 1}
      items == ReplayedItems(<<>>, data)
  IN  /\ ReplayedComments(comments) = comments
      /\ ReplayedRefs(ReplayedRefs(xrefs)) = Dropped(xrefs, {k \in DOMAIN xrefs : xrefs[k].type # "code"})
      /\ {items[k] : k \in DOMAIN items} = {Whole(data[k]) : k \in kept}

\* After Cr the bytes of the range show nothing but items that reach beyond
\* it on both sides.  Of the items without a byte in the range, which ends
\* before the address a + len, those are untouched that do not adjoin it; those
\* that do go with it.
RangeEmptied ==
  \A a \in MetaAddr, len \in ItemLen :
    LET l == WithoutRange(data, a, a + len)
    IN  /\ \A x \in a .. a + len : \A k \in Holds(l, x) : l[k].from < a /\ l[k].to > a + len
        /\ \A k \in DOMAIN data :
             data[k].to <= a \/ data[k].from >= a + len =>
               data[k].to = a \/ data[k].from = a + len \/ \E j \in DOMAIN l : l[j] = data[k]
        /\ \A j \in DOMAIN l : l[j].to # a /\ l[j].from # a + len

\* What the user has said about addresses is kept as it was said: selections,
\* removals and projects do what they show, with the exceptions above.
MetadataTrue == MetaTypeOK /\ NoDuplicates /\ SelectionConverted /\ ProjectKeeps /\ RangeEmptied
=============================================================================
