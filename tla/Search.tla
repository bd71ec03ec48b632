------------------------------- MODULE Search -------------------------------
(***************************************************************************)
(* The search commands: search_range (search.c) reads the file block by    *)
(* block and gives every byte to update_tlist (binparse.c), which keeps,   *)
(* for each keyword, how many of its tokens the last bytes matched.  The   *)
(* callback numbers the hits and sets a flag for each; /n walks through    *)
(* the flags.                                                              *)
(*                                                                         *)
(* A token is the set of bytes it accepts (a character, a range or a       *)
(* masked value).  After a hit the state of a keyword is not cleared, and  *)
(* the next two bytes are compared with memory behind the tokens, which    *)
(* nothing initialises: each of these comparisons may go either way.       *)
(* cmd.hit, search.flag = false and the ways of giving keywords are left   *)
(* out.                                                                    *)
(***************************************************************************)
EXTENDS Integers, Sequences, FiniteSets

CONSTANTS
  Byte,         \* the values of bytes
  Pad,          \* the byte 0xff, with which a block is filled before a read
  Size,         \* length of the file
  BlockSize,    \* config.block_size
  Keyword,      \* the keywords: non-empty sequences of tokens
  MaxTokens,    \* bound on their length
  MaxLists,     \* bound on the keywords of one search
  Plan,         \* sequences of ranges [from, to] to search: search.from and
                \* search.to, or with search.inar the ranges of the table
  Aligns,       \* values of search.align
  Counts,       \* values of cfg.count
  MaxSearches   \* bound on the searches of a session

ASSUME SearchAssumption ==
  /\ Pad \in Byte /\ Size \in Nat /\ BlockSize \in Nat \ {0} /\ MaxLists \in Nat \ {0}
  /\ \A k \in Keyword : k \in Seq(SUBSET Byte) /\ Len(k) \in 1 .. MaxTokens
  /\ \A p \in Plan : p \in Seq([from : Nat, to : Nat]) /\ p # <<>>
  /\ Aligns \subseteq Nat /\ Counts \subseteq Nat /\ MaxSearches \in Nat

VARIABLES
  file,         \* the bytes of the file
  pc,           \* "prompt", or where search_range is
  lists,        \* the keywords of the tokenizer
  estat,        \* estat of each list
  align, count, \* search.align, cfg.count
  todo,         \* the ranges that are left
  cur,          \* the range being searched
  seek, i,      \* config.seek, and the index in the block
  fresh,        \* no block was read with radare_read(1) yet
  tmp,          \* where the user was when the search began
  interrupted,  \* config.interrupted
  search_stop,  \* the flag search_stop, -1 when there is none
  scanned,      \* history variable: the end of the bytes given to update_tlist
  nhit,         \* number of the last hit
  hits,         \* history variable: the hits reported in this range
  flags,        \* the flags hit<keyword>_<number>
  hit_idx,      \* the hit /n goes to
  searches      \* searches done so far

range == <<lists, align, count, todo, cur>>
found == <<estat, nhit, hits, flags, scanned>>
session == <<file, tmp, search_stop, hit_idx, searches>>
vars == <<pc, range, found, session, seek, i, fresh, interrupted>>

Lists == DOMAIN lists

TypeOK ==
  /\ file \in [0 .. Size - 1 -> Byte]
  /\ pc \in {"prompt", "range", "block", "byte"}
  /\ lists \in Seq(Keyword) /\ Len(lists) <= MaxLists
  /\ \A k \in Lists : estat[k] \in 0 .. Len(lists[k]) + 1
  /\ seek \in Nat /\ i \in 0 .. BlockSize
  /\ DOMAIN flags \subseteq (1 .. MaxLists) \X (Nat \ {0})
  /\ \A f \in DOMAIN flags : flags[f] \in Nat
  /\ hit_idx \in Nat \ {0}

NoLists == <<>>
NoRange == [from |-> 0, to |-> 0]
EmptyFlags == [f \in {} |-> 0]

Init ==
  /\ file \in [0 .. Size - 1 -> Byte] /\ pc = "prompt"
  /\ lists = NoLists /\ estat = NoLists
  /\ align = 0 /\ count = 0 /\ todo = <<>> /\ cur = NoRange
  /\ seek = 0 /\ i = 0 /\ fresh = TRUE /\ interrupted = FALSE
  /\ tmp = 0 /\ search_stop = -1 /\ scanned = 0
  /\ nhit = 0 /\ hits = {} /\ flags = EmptyFlags /\ hit_idx = 1 /\ searches = 0

\* radare_read: the bytes of a block that the file does not have are 0xff.
radare_read(p) == IF p < Size THEN file[p] ELSE Pad

\* f -hit0_*: the flags of the first keyword, and as with every f -prefix*
\* those at address 0.
OldHits == {f \in DOMAIN flags : f[1] = 1 \/ flags[f] = 0}

(***************************************************************************)
(* search_range.                                                           *)
(***************************************************************************)
\* /, /x, /k and /r: the keywords ls, in the ranges of plan.
search_range(ls, plan, a, c) ==
  /\ pc = "prompt" /\ searches < MaxSearches
  /\ lists' = ls /\ todo' = plan /\ align' = a /\ count' = c
  /\ flags' = [f \in DOMAIN flags \ OldHits |-> flags[f]]
  /\ hit_idx' = 1 /\ searches' = searches + 1 /\ tmp' = seek /\ pc' = "range"
  /\ estat' = [k \in DOMAIN ls |-> 0] /\ hits' = {}
  /\ UNCHANGED <<file, search_stop, cur, seek, i, fresh, interrupted, nhit, scanned>>

\* The do loop: a new tokenizer for every range, and new numbers for hits.
StartRange ==
  /\ pc = "range" /\ todo # <<>>
  /\ cur' = Head(todo) /\ todo' = Tail(todo) /\ seek' = Head(todo).from
  /\ estat' = [k \in Lists |-> 0] /\ nhit' = 0 /\ hits' = {}
  /\ interrupted' = FALSE /\ fresh' = TRUE /\ i' = 0 /\ pc' = "block"
  /\ scanned' = Head(todo).from
  /\ UNCHANGED <<session, lists, align, count, flags>>

\* config.limit is the size of the file, as radare_open sets it.
limit == IF cur.to # 0 THEN cur.to ELSE Size

\* The tests of the loop over blocks: a read that returns nothing ends it,
\* but the result of the first one is not looked at.
BlockToSearch == ~interrupted /\ (fresh \/ seek < Size) /\ seek < limit

NextBlock ==
  /\ pc = "block" /\ BlockToSearch
  /\ pc' = "byte" /\ i' = 0
  /\ UNCHANGED <<range, found, session, seek, fresh, interrupted>>

\* The end of a range.  An interrupted search goes on with the next range.
EndRange ==
  /\ pc = "block" /\ ~BlockToSearch /\ todo # <<>>
  /\ pc' = "range"
  /\ UNCHANGED <<range, found, session, seek, i, fresh, interrupted>>

\* The end of the last one: the tokenizer is freed.
EndSearch ==
  /\ pc = "block" /\ ~BlockToSearch /\ todo = <<>>
  /\ search_stop' = IF interrupted THEN seek ELSE search_stop
  /\ seek' = tmp /\ tmp' = 0 /\ pc' = "prompt"
  /\ lists' = NoLists /\ estat' = NoLists /\ hits' = {} /\ i' = 0 /\ fresh' = TRUE
  /\ cur' = NoRange /\ scanned' = 0
  /\ UNCHANGED <<file, hit_idx, searches, align, count, todo, nhit, flags, interrupted>>

\* The next block; the states of the lists are kept.  Variants with a bug:
\* they are cleared, and an interrupted search keeps its position.
EndBlock_clear ==
  /\ pc = "byte" /\ (interrupted \/ i = BlockSize)
  /\ seek' = seek + BlockSize /\ fresh' = FALSE /\ pc' = "block"
  /\ estat' = [k \in Lists |-> 0]
  /\ UNCHANGED <<range, nhit, hits, flags, scanned, session, i, interrupted>>

EndBlock_stay ==
  /\ pc = "byte" /\ (interrupted \/ i = BlockSize)
  /\ seek' = IF interrupted THEN seek ELSE seek + BlockSize
  /\ fresh' = FALSE /\ pc' = "block"
  /\ UNCHANGED <<range, found, session, i, interrupted>>

EndBlock ==
  /\ pc = "byte" /\ (interrupted \/ i = BlockSize)
  /\ seek' = seek + BlockSize /\ fresh' = FALSE /\ pc' = "block"
  /\ UNCHANGED <<range, found, session, i, interrupted>>

(***************************************************************************)
(* update_tlist.                                                           *)
(***************************************************************************)
\* What estat of list k may be after the byte c, when it is e.  A variant
\* with a bug: it is not set back behind the tokens.
Matched_on(k, e, c) ==
  IF e < Len(lists[k]) THEN {IF c \in lists[k][e + 1] THEN e + 1 ELSE 0} ELSE {0, e + 1}

Matched(k, e, c) ==
  LET n == Len(lists[k])
  IN  CASE e < n     -> {IF c \in lists[k][e + 1] THEN e + 1 ELSE 0}
        [] e = n     -> {0, e + 1}
        [] e = n + 1 -> {0, 1}

\* The callback refuses a hit that is not aligned or one too many.
Refused(where) == (align # 0 /\ where % align # 0) \/ (count # 0 /\ nhit >= count)

\* The address of a match whose last byte is at p.  A variant with a bug: it
\* is one too high.
Where_high(k, p) == p - (Len(lists[k]) - 2)

Where(k, p) == p - (Len(lists[k]) - 1)

\* Where every list would be if it looked at the byte at p.
Looks(p) ==
  {e \in [Lists -> 0 .. MaxTokens + 2] : \A k \in Lists : e[k] \in Matched(k, estat[k], radare_read(p))}

\* radare_tsearch_callback: the hit gets the next number and a flag.  A
\* variant with a bug: the flag is that of the first keyword.
With(name, where) ==
  [f \in DOMAIN flags \union {name} |-> IF f = name THEN where ELSE flags[f]]

FlagSet_first(k, where) == With(<<1, nhit + 1>>, where)

FlagSet(k, where) == With(<<k, nhit + 1>>, where)

\* The state of a list that does not report: a match that was refused is
\* given up.
Settled(k, e) == IF e = Len(lists[k]) THEN 0 ELSE e

\* One byte: the lists look at it in turn, up to the first that reports a
\* hit.
update_tlist ==
  /\ pc = "byte" /\ ~interrupted /\ i < BlockSize
  /\ LET p == seek + i
     IN  /\ \E e \in Looks(p) :
              LET reporting == {k \in Lists : e[k] = Len(lists[k]) /\ ~Refused(Where(k, p))}
              IN  IF reporting = {}
                  THEN /\ estat' = [k \in Lists |-> Settled(k, e[k])]
                       /\ UNCHANGED <<nhit, hits, flags>>
                  ELSE \E f \in reporting :
                         /\ \A l \in reporting : f <= l
                         /\ estat' = [k \in Lists |-> IF k < f THEN Settled(k, e[k])
                                                      ELSE IF k = f THEN e[k] ELSE estat[k]]
                         /\ nhit' = nhit + 1
                         /\ hits' = hits \union {[kw |-> f, at |-> Where(f, p), n |-> nhit + 1]}
                         /\ flags' = FlagSet(f, Where(f, p))
         /\ scanned' = p + 1
  /\ i' = i + 1
  /\ UNCHANGED <<pc, range, session, seek, fresh, interrupted>>

\* ^C
Interrupt ==
  /\ pc \in {"block", "byte"} /\ ~interrupted
  /\ interrupted' = TRUE
  /\ UNCHANGED <<pc, range, found, session, seek, i, fresh>>

\* The index of the hit /n goes to.  A variant with a bug: it moves on though
\* there is no hit.
Advanced_always(d) == IF hit_idx + d < 1 THEN 1 ELSE hit_idx + d

Advanced(d) ==
  LET idx == hit_idx + (IF <<1, hit_idx>> \in DOMAIN flags \/ d < 0 THEN d ELSE 0)
  IN  IF idx < 1 THEN 1 ELSE idx

\* /n and /n-: go to the hit of the first keyword with the number hit_idx,
\* then change the number.
radare_search_seek_hit(d) ==
  /\ pc = "prompt" /\ hit_idx' = Advanced(d)
  /\ seek' = IF <<1, hit_idx>> \in DOMAIN flags THEN flags[<<1, hit_idx>>] ELSE seek
  /\ UNCHANGED <<pc, range, found, file, tmp, search_stop, searches, i, fresh, interrupted>>

Next ==
  \/ \E n \in 1 .. MaxLists : \E ls \in [1 .. n -> Keyword], plan \in Plan, a \in Aligns, c \in Counts :
       search_range(ls, plan, a, c)
  \/ StartRange \/ NextBlock \/ EndRange \/ EndSearch \/ EndBlock \/ update_tlist \/ Interrupt
  \/ \E d \in {1, -1} : radare_search_seek_hit(d)

Spec == Init /\ [][Next]_vars

-----------------------------------------------------------------------------
End(h) == h.at + Len(lists[h.kw]) - 1

\* List k looks at the byte at p: no list before it reported a hit there.
Sees(k, p) == ~ \E h \in hits : h.kw < k /\ End(h) = p

SeenIn(k, S) == {p \in S : Sees(k, p)}

\* List k had a hit, and compares the byte at p with the second of the
\* places behind its tokens.
SecondAfterHit(k, p) ==
  \E h \in hits : h.kw = k /\ End(h) < p /\ Cardinality(SeenIn(k, End(h) + 1 .. p - 1)) = 1

Starts(k, p) == radare_read(p) \in lists[k][1] \/ SecondAfterHit(k, p)

Window(k, at) == at .. at + Len(lists[k]) - 1

Occurs(k, at) == \A j \in DOMAIN lists[k] : radare_read(at + j - 1) \in lists[k][j]

\* What is reported is there: a hit is an occurrence of its keyword, unless
\* a keyword before it hid one of its bytes, or its first byte is the second
\* one after another hit of the keyword.
HitsAreThere ==
  \A h \in hits : SeenIn(h.kw, Window(h.kw, h.at)) = Window(h.kw, h.at) =>
    \/ Occurs(h.kw, h.at)
    \/ /\ SecondAfterHit(h.kw, h.at)
       /\ \A j \in 2 .. Len(lists[h.kw]) : radare_read(h.at + j - 1) \in lists[h.kw][j]

\* The last m bytes that list k saw before p match its first m tokens.
Underway(k, p, m) ==
  LET seen == SeenIn(k, cur.from .. p - 1)
      age(q) == Cardinality({r \in seen : r >= q})
  IN  /\ Cardinality(seen) >= m
      /\ \A q \in seen : age(q) = m => Starts(k, q)
      /\ \A q \in seen : age(q) < m => radare_read(q) \in lists[k][m - age(q) + 1]

\* What is there is reported: an occurrence among the bytes that were read is
\* a hit or was refused, unless a keyword before it hid one of its bytes, or
\* its first byte continued or broke an earlier partial match, or was one of
\* the two bytes after a hit.
MissesExplained ==
  pc # "range" =>
  \A k \in Lists : \A at \in cur.from .. scanned - Len(lists[k]) :
    Occurs(k, at) =>
      \/ \E h \in hits : h.kw = k /\ h.at = at
      \/ align # 0 /\ at % align # 0
      \/ count # 0 /\ nhit >= count
      \/ SeenIn(k, Window(k, at)) # Window(k, at)
      \/ \E m \in 1 .. Len(lists[k]) - 1 : Underway(k, at, m)
      \/ \E h \in hits : /\ h.kw = k /\ End(h) < at
                         /\ Cardinality(SeenIn(k, End(h) + 1 .. at - 1)) <= 1

\* Every hit of the range has its number, its flag still points to it, and
\* the numbers follow the addresses of each keyword: that is what /n and @@
\* hit0_* rely on.
FlagsFollowHits ==
  \A h \in hits :
    /\ <<h.kw, h.n>> \in DOMAIN flags /\ flags[<<h.kw, h.n>>] = h.at
    /\ \A g \in hits : (g.n < h.n => End(g) < End(h)) /\ (g.n = h.n => g = h)

\* /n never goes beyond the hit after the last, so /n- can come back, and
\* with a single keyword it reaches every hit.
HitIndexInReach ==
  hit_idx # 1 => <<1, hit_idx>> \in DOMAIN flags \/ <<1, hit_idx - 1>> \in DOMAIN flags

\* What a search leaves behind is true: hits are occurrences, their flags and
\* numbers lead to them, and the index of /n stays among them.
HitsTrue == TypeOK /\ HitsAreThere /\ FlagsFollowHits /\ HitIndexInReach

\* A search that goes on from search_stop after ^C gives no byte to the lists
\* twice; it may leave out the rest of the block that was interrupted.
ResumeRepeatsNothing ==
  [][EndSearch /\ interrupted =>
       search_stop' >= scanned /\ search_stop' - scanned <= BlockSize]_vars
=============================================================================
