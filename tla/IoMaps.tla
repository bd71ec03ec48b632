------------------------------- MODULE IoMaps -------------------------------
(***************************************************************************)
(* IO maps (io.c): files laid over the addresses of the file that is open. *)
(* A read asks the newest map that holds its first address; a write always *)
(* goes to the open file; the write history (undo.c) notes the old bytes   *)
(* through the maps.                                                       *)
(*                                                                         *)
(* A byte is a pair that tells where it comes from: an offset of a file,   *)
(* the user, or nowhere ("pad": the buffer of the caller keeps what it     *)
(* had).                                                                   *)
(***************************************************************************)
EXTENDS Integers, Sequences

CONSTANTS
  MaxIoAddr,  \* the open file has the addresses 0 .. MaxIoAddr
  MapFile,    \* the files that can be mapped
  MapLen,     \* the length of each
  UserByte,   \* what the user writes
  IoLen,      \* lengths of writes
  MaxMaps,    \* bound on the number of maps
  MaxUndo     \* bound on the write history

ASSUME MapAssumption ==
  /\ MaxIoAddr \in Nat /\ MapLen \in [MapFile -> Nat] /\ IoLen \subseteq Nat \ {0}
  /\ MaxMaps \in Nat /\ MaxUndo \in Nat

IoAddr == 0 .. MaxIoAddr

VARIABLES
  maps,       \* newest first
  main,       \* the bytes of the open file
  undow,      \* the write history, oldest first
  through     \* history variable: addresses written while a read of the same
              \* place and length did not give the byte of the open file

iovars == <<maps, main, undow, through>>

Pad == <<"pad", 0>>
Original == [a \in IoAddr |-> <<"main", a>>]
Bytes ==
  {Pad} \union {<<"main", a>> : a \in IoAddr} \union {<<"user", v>> : v \in UserByte}
        \union UNION {{<<f, o>> : o \in 0 .. MapLen[f] - 1} : f \in MapFile}

IoTypeOK ==
  /\ maps \in Seq([file : MapFile, from : IoAddr, to : Nat, delta : Nat])
  /\ main \in [IoAddr -> Bytes] /\ through \subseteq IoAddr
  /\ undow \in Seq([off : IoAddr, n : Seq(Bytes), o : Seq(Bytes)])
  /\ \A i \in DOMAIN undow :
       Len(undow[i].o) = Len(undow[i].n) /\ undow[i].off + Len(undow[i].n) - 1 \in IoAddr

IoInit == maps = <<>> /\ main = Original /\ undow = <<>> /\ through = {}

-----------------------------------------------------------------------------
\* o file addr delta size: without a size the map is as long as the file,
\* wherever delta begins in it.
io_map(f, off, delta, size) ==
  /\ Len(maps) < MaxMaps
  /\ maps' = <<[file |-> f, from |-> off, to |-> off + (IF size = 0 THEN MapLen[f] ELSE size),
                delta |-> delta]>> \o maps
  /\ UNCHANGED <<main, undow, through>>

Holding(off) == {i \in DOMAIN maps : off >= maps[i].from /\ off < maps[i].to}

\* The bytes the map that holds off gives: cut at its end, and read(2) stops
\* at the end of its file.  A variant with a bug: not cut.
ReadMap(S, off, len, cut) ==
  IF S = {} THEN <<>>
  ELSE LET m == maps[CHOOSE i \in S : \A j \in S : i <= j]
           first == off - m.from + m.delta
           n == IF cut /\ off + len > m.to THEN m.to - off ELSE len
       IN  [i \in {k \in 1 .. n : first + k - 1 < MapLen[m.file]} |-> <<m.file, first + i - 1>>]

io_map_read_at_uncut(off, len) == ReadMap(Holding(off), off, len, FALSE)
io_map_read_at(off, len) == ReadMap(Holding(off), off, len, TRUE)

\* What is in a buffer of len bytes after io_read, which reports len bytes as
\* soon as a map gave one.
io_read(off, len) ==
  LET r == io_map_read_at(off, len)
  IN  [i \in 1 .. len |-> CASE i \in DOMAIN r -> r[i]
                            [] r = <<>> /\ off + i - 1 \in IoAddr -> main[off + i - 1]
                            [] OTHER -> Pad]

Written(f, off, data) ==
  [a \in IoAddr |-> IF a - off + 1 \in DOMAIN data THEN data[a - off + 1] ELSE f[a]]

\* undo_write_new, which notes nothing when the list has the same write.  A
\* variant with a bug: only the first old byte is noted.
Noting(off, data, o) ==
  IF \E i \in DOMAIN undow : undow[i].off = off /\ undow[i].n = data THEN undow
  ELSE Append(undow, [off |-> off, n |-> data, o |-> o])

undo_write_new_byte(off, data) == Noting(off, data, io_read(off, 1))
undo_write_new(off, data) == Noting(off, data, io_read(off, Len(data)))

\* radare_write_at with file.undowrite.
MapWrite(off, v, len) ==
  LET data == [i \in 1 .. len |-> <<"user", v>>]
  IN  /\ off + len - 1 \in IoAddr
      /\ undow' = undo_write_new(off, data) /\ Len(undow') <= MaxUndo
      /\ main' = Written(main, off, data)
      /\ through' = through \union
           {a \in off .. off + len - 1 : io_read(off, len)[a - off + 1] # main[a]}
      /\ UNCHANGED maps

\* undo_write_set_t and undo_write_set_all: the newest entry comes first.  A
\* variant with a bug: the oldest first.
UndoAll_oldest(f) ==
  LET g[n \in 0 .. Len(undow)] == IF n = 0 THEN f ELSE Written(g[n - 1], undow[n].off, undow[n].o)
  IN  g[Len(undow)]

UndoAll(f) ==
  LET at(n) == undow[Len(undow) + 1 - n]
      g[n \in 0 .. Len(undow)] == IF n = 0 THEN f ELSE Written(g[n - 1], at(n).off, at(n).o)
  IN  g[Len(undow)]

MapUndo(i, set) ==
  /\ main' = Written(main, undow[i].off, IF set THEN undow[i].n ELSE undow[i].o)
  /\ UNCHANGED <<maps, undow, through>>

MapUndoAll == main' = UndoAll(main) /\ UNCHANGED <<maps, undow, through>>

IoNext ==
  \/ \E f \in MapFile, off \in IoAddr, delta \in 0 .. 1, size \in 0 .. 2 : io_map(f, off, delta, size)
  \/ \E off \in IoAddr, v \in UserByte, len \in IoLen : MapWrite(off, v, len)
  \/ \E i \in DOMAIN undow, set \in BOOLEAN : MapUndo(i, set)
  \/ MapUndoAll

-----------------------------------------------------------------------------
\* Every byte of a block that was read is the byte of its own address: one the
\* newest map that holds the start of the block has for it, or the byte of
\* the open file when that map has none for the start, or nothing at all.  No
\* byte of a file appears at an address it is not mapped to.
BlockTrue ==
  \A off \in IoAddr, len \in 1 .. 3 :
    LET block == io_read(off, len)
        newest == {i \in Holding(off) : \A j \in Holding(off) : i <= j}
        owed(m, a) == <<m.file, a - m.from + m.delta>>
        given(m) == off - m.from + m.delta < MapLen[m.file]
    IN  \A i \in 1 .. len :
          LET a == off + i - 1
          IN  \/ \E k \in newest : given(maps[k]) /\ a < maps[k].to /\ block[i] = owed(maps[k], a)
              \/ a \in IoAddr /\ block[i] = main[a] /\ \A k \in newest : ~given(maps[k])
              \/ i > 1 /\ block[i] = Pad
              \/ a \notin IoAddr /\ block[i] = Pad

\* Undoing all writes gives back every byte of the open file that was never
\* written through a map, whatever was mapped before, between and after the
\* writes: bytes of a mapped file reach the open file only where the user
\* wrote while they hid it.
UndoKeepsFile == \A a \in IoAddr \ through : UndoAll(main)[a] = Original[a]

\* Maps hide the open file and never change it: reads give each address its
\* own byte, and undo keeps the bytes of other files out of it.
MapsTrue == IoTypeOK /\ BlockTrue /\ UndoKeepsFile
=============================================================================
