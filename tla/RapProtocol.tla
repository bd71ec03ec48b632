----------------------------- MODULE RapProtocol -----------------------------
(***************************************************************************)
(* The radare remote protocol: a server (remote_handle_client of           *)
(* plug/io/remote.c) and one client over TCP, which is either the remote   *)
(* IO plugin (remote_open, remote_read, ... of the same file) or the host  *)
(* list of the '=' command (rtr_add and rtr_cmd of rtr.c).                 *)
(*                                                                         *)
(* Both ends call read once for every part of a message and ignore how     *)
(* many bytes it returned.  A channel is the bytes a read can return now   *)
(* and the bytes still on their way: TCP may deliver what one write sent   *)
(* in two pieces, of which the first has at least MinSegment bytes.        *)
(* Since reads are answered in order, a handler reads all the parts of its *)
(* message in one step, before or after the second piece arrives.          *)
(*                                                                         *)
(* Both ends use the same cfg.bigendian (off, the default).  File contents *)
(* are one byte value for each offset, repeated over the block.            *)
(***************************************************************************)
EXTENDS Integers, Sequences

CONSTANTS
  BlockSize,   \* config.block_size of the server
  Counts,      \* how many bytes the client reads or writes
  Offsets,     \* where it seeks to, as the 8 bytes of a ut64
  Size,        \* the size of the file, as 8 bytes
  Content,     \* the byte found at each offset inside the file
  TextLens,    \* the lengths of commands and of their output
  MinSegment,  \* the least number of bytes TCP delivers of a longer message
  MaxCalls     \* bound: how many calls the client makes

ASSUME RapAssumption ==
  /\ BlockSize \in Nat \ {0} /\ MinSegment \in Nat /\ MinSegment >= 10 /\ MaxCalls \in Nat
  /\ Counts \subseteq 1 .. 127 /\ TextLens \subseteq 0 .. 127
  /\ \A o \in Offsets \union {Size} :
       /\ o \in [1 .. 8 -> 0 .. 255]
       /\ o # [i \in 1 .. 8 |-> 255]    \* which radare_read takes for an error
  /\ \A o \in DOMAIN Content : Content[o] \in 8 .. 127   \* not the code of a message

VARIABLES
  cl,     \* the client: where it is, the request it waits for, the result
  srv,    \* the server: whether it runs, config.fd, config.seek, config.block
  up,     \* the bytes from the client to the server
  down,   \* the bytes from the server to the client
  pos,    \* history variable: the offset the client last asked for
  short,  \* history variable: some read returned less than it was asked for
  wrote,  \* history variable: the client has called remote_write
  calls   \* the number of calls made

vars == <<cl, srv, up, down, pos, short, wrote, calls>>

RMT_OPEN == 1
RMT_READ == 2
RMT_WRITE == 3
RMT_SEEK == 4
RMT_SYSTEM == 6
RMT_CMD == 7
RMT_REPLY == 128

SEEK_SET == 0
SEEK_END == 2

Zero == [i \in 1 .. 8 |-> 0]
MinusOne == [i \in 1 .. 8 |-> 255]
Repeat(b, n) == [i \in 1 .. n |-> b]
Least(m, n) == IF m <= n THEN m ELSE n

\* endian_memcpy of an int to and from the four bytes of a message, and a
\* variant with a bug: negative numbers are not complemented.
Word_unsigned(n) == <<0, 0, n \div 256, n % 256>>

Word(n) ==
  LET high == n \div (256 * 256)
  IN  <<(high \div 256) % 256, high % 256, (n \div 256) % 256, n % 256>>

Value(b) ==
  (((IF b[1] >= 128 THEN b[1] - 256 ELSE b[1]) * 256 + b[2]) * 256 + b[3]) * 256 + b[4]

\* x = (int)config.seek: the low 32 bits, sign-extended.
Narrowed(o) == [i \in 1 .. 8 |-> IF i > 4 THEN o[i] ELSE IF o[5] >= 128 THEN 255 ELSE 0]

------------------------------------------------------------------------------
(***************************************************************************)
(* The channels.                                                           *)
(***************************************************************************)
Empty == [box |-> <<>>, wire |-> <<>>]

\* The channels that may result from one write of m.
Sent(ch, m) ==
  IF ch.wire # <<>> THEN {[ch EXCEPT !.wire = @ \o m]}
  ELSE {[box |-> ch.box \o SubSeq(m, 1, k), wire |-> SubSeq(m, k + 1, Len(m))] :
          k \in {Len(m)} \union MinSegment .. Len(m) - 1}

\* What one read of n bytes returns, and what it leaves; n is not negative.
Take(s, n) == SubSeq(s, 1, Least(n, Len(s)))
Rest(s, n) == SubSeq(s, Least(n, Len(s)) + 1, Len(s))

\* A buffer that held old after a read of all of it returned got.
Filled(got, old) == got \o SubSeq(old, Len(got) + 1, Len(old))

Arrive ==
  \/ /\ up.wire # <<>>
     /\ up' = [box |-> up.box \o up.wire, wire |-> <<>>]
     /\ UNCHANGED <<cl, srv, down, pos, short, wrote, calls>>
  \/ /\ down.wire # <<>>
     /\ down' = [box |-> down.box \o down.wire, wire |-> <<>>]
     /\ UNCHANGED <<cl, srv, up, pos, short, wrote, calls>>

------------------------------------------------------------------------------
(***************************************************************************)
(* The server: one action for each case of the switch.                     *)
(***************************************************************************)
Serving(code, header) ==
  /\ srv.on = "run"
  /\ Len(up.box) >= header
  /\ up.box[1] = code

\* Answer with m, having read header bytes and then up to n bytes: none if n
\* is negative, since then read fails.
Answer(header, n, m) ==
  /\ n <= 0 \/ Len(up.box) > header
  /\ up' = [up EXCEPT !.box = Rest(@, IF n < 0 THEN header ELSE header + n)]
  /\ short' = (short \/ Len(up.box) < header + n)
  /\ down' \in Sent(down, m)
  /\ UNCHANGED <<cl, pos, wrote, calls>>

\* radare_open gives config.fd; it is -1 when the file cannot be opened.
RmtOpen ==
  /\ Serving(RMT_OPEN, 3)
  /\ \E fd \in {3, -1} :
       /\ Answer(3, up.box[3], <<RMT_OPEN + RMT_REPLY>> \o Word(fd))
       /\ srv' = [srv EXCEPT !.fd = fd]

\* What the block holds after a read at o: 0xff where there is no file.
ReadAt(o) == IF o \in DOMAIN Content THEN Content[o] ELSE 255

\* radare_read(0)
radare_read(s) ==
  IF s.fd = -1 THEN s
  ELSE IF s.seek = MinusOne THEN [s EXCEPT !.seek = Zero]
  ELSE [s EXCEPT !.block = ReadAt(s.seek)]

\* The handler of RMT_READ and two variants with a bug: the whole block is
\* sent whatever was asked, and the block is not read again.
RmtRead_block ==
  /\ Serving(RMT_READ, 5)
  /\ srv' = radare_read(srv)
  /\ Answer(5, 0, <<RMT_READ + RMT_REPLY>>
                  \o Word(Least(Value(SubSeq(up.box, 2, 5)), BlockSize))
                  \o Repeat(srv'.block, BlockSize))

RmtRead_stale ==
  /\ Serving(RMT_READ, 5)
  /\ UNCHANGED srv
  /\ LET i == Least(Value(SubSeq(up.box, 2, 5)), BlockSize)
     IN  Answer(5, 0, <<RMT_READ + RMT_REPLY>> \o Word(i) \o Repeat(srv.block, i))

RmtRead ==
  /\ Serving(RMT_READ, 5)
  /\ srv' = radare_read(srv)
  /\ LET i == Least(Value(SubSeq(up.box, 2, 5)), BlockSize)
     IN  Answer(5, 0, <<RMT_READ + RMT_REPLY>> \o Word(i) \o Repeat(srv'.block, i))

\* radare_cmd_str gives the output, whose length counts the final NUL, or
\* nothing.  A request of length below 1 has no reply; no caller sends one.
\* The variant has a bug: no output, no reply.
RmtCmd_silent ==
  /\ Serving(RMT_CMD, 5)
  /\ \E n \in TextLens :
       Answer(5, Value(SubSeq(up.box, 2, 5)),
              IF n = 0 THEN <<>> ELSE <<RMT_CMD + RMT_REPLY>> \o Word(n) \o Repeat(32, n))
  /\ UNCHANGED srv

RmtCmd ==
  /\ Serving(RMT_CMD, 5)
  /\ \E n \in TextLens :
       Answer(5, Value(SubSeq(up.box, 2, 5)), <<RMT_CMD + RMT_REPLY>> \o Word(n) \o Repeat(32, n))
  /\ UNCHANGED srv

\* The handler of RMT_WRITE reads five bytes where the client sent four and
\* takes the length from the last four of them: more than what is left.  The
\* high half of x is whatever it was; if it is not zero malloc fails and the
\* server ends.  There is no reply.  What is written to the file, mostly
\* uninitialised memory, is not modelled.
RmtWrite ==
  /\ Serving(RMT_WRITE, 6)
  /\ up' = [up EXCEPT !.box = <<>>]
  /\ short' = TRUE
  /\ \/ srv' = [srv EXCEPT !.on = IF Len(up.box) = 6 THEN "stuck" ELSE "run"]
     \/ srv' = [srv EXCEPT !.on = "gone"]
  /\ UNCHANGED <<cl, down, pos, wrote, calls>>

\* With no byte left the second read of RMT_WRITE blocks until the next
\* request, which it takes for data, or the end of the connection.
RmtWriteRest ==
  /\ srv.on = "stuck"
  /\ up.box # <<>> \/ (up = Empty /\ cl.at = "closed")
  /\ up' = [up EXCEPT !.box = <<>>]
  /\ srv' = [srv EXCEPT !.on = "run"]
  /\ UNCHANGED <<cl, down, pos, short, wrote, calls>>

io_lseek(s, o, whence) ==
  IF s.fd = -1 THEN MinusOne ELSE IF whence = SEEK_END THEN Size ELSE o

\* The handler of RMT_SEEK and a variant with a bug: it answers with the
\* offset of the request.
RmtSeek_echo ==
  /\ Serving(RMT_SEEK, 10)
  /\ LET o == io_lseek(srv, SubSeq(up.box, 3, 10), up.box[2])
     IN  /\ srv' = [srv EXCEPT !.seek = o]
         /\ Answer(10, 0, <<RMT_SEEK + RMT_REPLY>> \o Narrowed(SubSeq(up.box, 3, 10)))

RmtSeek ==
  /\ Serving(RMT_SEEK, 10)
  /\ LET o == io_lseek(srv, SubSeq(up.box, 3, 10), up.box[2])
     IN  /\ srv' = [srv EXCEPT !.seek = o]
         /\ Answer(10, 0, <<RMT_SEEK + RMT_REPLY>> \o Narrowed(o))

\* The output of the command goes through a temporary file; -1 is sent when
\* that cannot be opened.
RmtSystem ==
  /\ Serving(RMT_SYSTEM, 5)
  /\ \E n \in TextLens \union {-1} :
       Answer(5, Value(SubSeq(up.box, 2, 5)),
              <<RMT_SYSTEM + RMT_REPLY>> \o Word(n) \o Repeat(32, IF n = -1 THEN 0 ELSE n))
  /\ UNCHANGED srv

\* An unknown command, or the end of the connection: the server returns.
RmtEnd ==
  /\ srv.on = "run"
  /\ \/ up.box # <<>> /\ up.box[1] \notin {RMT_OPEN, RMT_READ, RMT_WRITE, RMT_SEEK, RMT_SYSTEM, RMT_CMD}
     \/ up = Empty /\ cl.at = "closed"
  /\ srv' = [srv EXCEPT !.on = "gone"]
  /\ UNCHANGED <<cl, up, down, pos, short, wrote, calls>>

Server == RmtOpen \/ RmtRead \/ RmtCmd \/ RmtWrite \/ RmtWriteRest \/ RmtSeek \/ RmtSystem \/ RmtEnd

------------------------------------------------------------------------------
(***************************************************************************)
(* The client.  A call sends its request and waits.                        *)
(***************************************************************************)
Call(kind, from, m) ==
  /\ cl.kind = kind /\ cl.at = from
  /\ calls < MaxCalls /\ calls' = calls + 1
  /\ cl' = [cl EXCEPT !.at = "wait", !.req = m]
  /\ up' \in Sent(up, m)
  /\ wrote' = (wrote \/ m[1] = RMT_WRITE)
  /\ UNCHANGED <<srv, down, short>>

remote_open == Call("io", "off", <<RMT_OPEN, 0, 2>> \o Repeat(47, 2)) /\ UNCHANGED pos

rtr_add == Call("rtr", "off", <<RMT_OPEN, 0, 3>> \o Repeat(47, 3)) /\ UNCHANGED pos

remote_read(n) == Call("io", "idle", <<RMT_READ>> \o Word(n)) /\ UNCHANGED pos

remote_write(n) ==
  Call("io", "idle", <<RMT_WRITE>> \o Word(n) \o Repeat(0, n)) /\ UNCHANGED pos

remote_lseek(o, whence) ==
  /\ Call("io", "idle", <<RMT_SEEK, whence>> \o o)
  /\ pos' = IF whence = SEEK_END THEN Size ELSE o

remote_system(n) ==
  Call("io", "idle", <<RMT_SYSTEM>> \o Word(n) \o Repeat(32, n)) /\ UNCHANGED pos

rtr_cmd(n) == Call("rtr", "idle", <<RMT_CMD>> \o Word(n) \o Repeat(32, n)) /\ UNCHANGED pos

\* remote_close and rtr_remove close the socket and send nothing.
remote_close ==
  /\ cl.at = "idle"
  /\ cl' = [cl EXCEPT !.at = "closed"]
  /\ UNCHANGED <<srv, up, down, pos, short, wrote, calls>>

\* The call returns ret, having read a header and then up to n bytes.
Return(at, ret, header, n) ==
  /\ n = 0 \/ Len(down.box) > header
  /\ cl' = [cl EXCEPT !.at = at, !.ret = ret, !.got = Take(Rest(down.box, header), n)]
  /\ down' = [down EXCEPT !.box = Rest(@, header + n)]
  /\ short' = (short \/ Len(down.box) < header + n)
  /\ UNCHANGED <<srv, up, pos, wrote, calls>>

\* The client waits, and its read of the header of a reply can return: with
\* what has come, or with nothing when the server has closed the connection.
Answered(code) ==
  /\ cl.at = "wait" /\ cl.req[1] = code
  /\ \/ down.box # <<>>
     \/ srv.on = "gone" /\ down = Empty

\* The header as the client finds it in its buffer.
Header(n) == Filled(Take(down.box, n), SubSeq(cl.req, 1, n))

Refused(code, n) == Header(n)[1] # code + RMT_REPLY

\* remote_open goes on whatever descriptor the server answers; rtr_add
\* requires a positive one, and leaves the connection open if it is not.
OpenReturns ==
  /\ Answered(RMT_OPEN)
  /\ IF Refused(RMT_OPEN, 5) \/ (cl.kind = "rtr" /\ Value(SubSeq(Header(5), 2, 5)) <= 0)
     THEN Return("failed", -1, 5, 0)
     ELSE Return("idle", 0, 5, 0)

\* remote_read, remote_system and rtr_cmd: a length, then the bytes.
BytesReturn(code) ==
  /\ Answered(code)
  /\ LET n == Value(SubSeq(Header(5), 2, 5))
     IN  IF Refused(code, 5) \/ n < 0
         THEN Return("idle", -1, 5, 0)
         ELSE Return("idle", n, 5, n)

\* remote_write does not look at the reply.
WriteReturns ==
  /\ Answered(RMT_WRITE)
  /\ Return("idle", Len(cl.req), 5, 0)

LseekReturns ==
  /\ Answered(RMT_SEEK)
  /\ IF Refused(RMT_SEEK, 9) THEN Return("idle", -1, 9, 0)
     ELSE Return("idle", 0, 1, 8)

Returns ==
  \/ OpenReturns
  \/ \E code \in {RMT_READ, RMT_SYSTEM, RMT_CMD} : BytesReturn(code)
  \/ WriteReturns
  \/ LseekReturns

Client ==
  \/ remote_open
  \/ rtr_add
  \/ \E n \in Counts : remote_read(n) \/ remote_write(n)
  \/ \E o \in Offsets : remote_lseek(o, SEEK_SET)
  \/ remote_lseek(Zero, SEEK_END)
  \/ \E n \in TextLens : remote_system(n)
  \/ \E n \in TextLens \ {0} : rtr_cmd(n)
  \/ remote_close

Init ==
  /\ \E kind \in {"io", "rtr"} :
       cl = [kind |-> kind, at |-> "off", req |-> <<0>>, ret |-> 0, got |-> <<>>]
  /\ srv = [on |-> "run", fd |-> -1, seek |-> Zero, block |-> 255]
  /\ up = Empty /\ down = Empty
  /\ pos = Zero
  /\ short = FALSE
  /\ wrote = FALSE
  /\ calls = 0

Next == Client \/ Returns \/ Server \/ Arrive

\* Both processes run and TCP delivers; nothing obliges the user to call.
Spec == Init /\ [][Next]_vars /\ WF_vars(Server) /\ WF_vars(Returns) /\ WF_vars(Arrive)

------------------------------------------------------------------------------
(***************************************************************************)
(* Properties.                                                             *)
(***************************************************************************)
Byte == 0 .. 255

\* Type invariant: only bytes travel, and the ends keep their shape.
TypeOK ==
  /\ cl \in [kind : {"io", "rtr"}, at : {"off", "wait", "idle", "failed", "closed"},
             req : Seq(Byte), ret : Nat \union {-1}, got : Seq(Byte)]
  /\ srv \in [on : {"run", "stuck", "gone"}, fd : {-1, 3}, seek : [1 .. 8 -> Byte], block : Byte]
  /\ {up, down} \subseteq [box : Seq(Byte), wire : Seq(Byte)]
  /\ pos \in [1 .. 8 -> Byte] /\ short \in BOOLEAN /\ wrote \in BOOLEAN /\ calls \in 0 .. MaxCalls

\* Only bytes travel, and both ends agree where a message starts: as long as
\* no read came back short, a client that does not wait has no byte left to
\* read, and one that waits finds the reply to the very request it made.
InStep ==
  /\ TypeOK
  /\ ~short => /\ cl.at # "wait" => down = Empty
               /\ down.box # <<>> => down.box[1] = cl.req[1] + RMT_REPLY

\* What remote_read returns is the file at the offset the client last asked
\* for with remote_lseek, also beyond 2 GB where the returned offset is
\* wrong, and cut to the block size of the server.
ReadTrue ==
  cl.at = "idle" /\ cl.req[1] = RMT_READ /\ ~short /\ srv.on = "run" /\ srv.fd # -1
    => cl.got = Repeat(ReadAt(pos), Least(Value(SubSeq(cl.req, 2, 5)), BlockSize))

\* remote_lseek returns the offset the server went to, the size of the file
\* for SEEK_END, whenever that offset fits an int.
SeekTrue ==
  cl.at = "idle" /\ cl.req[1] = RMT_SEEK /\ ~short /\ srv.on = "run" /\ srv.fd # -1
    => (Narrowed(pos) = pos => cl.got = pos)

\* Every answer is true: what a read returns and where a seek says it went.
AnswersTrue == ReadTrue /\ SeekTrue

\* While the client has not called remote_write every call returns, whatever
\* was read short or misread before: there is always a byte, or the end of
\* the connection, to read.
CallReturns == cl.at = "wait" /\ ~wrote ~> cl.at # "wait"
=============================================================================
