-------------------------- MODULE RapProtocolProofs --------------------------
(***************************************************************************)
(* Proofs about RapProtocol: the ends stay in step and the answers are     *)
(* true for every block size, every way a message may be split and every   *)
(* number of calls.                                                        *)
(***************************************************************************)
EXTENDS RapProtocol, SequenceTheorems, TLAPS

------------------------------------------------------------------------------
(***************************************************************************)
(* The inductive invariant.  As long as no read came back short there is   *)
(* one message on its way at most: the request of the client that waits,   *)
(* or the reply to it.                                                     *)
(***************************************************************************)
\* The length a message carries in its bytes 2 to 5.
Length(m) == Value(SubSeq(m, 2, 5))

\* The requests the client makes.
IsRequest(m) ==
  /\ m \in Seq(Byte) /\ Len(m) >= 5
  /\ \/ m[1] = RMT_OPEN /\ Len(m) = 3 + m[3]
     \/ m[1] = RMT_READ /\ Len(m) = 5 /\ Length(m) \in 0 .. 127
     \/ m[1] = RMT_WRITE
     \/ m[1] = RMT_SEEK /\ Len(m) = 10
     \/ m[1] \in {RMT_SYSTEM, RMT_CMD} /\ Length(m) \in Nat /\ Len(m) = 5 + Length(m)

\* A message of n bytes is on its way, and if it is split, its first ten
\* bytes or more can be read.
Carries(ch, n) == Len(ch.box) + Len(ch.wire) = n /\ Len(ch.box) >= Least(10, n)

Asking ==
  /\ down = Empty /\ Carries(up, Len(cl.req))
  /\ \A i \in 1 .. Least(10, Len(cl.req)) : up.box[i] = cl.req[i]

\* The reply to each request.
ReplyCarried ==
  /\ cl.req[1] # RMT_WRITE
  /\ cl.req[1] = RMT_OPEN => Carries(down, 5)
  /\ cl.req[1] = RMT_READ =>
       /\ Length(down.box) = Least(Length(cl.req), BlockSize)
       /\ Carries(down, 5 + Length(down.box))
       /\ \A i \in 6 .. Len(down.box) : down.box[i] = srv.block
       /\ \A i \in 1 .. Len(down.wire) : down.wire[i] = srv.block
       /\ srv.fd # -1 => srv.block = ReadAt(pos)
  /\ cl.req[1] = RMT_SEEK =>
       /\ Carries(down, 9)
       /\ srv.fd # -1 => \A i \in 1 .. 8 : down.box[i + 1] = Narrowed(pos)[i]
  /\ cl.req[1] \in {RMT_SYSTEM, RMT_CMD} =>
       \/ Length(down.box) = -1 /\ Carries(down, 5)
       \/ Length(down.box) \in Nat /\ Carries(down, 5 + Length(down.box))

Replying == up = Empty /\ down.box[1] = cl.req[1] + RMT_REPLY /\ ReplyCarried

OneMessage ==
  /\ cl.at # "wait" => up = Empty /\ down = Empty
  /\ cl.at = "wait" => Asking \/ Replying
  /\ cl.at # "closed" => srv.on = "run"

\* The server is where the client last asked it to be, or is about to be.
Opening == cl.at = "off" \/ (cl.at = "wait" /\ cl.req[1] = RMT_OPEN)

Moving == cl.at = "wait" /\ cl.req[1] = RMT_SEEK /\ down = Empty

ServerPlaced ==
  /\ pos # MinusOne
  /\ Opening => pos = Zero /\ srv.seek = Zero
  /\ Moving => pos = IF cl.req[2] = SEEK_END THEN Size ELSE SubSeq(cl.req, 3, 10)
  /\ srv.fd # -1 /\ ~Moving => srv.seek = pos

Waits == cl.at = "wait" => IsRequest(cl.req)

RapInv == TypeOK /\ Waits /\ (~short => OneMessage /\ ServerPlaced /\ AnswersTrue)
------------------------------------------------------------------------------
(***************************************************************************)
(* Bytes, words and messages.                                              *)
(***************************************************************************)
\* A part of a sequence of bytes is one.
LEMMA PartFacts ==
  ASSUME NEW s \in Seq(Byte), NEW m \in 1 .. Len(s) + 1, NEW n \in m - 1 .. Len(s)
  PROVE  /\ SubSeq(s, m, n) \in Seq(Byte)
         /\ Len(SubSeq(s, m, n)) = n - m + 1
         /\ \A i \in 1 .. n - m + 1 : SubSeq(s, m, n)[i] = s[m + i - 1]
<1>1. Len(s) \in Nat /\ m \in Nat \ {0} /\ n \in Nat
  OBVIOUS
<1>2. SubSeq(s, m, n) = [i \in 1 .. n - m + 1 |-> s[m + i - 1]]
  BY <1>1
<1>3. \A i \in 1 .. n - m + 1 : m + i - 1 \in 1 .. Len(s)
  BY <1>1
<1>4. \A i \in 1 .. n - m + 1 : s[m + i - 1] \in Byte
  BY <1>3
<1>5. n - m + 1 \in Nat
  BY <1>1
<1>6. [i \in 1 .. n - m + 1 |-> s[m + i - 1]] \in Seq(Byte)
  BY <1>4, <1>5
<1> QED
  BY <1>2, <1>5, <1>6

\* Two sequences of bytes in a row are one.
LEMMA JoinFacts ==
  ASSUME NEW s \in Seq(Byte), NEW t \in Seq(Byte)
  PROVE  /\ s \o t \in Seq(Byte)
         /\ Len(s \o t) = Len(s) + Len(t)
         /\ \A i \in 1 .. Len(s) : (s \o t)[i] = s[i]
         /\ \A i \in 1 .. Len(t) : (s \o t)[Len(s) + i] = t[i]
<1>1. Len(s) \in Nat /\ Len(t) \in Nat
  OBVIOUS
<1>2. /\ s \o t \in Seq(Byte) /\ Len(s \o t) = Len(s) + Len(t)
      /\ \A i \in 1 .. Len(s) + Len(t) : (s \o t)[i] = IF i <= Len(s) THEN s[i] ELSE t[i - Len(s)]
  BY ConcatProperties
<1>3. ASSUME NEW i \in 1 .. Len(t)
      PROVE  (s \o t)[Len(s) + i] = t[i]
  <2>1. Len(s) + i \in 1 .. Len(s) + Len(t) /\ ~(Len(s) + i <= Len(s)) /\ (Len(s) + i) - Len(s) = i
    BY <1>1
  <2> QED
    BY <2>1, <1>2
<1>4. ASSUME NEW i \in 1 .. Len(s)
      PROVE  (s \o t)[i] = s[i]
  <2>1. i \in 1 .. Len(s) + Len(t) /\ i <= Len(s)
    BY <1>1
  <2> QED
    BY <2>1, <1>2
<1> QED
  BY <1>2, <1>3, <1>4

\* The same byte n times, also for n <= 0.
LEMMA RepeatFacts ==
  ASSUME NEW b \in Byte, NEW n \in Int
  PROVE  /\ Repeat(b, n) \in Seq(Byte)
         /\ n >= 0 => Len(Repeat(b, n)) = n
         /\ \A i \in 1 .. n : Repeat(b, n)[i] = b
<1>1. CASE n >= 0
  BY <1>1 DEF Repeat
<1>2. CASE n < 0
  <2>1. 1 .. n = 1 .. 0
    BY <1>2
  <2>2. [i \in 1 .. n |-> b] = [i \in 1 .. 0 |-> b]
    BY <2>1
  <2>3. [i \in 1 .. 0 |-> b] \in Seq(Byte)
    OBVIOUS
  <2> QED
    BY <1>2, <2>1, <2>2, <2>3 DEF Repeat
<1> QED
  BY <1>1, <1>2

\* An int goes over the wire as four bytes, and comes back if it is small.
LEMMA WordFacts ==
  ASSUME NEW n \in Int
  PROVE  /\ Word(n) \in Seq(Byte) /\ Len(Word(n)) = 4
         /\ n \in -1 .. 127 => Word(n)[1] = Word(n)[2] /\ Word(n)[2] = Word(n)[3]
         /\ n \in 0 .. 127 => Word(n)[3] = 0 /\ Word(n)[4] = n
         /\ n = -1 => Word(n)[3] = 255 /\ Word(n)[4] = 255
<1>1. \A k \in Int : k % 256 \in Byte
  BY DEF Byte
<1> DEFINE high == n \div (256 * 256)
<1>2. high \in Int /\ high \div 256 \in Int /\ n \div 256 \in Int
  OBVIOUS
<1>3. Word(n) \in Seq(Byte) /\ Len(Word(n)) = 4
  BY <1>1, <1>2 DEF Word
<1>4. n \in 0 .. 127 => high = 0 /\ high \div 256 = 0 /\ n \div 256 = 0 /\ n % 256 = n /\ 0 % 256 = 0
  OBVIOUS
<1>5. ASSUME n = -1
      PROVE  high = -1 /\ high \div 256 = -1 /\ n \div 256 = -1 /\ n % 256 = 255 /\ high % 256 = 255
  <2>1. n \div 256 = -1
    <3>1. \A x, q \in Int : 256 * q <= x /\ x < 256 * q + 256 => x \div 256 = q
      OBVIOUS
    <3>2. -1 \in Int /\ 256 * (-1) <= n /\ n < 256 * (-1) + 256
      BY <1>5
    <3> QED
      BY <3>1, <3>2
  <2>2. high = -1
    <3>1. \A x, q \in Int : (256 * 256) * q <= x /\ x < (256 * 256) * q + 256 * 256 => x \div (256 * 256) = q
      OBVIOUS
    <3>2. -1 \in Int /\ (256 * 256) * (-1) <= n /\ n < (256 * 256) * (-1) + 256 * 256
      BY <1>5
    <3> QED
      BY <3>1, <3>2
  <2>3. n % 256 = 255
    <3>1. \A x \in Int : x % 256 = x - 256 * (x \div 256)
      OBVIOUS
    <3> QED
      BY <3>1, <2>1, <1>5
  <2>4. high = n
    BY <2>2, <1>5
  <2> HIDE DEF high
  <2> QED
    BY <2>1, <2>2, <2>3, <2>4
<1> QED
  BY <1>3, <1>4, <1>5 DEF Word

\* The int that four bytes stand for.
Int32(b, c, d, e) == (((IF b >= 128 THEN b - 256 ELSE b) * 256 + c) * 256 + d) * 256 + e

\* A header of five bytes carries an int.
LEMMA LengthFacts ==
  ASSUME NEW s \in Seq(Byte), Len(s) >= 5
  PROVE  /\ Length(s) \in Int
         /\ Length(s) = Int32(s[2], s[3], s[4], s[5])
<1>1. 2 \in 1 .. Len(s) + 1 /\ 5 \in 2 - 1 .. Len(s)
  OBVIOUS
<1> DEFINE b == SubSeq(s, 2, 5)
<1>2. \A i \in 1 .. 5 - 2 + 1 : b[i] = s[2 + i - 1]
  BY <1>1, PartFacts
<1>3. b[1] = s[2] /\ b[2] = s[3] /\ b[3] = s[4] /\ b[4] = s[5]
  BY <1>2
<1>4. s[2] \in Byte /\ s[3] \in Byte /\ s[4] \in Byte /\ s[5] \in Byte
  OBVIOUS
<1> HIDE DEF b
<1>5. Length(s) = Value(b)
  BY DEF Length, b
<1>6. Value(b) = Int32(s[2], s[3], s[4], s[5])
  BY <1>3 DEF Value, Int32
<1>7. ASSUME NEW v \in Byte, NEW x \in Byte, NEW y \in Byte, NEW z \in Byte
      PROVE  Int32(v, x, y, z) \in Int
  BY DEF Byte, Int32
<1> QED
  BY <1>4, <1>5, <1>6, <1>7

\* A message of a code, a length and equal bytes.
Message(c, n, b, k) == <<c>> \o Word(n) \o Repeat(b, k)

IsMessage(m, c, n, b, k) ==
  /\ m \in Seq(Byte) /\ Len(m) >= 5 /\ m[1] = c
  /\ k >= 0 => Len(m) = 5 + k /\ \A i \in 6 .. Len(m) : m[i] = b
  /\ n \in -1 .. 127 => Length(m) = n

\* Its bytes are what they should be.
LEMMA MessageFacts ==
  ASSUME NEW c \in Byte, NEW n \in Int, NEW b \in Byte, NEW k \in Int,
         NEW m, m = Message(c, n, b, k)
  PROVE  IsMessage(m, c, n, b, k)
<1> SUFFICES /\ m \in Seq(Byte) /\ Len(m) >= 5 /\ m[1] = c
             /\ k >= 0 => Len(m) = 5 + k /\ \A i \in 6 .. Len(m) : m[i] = b
             /\ n \in -1 .. 127 => Length(m) = n
  BY DEF IsMessage
<1> DEFINE w == <<c>> \o Word(n)
<1>1. <<c>> \in Seq(Byte) /\ Len(<<c>>) = 1 /\ <<c>>[1] = c
  OBVIOUS
<1>2. w \in Seq(Byte) /\ Len(w) = 5 /\ w[1] = c /\ \A i \in 1 .. 4 : w[1 + i] = Word(n)[i]
  <2>1. Word(n) \in Seq(Byte) /\ Len(Word(n)) = 4
    BY WordFacts
  <2> DEFINE o == <<c>>
  <2> HIDE DEF o
  <2>2. o \in Seq(Byte) /\ Len(o) = 1 /\ o[1] = c /\ w = o \o Word(n)
    BY <1>1 DEF o
  <2> HIDE DEF w
  <2>3. /\ w \in Seq(Byte) /\ Len(w) = Len(o) + Len(Word(n))
        /\ \A i \in 1 .. Len(o) : w[i] = o[i]
        /\ \A i \in 1 .. Len(Word(n)) : w[Len(o) + i] = Word(n)[i]
    BY <2>1, <2>2, JoinFacts
  <2>4. ASSUME NEW i \in 1 .. 4
        PROVE  w[1 + i] = Word(n)[i]
    BY <2>1, <2>2, <2>3
  <2>5. w[1] = c
    BY <2>2, <2>3
  <2>6. Len(w) = 5
    BY <2>1, <2>2, <2>3
  <2> QED
    BY <2>3, <2>4, <2>5, <2>6
<1> HIDE DEF w
<1>3. m = w \o Repeat(b, k)
  BY DEF w, Message
<1>4. Repeat(b, k) \in Seq(Byte)
  BY RepeatFacts
<1>5. /\ m \in Seq(Byte) /\ Len(m) = 5 + Len(Repeat(b, k))
      /\ \A i \in 1 .. 5 : m[i] = w[i]
      /\ \A i \in 1 .. Len(Repeat(b, k)) : m[5 + i] = Repeat(b, k)[i]
  <2>1. /\ m \in Seq(Byte) /\ Len(m) = Len(w) + Len(Repeat(b, k))
        /\ \A i \in 1 .. Len(w) : m[i] = w[i]
        /\ \A i \in 1 .. Len(Repeat(b, k)) : m[Len(w) + i] = Repeat(b, k)[i]
    <3> DEFINE t == Repeat(b, k)
    <3> HIDE DEF t
    <3>1. t \in Seq(Byte) /\ m = w \o t
      BY <1>3, <1>4 DEF t
    <3>2. /\ w \o t \in Seq(Byte) /\ Len(w \o t) = Len(w) + Len(t)
          /\ \A i \in 1 .. Len(w) : (w \o t)[i] = w[i]
          /\ \A i \in 1 .. Len(t) : (w \o t)[Len(w) + i] = t[i]
      BY <1>2, <3>1, JoinFacts, Zenon
    <3> QED
      BY <3>1, <3>2, Zenon DEF t
  <2> QED
    BY <2>1, <1>2
<1>6. m[1] = c /\ Len(m) >= 5 /\ m[2] = Word(n)[1] /\ m[3] = Word(n)[2] /\ m[4] = Word(n)[3] /\ m[5] = Word(n)[4]
  BY <1>2, <1>4, <1>5
<1>7. ASSUME k >= 0
      PROVE  Len(m) = 5 + k /\ \A i \in 6 .. Len(m) : m[i] = b
  <2>1. Len(Repeat(b, k)) = k /\ \A i \in 1 .. k : Repeat(b, k)[i] = b
    BY <1>7, RepeatFacts
  <2>2. \A i \in 1 .. k : m[5 + i] = b
    BY <2>1, <1>5
  <2>3. ASSUME NEW i \in 6 .. Len(m)
        PROVE  m[i] = b
    <3>1. i - 5 \in 1 .. k /\ i = 5 + (i - 5)
      BY <1>5, <2>1
    <3> QED
      BY <3>1, <2>2
  <2> QED
    BY <2>1, <2>3, <1>5
<1>8. ASSUME n \in -1 .. 127
      PROVE  Length(m) = n
  <2>1. Length(m) = Int32(m[2], m[3], m[4], m[5])
    BY <1>5, <1>6, LengthFacts
  <2>2. CASE n \in 0 .. 127
    <3>1. m[2] = 0 /\ m[3] = 0 /\ m[4] = 0 /\ m[5] = n
      BY <1>6, <2>2, WordFacts
    <3>2. Int32(0, 0, 0, n) = n
      BY DEF Int32
    <3> QED
      BY <2>1, <3>1, <3>2
  <2>3. CASE n = -1
    <3>1. m[2] = 255 /\ m[3] = 255 /\ m[4] = 255 /\ m[5] = 255
      BY <1>6, <2>3, WordFacts
    <3>2. Int32(255, 255, 255, 255) = -1
      BY DEF Int32
    <3> QED
      BY <2>1, <2>3, <3>1, <3>2
  <2> QED
    BY <1>8, <2>2, <2>3
<1> QED
  BY <1>5, <1>6, <1>7, <1>8

------------------------------------------------------------------------------
(***************************************************************************)
(* Channels.                                                               *)
(***************************************************************************)
Channel == [box : Seq(Byte), wire : Seq(Byte)]

\* What a read returns is the beginning of what is there, and it leaves the
\* rest.
LEMMA ReadFacts ==
  ASSUME NEW s \in Seq(Byte), NEW n \in Nat
  PROVE  /\ Take(s, n) \in Seq(Byte) /\ Len(Take(s, n)) = Least(n, Len(s))
         /\ \A i \in 1 .. Least(n, Len(s)) : Take(s, n)[i] = s[i]
         /\ Rest(s, n) \in Seq(Byte) /\ Len(Rest(s, n)) = Len(s) - Least(n, Len(s))
         /\ \A i \in 1 .. Len(s) - Least(n, Len(s)) : Rest(s, n)[i] = s[Least(n, Len(s)) + i]
<1> DEFINE k == Least(n, Len(s))
<1>1. k \in 0 .. Len(s) /\ Len(s) \in Nat
  BY DEF Least
<1>2. Take(s, n) = SubSeq(s, 1, k) /\ Rest(s, n) = SubSeq(s, k + 1, Len(s))
  BY DEF Take, Rest
<1> HIDE DEF k
<1>3. /\ SubSeq(s, 1, k) \in Seq(Byte) /\ Len(SubSeq(s, 1, k)) = k - 1 + 1
      /\ \A i \in 1 .. k - 1 + 1 : SubSeq(s, 1, k)[i] = s[1 + i - 1]
  <2>1. 1 \in 1 .. Len(s) + 1 /\ k \in 1 - 1 .. Len(s)
    BY <1>1
  <2> QED
    BY <2>1, PartFacts
<1>4. /\ SubSeq(s, k + 1, Len(s)) \in Seq(Byte)
      /\ Len(SubSeq(s, k + 1, Len(s))) = Len(s) - (k + 1) + 1
      /\ \A i \in 1 .. Len(s) - (k + 1) + 1 : SubSeq(s, k + 1, Len(s))[i] = s[(k + 1) + i - 1]
  <2>1. k + 1 \in 1 .. Len(s) + 1 /\ Len(s) \in (k + 1) - 1 .. Len(s)
    BY <1>1
  <2> QED
    BY <2>1, PartFacts
<1>5. \A i \in 1 .. k : SubSeq(s, 1, k)[i] = s[i]
  BY <1>1, <1>3
<1>6. \A i \in 1 .. Len(s) - k : SubSeq(s, k + 1, Len(s))[i] = s[k + i]
  <2> TAKE i \in 1 .. Len(s) - k
  <2>1. i \in 1 .. Len(s) - (k + 1) + 1 /\ (k + 1) + i - 1 = k + i
    BY <1>1
  <2> QED
    BY <2>1, <1>4
<1>7. Len(SubSeq(s, 1, k)) = k /\ Len(SubSeq(s, k + 1, Len(s))) = Len(s) - k
  BY <1>1, <1>3, <1>4
<1>8. /\ Take(s, n) \in Seq(Byte) /\ Len(Take(s, n)) = k
      /\ \A i \in 1 .. k : Take(s, n)[i] = s[i]
      /\ Rest(s, n) \in Seq(Byte) /\ Len(Rest(s, n)) = Len(s) - k
      /\ \A i \in 1 .. Len(s) - k : Rest(s, n)[i] = s[k + i]
  BY <1>2, <1>3, <1>4, <1>5, <1>6, <1>7
<1> QED
  BY <1>8 DEF k

\* A read of all there is leaves nothing.
LEMMA ReadAll ==
  ASSUME NEW s \in Seq(Byte), NEW n \in Nat, Len(s) <= n
  PROVE  Rest(s, n) = <<>>
<1>1. Rest(s, n) \in Seq(Byte) /\ Len(Rest(s, n)) = Len(s) - Least(n, Len(s))
  BY ReadFacts
<1>2. Least(n, Len(s)) = Len(s)
  BY DEF Least
<1> QED
  BY <1>1, <1>2

\* A write puts bytes into the channel.
LEMMA SentIsChannel ==
  ASSUME NEW ch \in Channel, NEW m \in Seq(Byte), NEW c \in Sent(ch, m)
  PROVE  c \in Channel
<1>1. CASE ch.wire # <<>>
  <2>1. c = [ch EXCEPT !.wire = @ \o m]
    BY <1>1 DEF Sent
  <2>2. ch.wire \o m \in Seq(Byte)
    BY JoinFacts DEF Channel
  <2> QED
    BY <2>1, <2>2 DEF Channel
<1>2. CASE ch.wire = <<>>
  <2>1. PICK k \in {Len(m)} \union MinSegment .. Len(m) - 1 :
          c = [box |-> ch.box \o SubSeq(m, 1, k), wire |-> SubSeq(m, k + 1, Len(m))]
    BY <1>2 DEF Sent
  <2>2. k \in 0 .. Len(m)
    BY RapAssumption
  <2>3. SubSeq(m, 1, k) \in Seq(Byte) /\ SubSeq(m, k + 1, Len(m)) \in Seq(Byte)
    BY <2>2, PartFacts
  <2>4. ch.box \o SubSeq(m, 1, k) \in Seq(Byte)
    BY <2>3, JoinFacts DEF Channel
  <2> QED
    BY <2>1, <2>3, <2>4 DEF Channel
<1> QED
  BY <1>1, <1>2

\* A message written to an empty channel is there, its first ten bytes at once.
LEMMA SentFacts ==
  ASSUME NEW m \in Seq(Byte), NEW c \in Sent(Empty, m)
  PROVE  /\ Carries(c, Len(m))
         /\ \A i \in 1 .. Len(c.box) : c.box[i] = m[i]
         /\ \A i \in 1 .. Len(c.wire) : c.wire[i] = m[Len(c.box) + i]
<1>1. PICK k \in {Len(m)} \union MinSegment .. Len(m) - 1 :
        c = [box |-> <<>> \o SubSeq(m, 1, k), wire |-> SubSeq(m, k + 1, Len(m))]
  BY DEF Sent, Empty
<1>2. k \in 0 .. Len(m) /\ k >= Least(10, Len(m))
  BY RapAssumption DEF Least
<1>3. /\ SubSeq(m, 1, k) \in Seq(Byte) /\ Len(SubSeq(m, 1, k)) = k - 1 + 1
      /\ \A i \in 1 .. k - 1 + 1 : SubSeq(m, 1, k)[i] = m[1 + i - 1]
  <2>1. 1 \in 1 .. Len(m) + 1 /\ k \in 1 - 1 .. Len(m)
    BY <1>2
  <2> QED
    BY <2>1, PartFacts
<1>4. /\ SubSeq(m, k + 1, Len(m)) \in Seq(Byte)
      /\ Len(SubSeq(m, k + 1, Len(m))) = Len(m) - (k + 1) + 1
      /\ \A i \in 1 .. Len(m) - (k + 1) + 1 : SubSeq(m, k + 1, Len(m))[i] = m[(k + 1) + i - 1]
  <2>1. k + 1 \in 1 .. Len(m) + 1 /\ Len(m) \in (k + 1) - 1 .. Len(m)
    BY <1>2
  <2> QED
    BY <2>1, PartFacts
<1>5. c.box = SubSeq(m, 1, k) /\ c.wire = SubSeq(m, k + 1, Len(m))
  BY <1>1, <1>3, ConcatEmptySeq
<1>6. Len(c.box) = k /\ Len(c.wire) = Len(m) - k
  BY <1>2, <1>3, <1>4, <1>5
<1>7. Carries(c, Len(m))
  BY <1>2, <1>6 DEF Carries
<1>8. \A i \in 1 .. Len(c.box) : c.box[i] = m[i]
  BY <1>2, <1>3, <1>5, <1>6
<1>9. \A i \in 1 .. Len(c.wire) : c.wire[i] = m[Len(c.box) + i]
  <2> TAKE i \in 1 .. Len(c.wire)
  <2>1. i \in 1 .. Len(m) - (k + 1) + 1 /\ (k + 1) + i - 1 = Len(c.box) + i
    BY <1>2, <1>6
  <2> QED
    BY <2>1, <1>4, <1>5
<1> QED
  BY <1>7, <1>8, <1>9

\* The header the client looks at has all its bytes, and is the reply if that
\* is there.
LEMMA HeaderFacts ==
  ASSUME NEW n \in Nat, down.box \in Seq(Byte), cl.req \in Seq(Byte), Len(cl.req) >= n
  PROVE  /\ Header(n) \in Seq(Byte) /\ Len(Header(n)) = n
         /\ Len(down.box) >= n => \A i \in 1 .. n : Header(n)[i] = down.box[i]
<1> DEFINE got == Take(down.box, n)
<1> DEFINE old == SubSeq(cl.req, 1, n)
<1>1. /\ got \in Seq(Byte) /\ Len(got) = Least(n, Len(down.box))
      /\ \A i \in 1 .. Least(n, Len(down.box)) : got[i] = down.box[i]
  BY ReadFacts
<1>2. old \in Seq(Byte) /\ Len(old) = n
  <2>1. 1 \in 1 .. Len(cl.req) + 1 /\ n \in 1 - 1 .. Len(cl.req)
    OBVIOUS
  <2>2. old \in Seq(Byte) /\ Len(old) = n - 1 + 1
    BY <2>1, PartFacts
  <2> QED
    BY <2>2
<1>3. Header(n) = got \o SubSeq(old, Len(got) + 1, Len(old))
  BY DEF Header, Filled
<1> HIDE DEF got, old
<1>4. Len(got) \in 0 .. n /\ (Len(down.box) >= n => Len(got) = n)
  BY <1>1 DEF Least
<1>5. /\ SubSeq(old, Len(got) + 1, Len(old)) \in Seq(Byte)
      /\ Len(SubSeq(old, Len(got) + 1, Len(old))) = Len(old) - (Len(got) + 1) + 1
  <2>1. Len(got) + 1 \in 1 .. Len(old) + 1 /\ Len(old) \in (Len(got) + 1) - 1 .. Len(old)
    BY <1>2, <1>4
  <2> QED
    BY <1>2, <2>1, PartFacts
<1>6. /\ Header(n) \in Seq(Byte)
      /\ Len(Header(n)) = Len(got) + Len(SubSeq(old, Len(got) + 1, Len(old)))
      /\ \A i \in 1 .. Len(got) : Header(n)[i] = got[i]
  BY <1>1, <1>3, <1>5, JoinFacts
<1>7. Len(Header(n)) = n
  BY <1>2, <1>4, <1>5, <1>6
<1>8. ASSUME Len(down.box) >= n, NEW i \in 1 .. n
      PROVE  Header(n)[i] = down.box[i]
  <2>1. Len(got) = n /\ Least(n, Len(down.box)) = n
    BY <1>1, <1>4, <1>8
  <2> QED
    BY <2>1, <1>1, <1>6
<1> QED
  BY <1>6, <1>7, <1>8

------------------------------------------------------------------------------
(***************************************************************************)
(* The requests.                                                           *)
(***************************************************************************)
\* remote_open and rtr_add.
LEMMA OpenRequest ==
  ASSUME NEW k \in 2 .. 3, NEW m, m = <<RMT_OPEN, 0, k>> \o Repeat(47, k)
  PROVE  IsRequest(m) /\ m[1] = RMT_OPEN
<1> DEFINE h == <<RMT_OPEN, 0, k>>
<1>1. h \in Seq(Byte) /\ Len(h) = 3 /\ h[1] = RMT_OPEN /\ h[3] = k
  BY DEF Byte, RMT_OPEN
<1>2. Repeat(47, k) \in Seq(Byte) /\ Len(Repeat(47, k)) = k
  <2>1. 47 \in Byte /\ k \in Int /\ k >= 0
    BY DEF Byte
  <2> QED
    BY <2>1, RepeatFacts
<1>3. m = h \o Repeat(47, k)
  OBVIOUS
<1> HIDE DEF h
<1>4. m \in Seq(Byte) /\ Len(m) = 3 + k /\ m[1] = h[1] /\ m[3] = h[3]
  <2>1. /\ m \in Seq(Byte) /\ Len(m) = Len(h) + Len(Repeat(47, k))
        /\ \A i \in 1 .. Len(h) : m[i] = h[i]
    BY <1>1, <1>2, <1>3, JoinFacts
  <2> QED
    BY <1>1, <1>2, <2>1
<1> QED
  BY <1>1, <1>4 DEF IsRequest

\* remote_read.
LEMMA ReadRequest ==
  ASSUME NEW n \in Counts, NEW m, m = <<RMT_READ>> \o Word(n)
  PROVE  IsRequest(m) /\ m[1] = RMT_READ
<1>1. n \in 1 .. 127
  BY RapAssumption
<1>2. Word(n) \in Seq(Byte) /\ <<RMT_READ>> \in Seq(Byte)
  BY <1>1, WordFacts DEF Byte, RMT_READ
<1>3. m \in Seq(Byte) /\ Repeat(0, 0) = <<>>
  BY <1>2, JoinFacts DEF Repeat
<1>4. m = Message(RMT_READ, n, 0, 0)
  BY <1>3, ConcatEmptySeq DEF Message
<1>5. RMT_READ \in Byte /\ 0 \in Byte /\ n \in Int /\ n \in -1 .. 127
  BY <1>1 DEF Byte, RMT_READ
<1>6. Len(m) = 5 /\ m[1] = RMT_READ /\ Length(m) = n
  <2>1. 0 \in Int
    OBVIOUS
  <2>2. IsMessage(m, RMT_READ, n, 0, 0)
    BY <1>4, <1>5, <2>1, MessageFacts
  <2> QED
    BY <1>5, <2>2 DEF IsMessage
<1> QED
  BY <1>1, <1>3, <1>6 DEF IsRequest

\* remote_write, remote_system and rtr_cmd.
LEMMA BytesRequest ==
  ASSUME NEW c \in {RMT_WRITE, RMT_SYSTEM, RMT_CMD}, NEW n \in 0 .. 127, NEW b \in Byte,
         NEW m, m = <<c>> \o Word(n) \o Repeat(b, n)
  PROVE  IsRequest(m) /\ m[1] = c
<1>1. c \in Byte /\ n \in Int /\ n >= 0 /\ n \in -1 .. 127
  BY DEF Byte, RMT_WRITE, RMT_SYSTEM, RMT_CMD
<1>2. m \in Seq(Byte) /\ Len(m) = 5 + n /\ m[1] = c /\ Length(m) = n
  <2>1. m = Message(c, n, b, n)
    BY DEF Message
  <2>2. IsMessage(m, c, n, b, n)
    BY <1>1, <2>1, MessageFacts
  <2> QED
    BY <1>1, <2>2 DEF IsMessage
<1> QED
  BY <1>2 DEF IsRequest

\* An offset is eight bytes.
LEMMA OffsetFacts ==
  ASSUME NEW o \in [1 .. 8 -> Byte]
  PROVE  o \in Seq(Byte) /\ Len(o) = 8
<1>1. o \in Seq(Byte)
  BY SeqDef
<1>2. DOMAIN o = 1 .. Len(o) /\ DOMAIN o = 1 .. 8 /\ Len(o) \in Nat
  BY <1>1, LenProperties
<1>3. 8 \in 1 .. Len(o) /\ (Len(o) > 8 => Len(o) \in 1 .. 8)
  BY <1>2
<1> QED
  BY <1>1, <1>2, <1>3

\* remote_lseek.
LEMMA SeekRequest ==
  ASSUME NEW o \in [1 .. 8 -> Byte], NEW whence \in {SEEK_SET, SEEK_END},
         NEW m, m = <<RMT_SEEK, whence>> \o o
  PROVE  IsRequest(m) /\ m[1] = RMT_SEEK /\ m[2] = whence /\ SubSeq(m, 3, 10) = o
<1> DEFINE h == <<RMT_SEEK, whence>>
<1>1. h \in Seq(Byte) /\ Len(h) = 2 /\ h[1] = RMT_SEEK /\ h[2] = whence
  BY DEF Byte, RMT_SEEK, SEEK_SET, SEEK_END
<1>2. o \in Seq(Byte) /\ Len(o) = 8
  BY OffsetFacts
<1>3. m = h \o o
  OBVIOUS
<1> HIDE DEF h
<1>4. /\ m \in Seq(Byte) /\ Len(m) = Len(h) + Len(o)
      /\ \A i \in 1 .. Len(h) : m[i] = h[i]
      /\ \A i \in 1 .. Len(o) : m[Len(h) + i] = o[i]
  <2>1. /\ h \o o \in Seq(Byte) /\ Len(h \o o) = Len(h) + Len(o)
        /\ \A i \in 1 .. Len(h) : (h \o o)[i] = h[i]
        /\ \A i \in 1 .. Len(o) : (h \o o)[Len(h) + i] = o[i]
    BY <1>1, <1>2, JoinFacts, Zenon
  <2> QED
    BY <1>3, <2>1, Zenon
<1>5. Len(m) = 10 /\ m[1] = RMT_SEEK /\ m[2] = whence /\ \A i \in 1 .. 8 : m[2 + i] = o[i]
  BY <1>1, <1>2, <1>4
<1>6. /\ SubSeq(m, 3, 10) \in Seq(Byte) /\ Len(SubSeq(m, 3, 10)) = 8
      /\ \A i \in 1 .. 8 : SubSeq(m, 3, 10)[i] = m[3 + i - 1]
  <2>1. 3 \in 1 .. Len(m) + 1 /\ 10 \in 3 - 1 .. Len(m)
    BY <1>5
  <2>2. /\ SubSeq(m, 3, 10) \in Seq(Byte) /\ Len(SubSeq(m, 3, 10)) = 10 - 3 + 1
        /\ \A i \in 1 .. 10 - 3 + 1 : SubSeq(m, 3, 10)[i] = m[3 + i - 1]
    BY <1>4, <2>1, PartFacts
  <2>3. 10 - 3 + 1 = 8
    OBVIOUS
  <2> QED
    BY <2>2, <2>3, Zenon
<1>7. \A i \in 1 .. 8 : SubSeq(m, 3, 10)[i] = o[i]
  <2> TAKE i \in 1 .. 8
  <2>1. 3 + i - 1 = 2 + i
    OBVIOUS
  <2> QED
    BY <2>1, <1>5, <1>6
<1>8. SubSeq(m, 3, 10) = o
  BY <1>2, <1>6, <1>7, SeqEqual
<1> QED
  BY <1>4, <1>5, <1>8 DEF IsRequest

------------------------------------------------------------------------------
(***************************************************************************)
(* Types.                                                                  *)
(***************************************************************************)
\* An answer of the server.
LEMMA AnswerTypes ==
  ASSUME TypeOK, NEW header \in Nat, NEW n \in Int, NEW m \in Seq(Byte), Answer(header, n, m),
         srv' \in [on : {"run", "stuck", "gone"}, fd : {-1, 3}, seek : [1 .. 8 -> Byte], block : Byte]
  PROVE  TypeOK'
<1>1. up \in Channel /\ down \in Channel
  BY DEF TypeOK, Channel
<1>2. (IF n < 0 THEN header ELSE header + n) \in Nat
  OBVIOUS
<1>3. Rest(up.box, IF n < 0 THEN header ELSE header + n) \in Seq(Byte)
  BY <1>1, <1>2, ReadFacts DEF Channel
<1>4. up' \in Channel
  BY <1>1, <1>3 DEF Answer, Channel
<1>5. down' \in Channel
  BY <1>1, SentIsChannel DEF Answer
<1>6. short' \in BOOLEAN
  BY DEF Answer, TypeOK
<1> QED
  BY <1>4, <1>5, <1>6 DEF Answer, TypeOK, Channel

\* A return of a call of the client.
LEMMA ReturnTypes ==
  ASSUME TypeOK, NEW at \in {"idle", "failed"}, NEW ret \in Nat \union {-1},
         NEW header \in Nat, NEW n \in Nat, Return(at, ret, header, n)
  PROVE  TypeOK'
<1>1. down \in Channel
  BY DEF TypeOK, Channel
<1>2. Rest(down.box, header + n) \in Seq(Byte) /\ Rest(down.box, header) \in Seq(Byte)
  BY <1>1, ReadFacts DEF Channel
<1>3. Take(Rest(down.box, header), n) \in Seq(Byte)
  BY <1>2, ReadFacts
<1>4. down' \in Channel
  BY <1>1, <1>2 DEF Return, Channel
<1>5. cl' \in [kind : {"io", "rtr"}, at : {"off", "wait", "idle", "failed", "closed"},
               req : Seq(Byte), ret : Nat \union {-1}, got : Seq(Byte)]
  BY <1>3 DEF Return, TypeOK
<1>6. short' \in BOOLEAN
  BY DEF Return, TypeOK
<1> QED
  BY <1>4, <1>5, <1>6 DEF Return, TypeOK, Channel

\* A call of the client.
LEMMA CallTypes ==
  ASSUME TypeOK, NEW kind, NEW from, NEW m, IsRequest(m), Call(kind, from, m),
         pos' \in [1 .. 8 -> Byte]
  PROVE  TypeOK' /\ Waits'
<1>1. up \in Channel /\ m \in Seq(Byte)
  BY DEF TypeOK, Channel, IsRequest
<1>2. up' \in Channel
  BY <1>1, SentIsChannel DEF Call
<1>3. cl' \in [kind : {"io", "rtr"}, at : {"off", "wait", "idle", "failed", "closed"},
               req : Seq(Byte), ret : Nat \union {-1}, got : Seq(Byte)] /\ cl'.req = m
  BY <1>1 DEF Call, TypeOK
<1>4. calls' \in 0 .. MaxCalls
  <2>1. calls \in 0 .. MaxCalls /\ calls < MaxCalls /\ calls' = calls + 1
    BY DEF Call, TypeOK
  <2> QED
    BY <2>1, RapAssumption
<1>5. wrote' \in BOOLEAN
  BY DEF Call, TypeOK
<1> QED
  BY <1>2, <1>3, <1>4, <1>5 DEF Call, TypeOK, Channel, Waits

\* A handler reads and answers bytes, whatever was sent.
LEMMA ServerTypes ==
  ASSUME TypeOK, Server
  PROVE  TypeOK'
<1> DEFINE SrvType == [on : {"run", "stuck", "gone"}, fd : {-1, 3}, seek : [1 .. 8 -> Byte], block : Byte]
<1>1. /\ srv \in SrvType
      /\ up \in Channel /\ up.box \in Seq(Byte)
  BY DEF TypeOK, Channel
<1>2. \A k \in Nat : Serving(RMT_READ, k) \/ Serving(RMT_CMD, k) \/ Serving(RMT_SYSTEM, k) \/ Serving(RMT_SEEK, k)
                       => Len(up.box) >= k
  BY DEF Serving
<1>3. ASSUME Len(up.box) >= 5
      PROVE  Value(SubSeq(up.box, 2, 5)) \in Int
  BY <1>1, <1>3, LengthFacts DEF Length
<1>4. Zero \in [1 .. 8 -> Byte] /\ MinusOne \in [1 .. 8 -> Byte] /\ Size \in [1 .. 8 -> Byte]
  BY RapAssumption DEF Zero, MinusOne, Byte
<1>5. CASE RmtOpen
  <2>1. PICK fd \in {3, -1} :
          /\ Answer(3, up.box[3], <<RMT_OPEN + RMT_REPLY>> \o Word(fd))
          /\ srv' = [srv EXCEPT !.fd = fd]
    BY <1>5 DEF RmtOpen
  <2>2. Len(up.box) >= 3
    BY <1>5 DEF RmtOpen, Serving
  <2>3. up.box[3] \in Int
    <3>1. up.box[3] \in Byte
      BY <1>1, <2>2, ElementOfSeq
    <3> QED
      BY <3>1 DEF Byte
  <2>4. Word(fd) \in Seq(Byte) /\ <<RMT_OPEN + RMT_REPLY>> \in Seq(Byte)
    BY WordFacts DEF Byte, RMT_OPEN, RMT_REPLY
  <2>5. <<RMT_OPEN + RMT_REPLY>> \o Word(fd) \in Seq(Byte)
    BY <2>4, JoinFacts
  <2>6. srv' \in SrvType
    BY <1>1, <2>1
  <2> QED
    BY <2>1, <2>3, <2>5, <2>6, AnswerTypes
<1>6. CASE RmtRead
  <2> DEFINE i == Least(Value(SubSeq(up.box, 2, 5)), BlockSize)
  <2>1. i \in Int
    BY <1>2, <1>3, <1>6, RapAssumption DEF RmtRead, Least
  <2>2. srv' \in SrvType
    <3>1. \A o : ReadAt(o) \in Byte
      BY RapAssumption DEF ReadAt, Byte
    <3>2. srv' = radare_read(srv)
      BY <1>6 DEF RmtRead
    <3> QED
      BY <1>1, <1>4, <3>1, <3>2 DEF radare_read
  <2>3. RMT_READ + RMT_REPLY \in Byte /\ srv'.block \in Byte
    BY <2>2 DEF Byte, RMT_READ, RMT_REPLY
  <2>4. Answer(5, 0, Message(RMT_READ + RMT_REPLY, i, srv'.block, i))
    BY <1>6 DEF RmtRead, Message
  <2> HIDE DEF i
  <2>5. Message(RMT_READ + RMT_REPLY, i, srv'.block, i) \in Seq(Byte)
    BY <2>1, <2>3, MessageFacts DEF IsMessage
  <2> QED
    BY <2>2, <2>4, <2>5, AnswerTypes
<1>7. ASSUME NEW c \in {RMT_CMD, RMT_SYSTEM}, NEW n \in TextLens \union {-1}, NEW k \in Int, UNCHANGED srv,
             Serving(c, 5), Answer(5, Value(SubSeq(up.box, 2, 5)), Message(c + RMT_REPLY, n, 32, k))
      PROVE  TypeOK'
  <2>1. c + RMT_REPLY \in Byte /\ 32 \in Byte /\ n \in Int
    BY RapAssumption DEF Byte, RMT_CMD, RMT_SYSTEM, RMT_REPLY
  <2>2. Message(c + RMT_REPLY, n, 32, k) \in Seq(Byte)
    BY <2>1, MessageFacts DEF IsMessage
  <2>3. Value(SubSeq(up.box, 2, 5)) \in Int
    BY <1>3, <1>7 DEF Serving
  <2> QED
    BY <1>1, <1>7, <2>2, <2>3, AnswerTypes
<1>8. CASE RmtCmd
  <2>1. PICK n \in TextLens :
          Answer(5, Value(SubSeq(up.box, 2, 5)), Message(RMT_CMD + RMT_REPLY, n, 32, n))
    BY <1>8 DEF RmtCmd, Message
  <2>2. n \in Int /\ UNCHANGED srv /\ Serving(RMT_CMD, 5)
    BY <1>8, RapAssumption DEF RmtCmd
  <2> QED
    BY <1>7, <2>1, <2>2
<1>9. CASE RmtSystem
  <2>1. PICK n \in TextLens \union {-1} :
          Answer(5, Value(SubSeq(up.box, 2, 5)),
                 Message(RMT_SYSTEM + RMT_REPLY, n, 32, IF n = -1 THEN 0 ELSE n))
    BY <1>9 DEF RmtSystem, Message
  <2>2. (IF n = -1 THEN 0 ELSE n) \in Int /\ UNCHANGED srv /\ Serving(RMT_SYSTEM, 5)
    BY <1>9, RapAssumption DEF RmtSystem
  <2> QED
    BY <1>7, <2>1, <2>2
<1>10. CASE RmtSeek
  <2> DEFINE o == io_lseek(srv, SubSeq(up.box, 3, 10), up.box[2])
  <2>1. Len(up.box) >= 10
    BY <1>10 DEF RmtSeek, Serving
  <2>2. SubSeq(up.box, 3, 10) \in [1 .. 8 -> Byte]
    <3>1. 3 \in 1 .. Len(up.box) + 1 /\ 10 \in 3 - 1 .. Len(up.box)
      BY <2>1, <1>1
    <3>2. SubSeq(up.box, 3, 10) \in Seq(Byte) /\ Len(SubSeq(up.box, 3, 10)) = 10 - 3 + 1
      BY <1>1, <3>1, PartFacts
    <3>3. Len(SubSeq(up.box, 3, 10)) = 8
      BY <3>2
    <3> QED
      BY <3>2, <3>3, LenProperties
  <2>3. o \in [1 .. 8 -> Byte]
    BY <1>4, <2>2 DEF io_lseek
  <2>4. Answer(10, 0, <<RMT_SEEK + RMT_REPLY>> \o Narrowed(o)) /\ srv' = [srv EXCEPT !.seek = o]
    BY <1>10 DEF RmtSeek
  <2> HIDE DEF o
  <2>5. Narrowed(o) \in [1 .. 8 -> Byte]
    BY <2>3 DEF Narrowed, Byte
  <2>6. Narrowed(o) \in Seq(Byte) /\ <<RMT_SEEK + RMT_REPLY>> \in Seq(Byte)
    BY <2>5, OffsetFacts DEF Byte, RMT_SEEK, RMT_REPLY
  <2>7. <<RMT_SEEK + RMT_REPLY>> \o Narrowed(o) \in Seq(Byte)
    BY <2>6, JoinFacts
  <2>8. srv' \in SrvType
    BY <1>1, <2>3, <2>4
  <2> QED
    <3>1. 10 \in Nat /\ 0 \in Int
      OBVIOUS
    <3> QED
      BY <2>4, <2>7, <2>8, <3>1, AnswerTypes
<1>11. CASE RmtWrite
  <2>1. up' \in Channel
    <3>1. up' = [up EXCEPT !.box = <<>>] /\ <<>> \in Seq(Byte)
      BY <1>11 DEF RmtWrite
    <3> QED
      BY <1>1, <3>1 DEF Channel
  <2>2. srv' \in SrvType
    BY <1>1, <1>11 DEF RmtWrite
  <2> QED
    BY <1>11, <2>1, <2>2 DEF RmtWrite, TypeOK, Channel
<1>12. CASE RmtWriteRest
  <2>1. up' \in Channel
    <3>1. up' = [up EXCEPT !.box = <<>>] /\ <<>> \in Seq(Byte)
      BY <1>12 DEF RmtWriteRest
    <3> QED
      BY <1>1, <3>1 DEF Channel
  <2>2. srv' \in SrvType
    BY <1>1, <1>12 DEF RmtWriteRest
  <2> QED
    BY <1>12, <2>1, <2>2 DEF RmtWriteRest, TypeOK, Channel
<1>13. CASE RmtEnd
  BY <1>13 DEF RmtEnd, TypeOK
<1> QED
  BY <1>5, <1>6, <1>8, <1>9, <1>10, <1>11, <1>12, <1>13 DEF Server

\* A call returns a number and bytes, whatever was read.
LEMMA ReturnsTypes ==
  ASSUME TypeOK, Waits, Returns
  PROVE  TypeOK' /\ Waits'
<1>1. cl.at = "wait" /\ cl.req \in Seq(Byte) /\ Len(cl.req) >= 5 /\ down.box \in Seq(Byte)
  BY DEF Returns, OpenReturns, BytesReturn, WriteReturns, LseekReturns, Answered, TypeOK, Waits, IsRequest
<1>2. ASSUME NEW at \in {"idle", "failed"}, NEW ret \in Nat \union {-1},
             NEW header \in Nat, NEW n \in Nat, Return(at, ret, header, n)
      PROVE  TypeOK' /\ Waits'
  <2>1. TypeOK'
    BY <1>2, ReturnTypes
  <2>2. cl'.at = at
    BY <1>2 DEF Return, TypeOK
  <2> QED
    BY <2>1, <2>2 DEF Waits
<1>3. Value(SubSeq(Header(5), 2, 5)) \in Int
  <2> DEFINE h == Header(5)
  <2>1. h \in Seq(Byte) /\ Len(h) = 5
    BY <1>1, HeaderFacts
  <2> HIDE DEF h
  <2>2. Len(h) >= 5
    BY <2>1
  <2>3. Value(SubSeq(h, 2, 5)) \in Int
    BY <2>1, <2>2, LengthFacts DEF Length
  <2> QED
    BY <2>3 DEF h
<1>4. CASE OpenReturns
  <2>1. Return("failed", -1, 5, 0) \/ Return("idle", 0, 5, 0)
    BY <1>4 DEF OpenReturns
  <2> QED
    BY <1>2, <2>1
<1>5. ASSUME NEW code \in {RMT_READ, RMT_SYSTEM, RMT_CMD}, BytesReturn(code)
      PROVE  TypeOK' /\ Waits'
  <2> DEFINE n == Value(SubSeq(Header(5), 2, 5))
  <2>1. Return("idle", -1, 5, 0) \/ (n >= 0 /\ Return("idle", n, 5, n))
    BY <1>3, <1>5 DEF BytesReturn
  <2> HIDE DEF n
  <2>2. n \in Int
    BY <1>3 DEF n
  <2> QED
    BY <1>2, <2>1, <2>2
<1>6. CASE WriteReturns
  <2>1. Return("idle", Len(cl.req), 5, 0) /\ Len(cl.req) \in Nat
    BY <1>1, <1>6 DEF WriteReturns
  <2> QED
    BY <1>2, <2>1
<1>7. CASE LseekReturns
  <2>1. Return("idle", -1, 9, 0) \/ Return("idle", 0, 1, 8)
    BY <1>7 DEF LseekReturns
  <2> QED
    BY <1>2, <2>1
<1> QED
  BY <1>4, <1>5, <1>6, <1>7 DEF Returns

------------------------------------------------------------------------------
(***************************************************************************)
(* One message at a time.                                                  *)
(***************************************************************************)
Good == OneMessage /\ ServerPlaced /\ AnswersTrue

\* Nothing is in a channel without bytes.
LEMMA EmptyFacts ==
  /\ Empty \in Channel /\ Len(Empty.box) = 0 /\ Len(Empty.wire) = 0
  /\ Empty.box = <<>> /\ Empty.wire = <<>>
  /\ \A ch \in Channel : ch.box = <<>> /\ ch.wire = <<>> => ch = Empty
  /\ \A ch \in Channel : Len(ch.box) = 0 /\ Len(ch.wire) = 0 => ch = Empty
BY DEF Empty, Channel

\* A channel that carries a message holds its code.
LEMMA CarriesFacts ==
  ASSUME NEW ch \in Channel, NEW n \in Nat, n >= 5, Carries(ch, n)
  PROVE  /\ Len(ch.box) >= 5 /\ Len(ch.box) \in Nat /\ ch # Empty /\ ch.box # <<>>
         /\ Len(ch.box) >= n => Len(ch.box) = n /\ ch.wire = <<>>
         /\ n <= 10 => Len(ch.box) = n
<1>1. Len(ch.box) \in Nat /\ Len(ch.wire) \in Nat /\ ch.wire \in Seq(Byte)
  BY DEF Channel
<1>2. Len(ch.box) >= 5 /\ (Len(ch.box) >= n => Len(ch.box) = n /\ Len(ch.wire) = 0) /\ (n <= 10 => Len(ch.box) = n)
  <2>1. ASSUME NEW a \in Nat, NEW b \in Nat, a + b = n, a >= Least(10, n)
        PROVE  a >= 5 /\ (a >= n => a = n /\ b = 0) /\ (n <= 10 => a = n)
    BY <2>1 DEF Least
  <2> QED
    BY <1>1, <2>1 DEF Carries
<1>3. Len(ch.wire) = 0 => ch.wire = <<>>
  BY <1>1
<1>4. ch # Empty /\ ch.box # <<>>
  BY <1>2, EmptyFacts
<1> QED
  BY <1>1, <1>2, <1>3, <1>4

\* The server that answers without a short read has the request of the client
\* that waits before it.
LEMMA AnswerFacts ==
  ASSUME TypeOK, Waits, OneMessage, NEW code, NEW h \in Nat \ {0}, Serving(code, h)
  PROVE  /\ cl.at = "wait" /\ IsRequest(cl.req) /\ cl.req[1] = code /\ Asking /\ srv.on = "run"
         /\ Len(up.box) >= 5 /\ up.box \in Seq(Byte) /\ Length(up.box) = Length(cl.req)
         /\ Len(cl.req) >= 10 => \A i \in 1 .. 10 : up.box[i] = cl.req[i]
         /\ \A i \in 1 .. 5 : up.box[i] = cl.req[i]
<1>1. up \in Channel /\ up.box \in Seq(Byte) /\ srv.on = "run" /\ Len(up.box) >= 1 /\ up.box[1] = code
  BY DEF TypeOK, Serving, Channel
<1>2. up # Empty
  BY <1>1, EmptyFacts
<1>3. cl.at = "wait" /\ Asking /\ IsRequest(cl.req)
  BY <1>2 DEF OneMessage, Replying, Waits
<1>4. Len(cl.req) >= 5 /\ Len(cl.req) \in Nat /\ cl.req \in Seq(Byte)
  BY <1>3 DEF IsRequest
<1>5. Len(up.box) >= 5
  BY <1>1, <1>3, <1>4, CarriesFacts DEF Asking
<1>6. /\ Len(cl.req) >= 10 => \A i \in 1 .. 10 : up.box[i] = cl.req[i]
      /\ \A i \in 1 .. 5 : up.box[i] = cl.req[i]
  BY <1>3, <1>4 DEF Asking, Least
<1>7. Length(up.box) = Length(cl.req)
  <2>1. /\ Length(up.box) = Int32(up.box[2], up.box[3], up.box[4], up.box[5])
        /\ Length(cl.req) = Int32(cl.req[2], cl.req[3], cl.req[4], cl.req[5])
    BY <1>1, <1>4, <1>5, LengthFacts
  <2>2. up.box[2] = cl.req[2] /\ up.box[3] = cl.req[3] /\ up.box[4] = cl.req[4] /\ up.box[5] = cl.req[5]
    BY <1>6
  <2> QED
    BY <2>1, <2>2
<1>8. cl.req[1] = code
  BY <1>1, <1>6
<1> QED
  BY <1>1, <1>3, <1>5, <1>6, <1>7, <1>8

\* When it has read all of the request, the reply is the only message.
LEMMA AnswerReplies ==
  ASSUME TypeOK, Asking, IsRequest(cl.req), NEW header \in Nat, NEW n \in Nat, NEW m \in Seq(Byte),
         Answer(header, n, m), header + n = Len(cl.req), ~short', Len(m) >= 5
  PROVE  /\ up' = Empty /\ down' \in Channel /\ Carries(down', Len(m)) /\ down' # Empty
         /\ \A i \in 1 .. Len(down'.box) : down'.box[i] = m[i]
         /\ \A i \in 1 .. Len(down'.wire) : down'.wire[i] = m[Len(down'.box) + i]
         /\ Len(down'.box) >= 5 /\ \A i \in 1 .. 5 : down'.box[i] = m[i]
         /\ Length(down'.box) = Length(m)
<1>1. up \in Channel /\ Len(up.box) >= header + n /\ up' = [up EXCEPT !.box = Rest(@, header + n)]
  <2>1. up \in Channel /\ Len(up.box) \in Nat
    BY DEF TypeOK, Channel
  <2>2. short' = (short \/ Len(up.box) < header + n)
    BY DEF Answer
  <2>3. up' = [up EXCEPT !.box = Rest(@, IF n < 0 THEN header ELSE header + n)]
    BY DEF Answer
  <2>4. ~(n < 0) /\ Len(up.box) >= header + n
    <3>1. ~(Len(up.box) < header + n)
      BY <2>2, Zenon
    <3> QED
      BY <2>1, <3>1
  <2> QED
    BY <2>1, <2>3, <2>4
<1>2. Carries(up, Len(cl.req)) /\ Len(cl.req) >= 5 /\ Len(cl.req) \in Nat
  BY DEF Asking, IsRequest
<1>3. Len(up.box) = header + n /\ up.wire = <<>>
  BY <1>1, <1>2, CarriesFacts
<1>4. Rest(up.box, header + n) = <<>>
  <2>1. header + n \in Nat /\ up.box \in Seq(Byte) /\ Len(up.box) <= header + n
    BY <1>1, <1>3 DEF Channel
  <2> QED
    BY <2>1, ReadAll
<1>5. up' = Empty
  BY <1>1, <1>3, <1>4 DEF Channel, Empty
<1>6. down' \in Sent(Empty, m)
  BY DEF Answer, Asking
<1>7. down' \in Channel
  BY <1>6, EmptyFacts, SentIsChannel
<1>8. /\ Carries(down', Len(m))
      /\ \A i \in 1 .. Len(down'.box) : down'.box[i] = m[i]
      /\ \A i \in 1 .. Len(down'.wire) : down'.wire[i] = m[Len(down'.box) + i]
  BY <1>6, SentFacts
<1>9. Len(down'.box) >= 5 /\ Len(down'.box) \in Nat /\ down' # Empty
  BY <1>7, <1>8, CarriesFacts
<1>10. \A i \in 1 .. 5 : down'.box[i] = m[i]
  BY <1>8, <1>9
<1>11. Length(down'.box) = Length(m)
  <2>1. /\ Length(down'.box) = Int32(down'.box[2], down'.box[3], down'.box[4], down'.box[5])
        /\ Length(m) = Int32(m[2], m[3], m[4], m[5])
    BY <1>7, <1>9, LengthFacts DEF Channel
  <2>2. down'.box[2] = m[2] /\ down'.box[3] = m[3] /\ down'.box[4] = m[4] /\ down'.box[5] = m[5]
    BY <1>10
  <2> QED
    BY <2>1, <2>2
<1> QED
  BY <1>5, <1>7, <1>8, <1>9, <1>10, <1>11

\* The invariant after an answer, from what it is about.
LEMMA AnswerGood ==
  ASSUME Good, cl.at = "wait", IsRequest(cl.req), UNCHANGED <<cl, pos>>, srv'.on = "run",
         down' # Empty, Replying',
         cl.req[1] = RMT_OPEN => srv'.seek = Zero,
         srv'.fd # -1 => srv'.seek = pos
  PROVE  Good'
<1>1. OneMessage'
  BY DEF OneMessage
<1>2. ~Moving'
  BY DEF Moving
<1>3. ServerPlaced'
  BY <1>2 DEF Good, ServerPlaced, Opening
<1>4. AnswersTrue'
  BY DEF AnswersTrue, ReadTrue, SeekTrue
<1> QED
  BY <1>1, <1>3, <1>4 DEF Good

\* The offset in a request is the same on both ends.
LEMMA TenFacts ==
  ASSUME NEW s \in Seq(Byte), NEW t \in Seq(Byte), Len(s) >= 10, Len(t) >= 10,
         \A i \in 1 .. 10 : s[i] = t[i]
  PROVE  SubSeq(s, 3, 10) = SubSeq(t, 3, 10) /\ SubSeq(t, 3, 10) \in [1 .. 8 -> Byte]
<1>1. ASSUME NEW u \in Seq(Byte), Len(u) >= 10
      PROVE  /\ SubSeq(u, 3, 10) \in Seq(Byte) /\ Len(SubSeq(u, 3, 10)) = 8
             /\ \A i \in 1 .. 8 : SubSeq(u, 3, 10)[i] = u[i + 2]
  <2>1. 3 \in 1 .. Len(u) + 1 /\ 10 \in 3 - 1 .. Len(u)
    BY <1>1
  <2>2. /\ SubSeq(u, 3, 10) \in Seq(Byte) /\ Len(SubSeq(u, 3, 10)) = 10 - 3 + 1
        /\ \A i \in 1 .. 10 - 3 + 1 : SubSeq(u, 3, 10)[i] = u[3 + i - 1]
    BY <2>1, PartFacts
  <2>3. ASSUME NEW i \in 1 .. 8
        PROVE  SubSeq(u, 3, 10)[i] = u[i + 2]
    <3>1. i \in 1 .. 10 - 3 + 1 /\ 3 + i - 1 = i + 2
      OBVIOUS
    <3> QED
      BY <2>2, <3>1
  <2>4. 10 - 3 + 1 = 8
    OBVIOUS
  <2> QED
    BY <2>2, <2>3, <2>4
<1>2. \A i \in 1 .. 8 : SubSeq(s, 3, 10)[i] = SubSeq(t, 3, 10)[i]
  BY <1>1
<1>3. SubSeq(s, 3, 10) = SubSeq(t, 3, 10)
  BY <1>1, <1>2, SeqEqual
<1> QED
  BY <1>1, <1>3, LenProperties

\* Every handler keeps the ends in step.
LEMMA ServerGood ==
  ASSUME TypeOK, Waits, Good, Server, ~short'
  PROVE  Good'
<1>1. OneMessage /\ ServerPlaced /\ srv \in [on : {"run", "stuck", "gone"}, fd : {-1, 3}, seek : [1 .. 8 -> Byte], block : Byte]
  BY DEF Good, TypeOK
<1>2. CASE RmtOpen
  <2>1. PICK fd \in {3, -1} :
          /\ Answer(3, up.box[3], <<RMT_OPEN + RMT_REPLY>> \o Word(fd))
          /\ srv' = [srv EXCEPT !.fd = fd]
    BY <1>2 DEF RmtOpen
  <2> DEFINE m == <<RMT_OPEN + RMT_REPLY>> \o Word(fd)
  <2>2. /\ cl.at = "wait" /\ IsRequest(cl.req) /\ cl.req[1] = RMT_OPEN /\ Asking /\ srv.on = "run"
        /\ up.box[3] = cl.req[3]
    BY <1>1, <1>2, AnswerFacts DEF RmtOpen
  <2>3. 3 + cl.req[3] = Len(cl.req) /\ cl.req[3] \in Nat
    <3>1. cl.req \in Seq(Byte) /\ Len(cl.req) >= 5 /\ Len(cl.req) = 3 + cl.req[3]
      BY <2>2 DEF IsRequest, RMT_OPEN, RMT_READ, RMT_WRITE, RMT_SEEK, RMT_SYSTEM, RMT_CMD
    <3>2. cl.req[3] \in Byte
      BY <3>1, ElementOfSeq
    <3>3. cl.req[3] \in Nat
      BY <3>2 DEF Byte
    <3> QED
      BY <3>1, <3>3, Zenon
  <2>4. m \in Seq(Byte) /\ Len(m) = 5 /\ m[1] = RMT_OPEN + RMT_REPLY
    <3>1. m = Message(RMT_OPEN + RMT_REPLY, fd, 0, 0)
      <4>1. Word(fd) \in Seq(Byte) /\ <<RMT_OPEN + RMT_REPLY>> \in Seq(Byte) /\ Repeat(0, 0) = <<>>
        BY WordFacts DEF Byte, RMT_OPEN, RMT_REPLY, Repeat
      <4>2. m \in Seq(Byte)
        BY <4>1, JoinFacts
      <4> QED
        BY <4>1, <4>2, ConcatEmptySeq DEF Message
    <3>2. RMT_OPEN + RMT_REPLY \in Byte /\ 0 \in Byte /\ 0 \in Int /\ fd \in Int
      BY DEF Byte, RMT_OPEN, RMT_REPLY
    <3>3. IsMessage(m, RMT_OPEN + RMT_REPLY, fd, 0, 0)
      BY <3>1, <3>2, MessageFacts
    <3> QED
      BY <3>3 DEF IsMessage
  <2> HIDE DEF m
  <2>5. Answer(3, cl.req[3], m) /\ Len(m) >= 5 /\ 3 \in Nat
    BY <2>1, <2>2, <2>4 DEF m
  <2>6. /\ up' = Empty /\ down' \in Channel /\ Carries(down', Len(m)) /\ down' # Empty
        /\ \A i \in 1 .. 5 : down'.box[i] = m[i]
    BY <2>2, <2>3, <2>4, <2>5, AnswerReplies
  <2>7. UNCHANGED <<cl, pos>>
    BY <2>5 DEF Answer
  <2>8. Replying'
    <3>1. Carries(down', 5) /\ down'.box[1] = cl.req[1] + RMT_REPLY
      BY <2>2, <2>4, <2>6
    <3> QED
      BY <2>2, <2>6, <2>7, <3>1 DEF Replying, ReplyCarried, RMT_OPEN, RMT_READ, RMT_WRITE, RMT_SEEK, RMT_SYSTEM, RMT_CMD
  <2>9. srv'.on = "run" /\ srv'.seek = Zero /\ srv'.seek = pos
    BY <1>1, <2>1, <2>2 DEF ServerPlaced, Opening
  <2> QED
    BY <2>2, <2>6, <2>7, <2>8, <2>9, AnswerGood
<1>3. CASE RmtRead
  <2> DEFINE k == Least(Length(up.box), BlockSize)
  <2> DEFINE m == Message(RMT_READ + RMT_REPLY, k, srv'.block, k)
  <2>1. Serving(RMT_READ, 5) /\ srv' = radare_read(srv) /\ Answer(5, 0, m)
    BY <1>3 DEF RmtRead, Message, Length
  <2>2. /\ cl.at = "wait" /\ IsRequest(cl.req) /\ cl.req[1] = RMT_READ /\ Asking /\ srv.on = "run"
        /\ Length(up.box) = Length(cl.req)
    BY <1>1, <2>1, AnswerFacts
  <2>3. Len(cl.req) = 5 /\ Length(cl.req) \in 0 .. 127
    BY <2>2 DEF IsRequest, RMT_OPEN, RMT_READ, RMT_WRITE, RMT_SEEK, RMT_SYSTEM, RMT_CMD
  <2>4. k \in 0 .. 127 /\ k = Least(Length(cl.req), BlockSize)
    BY <2>2, <2>3, RapAssumption DEF Least
  <2>5. srv.fd # -1 => srv.seek = pos /\ pos # MinusOne
    BY <1>1, <2>2 DEF ServerPlaced, Moving, RMT_READ, RMT_SEEK
  <2>6. /\ srv'.on = "run" /\ srv'.fd = srv.fd /\ srv'.block \in Byte
        /\ srv.fd # -1 => srv'.seek = pos /\ srv'.block = ReadAt(pos)
    <3>1. \A o : ReadAt(o) \in Byte
      BY RapAssumption DEF ReadAt, Byte
    <3> QED
      BY <1>1, <2>1, <2>2, <2>5, <3>1 DEF radare_read
  <2> HIDE DEF k
  <2>7. IsMessage(m, RMT_READ + RMT_REPLY, k, srv'.block, k)
    <3>1. RMT_READ + RMT_REPLY \in Byte /\ k \in Int
      BY <2>4 DEF Byte, RMT_READ, RMT_REPLY
    <3> QED
      BY <2>6, <3>1, MessageFacts
  <2> HIDE DEF m
  <2>8. /\ m \in Seq(Byte) /\ Len(m) = 5 + k /\ m[1] = RMT_READ + RMT_REPLY /\ Length(m) = k
        /\ \A i \in 6 .. Len(m) : m[i] = srv'.block
        /\ Len(m) >= 5
    <3>1. k >= 0 /\ k \in -1 .. 127
      BY <2>4
    <3> QED
      BY <2>7, <3>1, Zenon DEF IsMessage
  <2>9. 5 \in Nat /\ 0 \in Nat /\ 5 + 0 = Len(cl.req)
    <3>1. 5 + 0 = 5
      OBVIOUS
    <3> QED
      BY <2>3, <3>1
  <2>10. /\ up' = Empty /\ down' \in Channel /\ Carries(down', Len(m)) /\ down' # Empty
         /\ \A i \in 1 .. Len(down'.box) : down'.box[i] = m[i]
         /\ \A i \in 1 .. Len(down'.wire) : down'.wire[i] = m[Len(down'.box) + i]
         /\ Len(down'.box) >= 5 /\ \A i \in 1 .. 5 : down'.box[i] = m[i]
         /\ Length(down'.box) = Length(m)
    BY <2>1, <2>2, <2>8, <2>9, AnswerReplies
  <2>11. UNCHANGED <<cl, pos>>
    BY <2>1 DEF Answer
  <2>12. /\ Len(down'.box) + Len(down'.wire) = Len(m)
         /\ Len(down'.box) \in Nat /\ Len(down'.wire) \in Nat /\ Len(m) \in Nat
    BY <2>8, <2>10 DEF Carries, Channel
  <2>13. \A i \in 6 .. Len(down'.box) : down'.box[i] = srv'.block
    <3> TAKE i \in 6 .. Len(down'.box)
    <3>1. \A a, b, c \in Nat : a + b = c => 6 .. a \subseteq 1 .. a /\ 6 .. a \subseteq 6 .. c
      OBVIOUS
    <3>2. i \in 1 .. Len(down'.box) /\ i \in 6 .. Len(m)
      BY <2>12, <3>1
    <3> QED
      BY <2>8, <2>10, <3>2
  <2>14. \A i \in 1 .. Len(down'.wire) : down'.wire[i] = srv'.block
    <3> TAKE i \in 1 .. Len(down'.wire)
    <3>1. Len(down'.box) + i \in 6 .. Len(m)
      <4>1. \A a, b, c \in Nat : a + b = c /\ a >= 5 => \A j \in 1 .. b : a + j \in 6 .. c
        OBVIOUS
      <4> QED
        BY <2>10, <2>12, <4>1
    <3> QED
      BY <3>1, <2>8, <2>10
  <2>15. Replying'
    <3>1. down'.box[1] = cl.req[1] + RMT_REPLY
      BY <2>2, <2>8, <2>10
    <3>2. /\ Length(down'.box) = Least(Length(cl.req), BlockSize)
          /\ Carries(down', 5 + Length(down'.box))
      BY <2>4, <2>8, <2>10
    <3> QED
      BY <2>2, <2>6, <2>10, <2>11, <2>13, <2>14, <3>1, <3>2
      DEF Replying, ReplyCarried, RMT_OPEN, RMT_READ, RMT_WRITE, RMT_SEEK, RMT_SYSTEM, RMT_CMD
  <2> QED
    BY <2>2, <2>6, <2>10, <2>11, <2>15, AnswerGood DEF RMT_OPEN, RMT_READ
<1>4. ASSUME NEW c \in {RMT_CMD, RMT_SYSTEM}, NEW n \in TextLens \union {-1}, UNCHANGED srv,
             Serving(c, 5),
             Answer(5, Length(up.box), Message(c + RMT_REPLY, n, 32, IF n = -1 THEN 0 ELSE n))
      PROVE  Good'
  <2> DEFINE k == IF n = -1 THEN 0 ELSE n
  <2> DEFINE m == Message(c + RMT_REPLY, n, 32, k)
  <2>1. n \in -1 .. 127 /\ k \in 0 .. 127 /\ n \in Int /\ k \in Int
    BY RapAssumption
  <2>2. /\ cl.at = "wait" /\ IsRequest(cl.req) /\ cl.req[1] = c /\ Asking /\ srv.on = "run"
        /\ Length(up.box) = Length(cl.req)
    BY <1>1, <1>4, AnswerFacts
  <2>3. Length(cl.req) \in Nat /\ 5 + Length(cl.req) = Len(cl.req)
    BY <2>2 DEF IsRequest, RMT_OPEN, RMT_READ, RMT_WRITE, RMT_SEEK, RMT_SYSTEM, RMT_CMD
  <2> HIDE DEF k
  <2>4. IsMessage(m, c + RMT_REPLY, n, 32, k)
    <3>1. c + RMT_REPLY \in Byte /\ 32 \in Byte
      BY DEF Byte, RMT_CMD, RMT_SYSTEM, RMT_REPLY
    <3> QED
      BY <2>1, <3>1, MessageFacts
  <2>5. Answer(5, Length(cl.req), m)
    BY <1>4, <2>2 DEF k
  <2> HIDE DEF m
  <2>6. /\ m \in Seq(Byte) /\ Len(m) = 5 + k /\ m[1] = c + RMT_REPLY /\ Length(m) = n /\ Len(m) >= 5
    BY <2>1, <2>4 DEF IsMessage
  <2>7. /\ up' = Empty /\ down' \in Channel /\ Carries(down', Len(m)) /\ down' # Empty
        /\ \A i \in 1 .. 5 : down'.box[i] = m[i]
        /\ Length(down'.box) = Length(m)
    <3>1. 5 \in Nat
      OBVIOUS
    <3> QED
      BY <2>2, <2>3, <2>5, <2>6, <3>1, AnswerReplies
  <2>8. UNCHANGED <<cl, pos>>
    BY <2>5 DEF Answer
  <2>9. Replying'
    <3>1. down'.box[1] = cl.req[1] + RMT_REPLY
      BY <2>2, <2>6, <2>7
    <3>2. \/ Length(down'.box) = -1 /\ Carries(down', 5)
          \/ Length(down'.box) \in Nat /\ Carries(down', 5 + Length(down'.box))
      <4>1. CASE n = -1
        BY <4>1, <2>6, <2>7 DEF k
      <4>2. CASE n # -1
        BY <4>2, <2>1, <2>6, <2>7 DEF k
      <4> QED
        BY <4>1, <4>2
    <3> QED
      BY <2>2, <2>7, <2>8, <3>1, <3>2
      DEF Replying, ReplyCarried, RMT_OPEN, RMT_READ, RMT_WRITE, RMT_SEEK, RMT_SYSTEM, RMT_CMD
  <2>10. srv.fd # -1 => srv.seek = pos
    BY <1>1, <2>2 DEF ServerPlaced, Moving, RMT_SEEK, RMT_SYSTEM, RMT_CMD
  <2> QED
    BY <1>4, <2>2, <2>7, <2>8, <2>9, <2>10, AnswerGood DEF RMT_OPEN, RMT_SYSTEM, RMT_CMD
<1>5. CASE RmtCmd
  <2>1. PICK n \in TextLens : Answer(5, Length(up.box), Message(RMT_CMD + RMT_REPLY, n, 32, n))
    BY <1>5 DEF RmtCmd, Message, Length
  <2>2. n # -1 /\ n = (IF n = -1 THEN 0 ELSE n)
    BY RapAssumption
  <2>3. Answer(5, Length(up.box), Message(RMT_CMD + RMT_REPLY, n, 32, IF n = -1 THEN 0 ELSE n))
    BY <2>1, <2>2
  <2>4. UNCHANGED srv /\ Serving(RMT_CMD, 5)
    BY <1>5 DEF RmtCmd
  <2> QED
    BY <1>4, <2>3, <2>4
<1>6. CASE RmtSystem
  <2>1. PICK n \in TextLens \union {-1} :
          Answer(5, Length(up.box), Message(RMT_SYSTEM + RMT_REPLY, n, 32, IF n = -1 THEN 0 ELSE n))
    BY <1>6 DEF RmtSystem, Message, Length
  <2>2. UNCHANGED srv /\ Serving(RMT_SYSTEM, 5)
    BY <1>6 DEF RmtSystem
  <2> QED
    BY <1>4, <2>1, <2>2
<1>7. CASE RmtWrite
  BY <1>7 DEF RmtWrite
<1>8. CASE RmtWriteRest
  <2>1. cl.at = "closed" /\ up = Empty /\ down = Empty
    BY <1>1, <1>8 DEF RmtWriteRest, OneMessage
  <2>2. up' = Empty
    BY <1>8, <2>1 DEF RmtWriteRest, Empty
  <2>3. UNCHANGED <<cl, down, pos>> /\ srv'.fd = srv.fd /\ srv'.seek = srv.seek
    BY <1>1, <1>8 DEF RmtWriteRest
  <2> QED
    BY <1>1, <2>1, <2>2, <2>3
    DEF Good, OneMessage, ServerPlaced, Opening, Moving, AnswersTrue, ReadTrue, SeekTrue
<1>9. CASE RmtEnd
  <2>1. up = Empty /\ cl.at = "closed" /\ down = Empty
    <3>1. CASE up = Empty /\ cl.at = "closed"
      BY <1>1, <3>1 DEF OneMessage
    <3>2. CASE up.box # <<>> /\ up.box[1] \notin {RMT_OPEN, RMT_READ, RMT_WRITE, RMT_SEEK, RMT_SYSTEM, RMT_CMD}
      <4>1. up.box \in Seq(Byte) /\ Len(up.box) >= 1 /\ 1 \in Nat \ {0}
        BY <3>2 DEF TypeOK
      <4>2. Serving(up.box[1], 1)
        BY <1>9, <4>1 DEF RmtEnd, Serving
      <4>3. IsRequest(cl.req) /\ cl.req[1] = up.box[1]
        BY <1>1, <4>1, <4>2, AnswerFacts
      <4> QED
        BY <3>2, <4>3 DEF IsRequest
    <3> QED
      BY <1>9, <3>1, <3>2 DEF RmtEnd
  <2>2. UNCHANGED <<cl, up, down, pos>> /\ srv'.fd = srv.fd /\ srv'.seek = srv.seek
    BY <1>1, <1>9 DEF RmtEnd
  <2> QED
    BY <1>1, <2>1, <2>2
    DEF Good, OneMessage, ServerPlaced, Opening, Moving, AnswersTrue, ReadTrue, SeekTrue
<1>10. CASE RmtSeek
  <2> DEFINE o == io_lseek(srv, SubSeq(up.box, 3, 10), up.box[2])
  <2> DEFINE m == <<RMT_SEEK + RMT_REPLY>> \o Narrowed(o)
  <2>1. Serving(RMT_SEEK, 10) /\ srv' = [srv EXCEPT !.seek = o] /\ Answer(10, 0, m)
    BY <1>10 DEF RmtSeek
  <2>2. /\ cl.at = "wait" /\ IsRequest(cl.req) /\ cl.req[1] = RMT_SEEK /\ Asking /\ srv.on = "run"
        /\ Len(cl.req) >= 10 => \A i \in 1 .. 10 : up.box[i] = cl.req[i]
        /\ up.box \in Seq(Byte)
    BY <1>1, <2>1, AnswerFacts
  <2>3. Len(cl.req) = 10 /\ cl.req \in Seq(Byte) /\ Len(up.box) >= 10
    BY <2>1, <2>2 DEF IsRequest, Serving, RMT_OPEN, RMT_READ, RMT_WRITE, RMT_SEEK, RMT_SYSTEM, RMT_CMD
  <2>4. Len(cl.req) >= 10 /\ \A i \in 1 .. 10 : up.box[i] = cl.req[i]
    <3>1. Len(cl.req) >= 10
      <4>1. 10 >= 10
        OBVIOUS
      <4> QED
        BY <2>3, <4>1
    <3> QED
      BY <2>2, <3>1, Zenon
  <2>5. SubSeq(up.box, 3, 10) = SubSeq(cl.req, 3, 10) /\ SubSeq(cl.req, 3, 10) \in [1 .. 8 -> Byte]
    BY <2>2, <2>3, <2>4, TenFacts
  <2>6. o \in [1 .. 8 -> Byte] /\ (srv.fd # -1 => o = pos)
    <3>1. Size \in [1 .. 8 -> Byte] /\ MinusOne \in [1 .. 8 -> Byte]
      BY RapAssumption DEF MinusOne, Byte
    <3>2. pos = IF cl.req[2] = SEEK_END THEN Size ELSE SubSeq(cl.req, 3, 10)
      BY <1>1, <2>2 DEF ServerPlaced, Moving, Asking
    <3>3. up.box[2] = cl.req[2]
      BY <2>4
    <3> QED
      BY <2>5, <3>1, <3>2, <3>3 DEF io_lseek
  <2> HIDE DEF o
  <2>7. /\ m \in Seq(Byte) /\ Len(m) = 9 /\ m[1] = RMT_SEEK + RMT_REPLY
        /\ \A i \in 1 .. 8 : m[i + 1] = Narrowed(o)[i]
    <3> DEFINE t == Narrowed(o)
    <3> DEFINE h == <<RMT_SEEK + RMT_REPLY>>
    <3>1. t \in [1 .. 8 -> Byte]
      BY <2>6 DEF Narrowed, Byte
    <3>2. t \in Seq(Byte) /\ Len(t) = 8
      BY <3>1, OffsetFacts
    <3>3. h \in Seq(Byte) /\ Len(h) = 1 /\ h[1] = RMT_SEEK + RMT_REPLY
      BY DEF Byte, RMT_SEEK, RMT_REPLY
    <3> HIDE DEF t, h
    <3>4. /\ h \o t \in Seq(Byte) /\ Len(h \o t) = Len(h) + Len(t)
          /\ \A i \in 1 .. Len(h) : (h \o t)[i] = h[i]
          /\ \A i \in 1 .. Len(t) : (h \o t)[Len(h) + i] = t[i]
      BY <3>2, <3>3, JoinFacts, Zenon
    <3>5. m = h \o t
      BY DEF h, t
    <3> HIDE DEF m
    <3>6. m \in Seq(Byte) /\ Len(m) = 9 /\ m[1] = RMT_SEEK + RMT_REPLY /\ \A i \in 1 .. 8 : m[i + 1] = t[i]
      <4>1. /\ m \in Seq(Byte) /\ Len(m) = 1 + 8
            /\ \A i \in 1 .. 1 : m[i] = h[i]
            /\ \A i \in 1 .. 8 : m[1 + i] = t[i]
        BY <3>2, <3>3, <3>4, <3>5, Zenon
      <4>2. m[1] = h[1]
        BY <4>1
      <4>3. ASSUME NEW i \in 1 .. 8
            PROVE  m[i + 1] = t[i]
        <5>1. i + 1 = 1 + i
          OBVIOUS
        <5> QED
          BY <4>1, <5>1
      <4>4. 1 + 8 = 9
        OBVIOUS
      <4> QED
        BY <3>3, <4>1, <4>2, <4>3, <4>4
    <3> QED
      BY <3>6 DEF t
  <2> HIDE DEF m
  <2>8. /\ up' = Empty /\ down' \in Channel /\ Carries(down', Len(m)) /\ down' # Empty
        /\ \A i \in 1 .. Len(down'.box) : down'.box[i] = m[i]
        /\ \A i \in 1 .. 5 : down'.box[i] = m[i]
    <3>1. 10 \in Nat /\ 0 \in Nat /\ 10 + 0 = Len(cl.req) /\ Len(m) >= 5
      BY <2>3, <2>7
    <3> QED
      BY <2>1, <2>2, <2>7, <3>1, AnswerReplies
  <2>9. UNCHANGED <<cl, pos>>
    BY <2>1 DEF Answer
  <2>10. Len(down'.box) = 9
    <3>1. 9 \in Nat /\ 9 >= 5 /\ 9 <= 10 /\ Carries(down', 9)
      BY <2>7, <2>8
    <3> QED
      BY <2>8, <3>1, CarriesFacts
  <2>11. srv.fd # -1 => \A i \in 1 .. 8 : down'.box[i + 1] = Narrowed(pos)[i]
    <3>1. \A i \in 1 .. 8 : i + 1 \in 1 .. 9
      OBVIOUS
    <3>2. \A i \in 1 .. 8 : down'.box[i + 1] = m[i + 1]
      BY <2>8, <2>10, <3>1
    <3> QED
      BY <2>6, <2>7, <3>2
  <2>12. srv'.on = "run" /\ srv'.fd = srv.fd /\ srv'.seek = o
    BY <1>1, <2>1, <2>2
  <2>13. Replying'
    <3>1. down'.box[1] = cl.req[1] + RMT_REPLY /\ Carries(down', 9)
      BY <2>2, <2>7, <2>8
    <3> QED
      BY <2>2, <2>8, <2>9, <2>11, <2>12, <3>1
      DEF Replying, ReplyCarried, RMT_OPEN, RMT_READ, RMT_WRITE, RMT_SEEK, RMT_SYSTEM, RMT_CMD
  <2> QED
    BY <2>2, <2>6, <2>8, <2>9, <2>12, <2>13, AnswerGood DEF RMT_OPEN, RMT_SEEK
<1> QED
  BY <1>2, <1>3, <1>5, <1>6, <1>7, <1>8, <1>9, <1>10 DEF Server

\* A call sends its request into empty channels.
LEMMA CallGood ==
  ASSUME TypeOK, Good, NEW kind, NEW from \in {"off", "idle"}, NEW m, IsRequest(m), Call(kind, from, m),
         m[1] = RMT_OPEN <=> from = "off", pos' # MinusOne,
         m[1] = RMT_SEEK => pos' = IF m[2] = SEEK_END THEN Size ELSE SubSeq(m, 3, 10),
         m[1] # RMT_SEEK => pos' = pos
  PROVE  Good'
<1>1. cl.at = from /\ up = Empty /\ down = Empty /\ srv.on = "run"
  BY DEF Good, OneMessage, Call
<1>2. UNCHANGED <<srv, down>> /\ cl'.at = "wait" /\ cl'.req = m
  BY DEF Call, TypeOK
<1>3. m \in Seq(Byte) /\ Len(m) \in Nat /\ Len(m) >= 5
  BY DEF IsRequest
<1>4. up' \in Sent(Empty, m)
  BY <1>1 DEF Call
<1>5. Carries(up', Len(m)) /\ \A i \in 1 .. Len(up'.box) : up'.box[i] = m[i]
  BY <1>3, <1>4, SentFacts
<1>6. up' \in Channel
  BY <1>3, <1>4, EmptyFacts, SentIsChannel
<1>7. \A i \in 1 .. Least(10, Len(m)) : up'.box[i] = m[i]
  <2>1. Len(up'.box) >= Least(10, Len(m)) /\ Len(up'.box) \in Nat /\ Least(10, Len(m)) \in Nat
    BY <1>3, <1>5, <1>6 DEF Carries, Channel, Least
  <2> QED
    BY <1>5, <2>1
<1>8. Asking'
  BY <1>1, <1>2, <1>5, <1>7 DEF Asking
<1>9. OneMessage'
  BY <1>1, <1>2, <1>8 DEF OneMessage
<1>10. ServerPlaced'
  <2>1. ServerPlaced /\ ~Moving /\ (Opening <=> from = "off")
    BY <1>1 DEF Good, Moving, Opening
  <2>2. /\ Opening' <=> m[1] = RMT_OPEN
        /\ Moving' <=> m[1] = RMT_SEEK
    BY <1>1, <1>2 DEF Moving, Opening
  <2>3. RMT_OPEN # RMT_SEEK
    BY DEF RMT_OPEN, RMT_SEEK
  <2> QED
    BY <1>2, <2>1, <2>2, <2>3 DEF ServerPlaced
<1>11. AnswersTrue'
  BY <1>2 DEF AnswersTrue, ReadTrue, SeekTrue
<1> QED
  BY <1>9, <1>10, <1>11 DEF Good

\* Every operation of the client.
LEMMA ClientStep ==
  ASSUME TypeOK, Waits, ~short => Good, Client
  PROVE  TypeOK' /\ Waits' /\ (~short' => Good')
<1>1. ASSUME NEW kind, NEW from \in {"off", "idle"}, NEW m, IsRequest(m), Call(kind, from, m),
             m[1] = RMT_OPEN <=> from = "off", pos' \in [1 .. 8 -> Byte],
             ~short => pos' # MinusOne,
             m[1] = RMT_SEEK => pos' = IF m[2] = SEEK_END THEN Size ELSE SubSeq(m, 3, 10),
             m[1] # RMT_SEEK => pos' = pos
      PROVE  TypeOK' /\ Waits' /\ (~short' => Good')
  <2>1. TypeOK' /\ Waits'
    BY <1>1, CallTypes
  <2>2. short' = short
    BY <1>1 DEF Call
  <2>3. ~short => Good'
    BY <1>1, CallGood
  <2> QED
    BY <2>1, <2>2, <2>3
<1>2. pos \in [1 .. 8 -> Byte] /\ (~short => pos # MinusOne)
  BY DEF TypeOK, Good, ServerPlaced
<1>3. CASE remote_open
  <2> DEFINE m == <<RMT_OPEN, 0, 2>> \o Repeat(47, 2)
  <2>1. IsRequest(m) /\ m[1] = RMT_OPEN
    <3>1. 2 \in 2 .. 3
      OBVIOUS
    <3> QED
      BY <3>1, OpenRequest, Zenon
  <2>2. Call("io", "off", m) /\ pos' = pos
    BY <1>3 DEF remote_open
  <2> HIDE DEF m
  <2> QED
    BY <1>1, <1>2, <2>1, <2>2 DEF RMT_OPEN, RMT_SEEK
<1>4. CASE rtr_add
  <2> DEFINE m == <<RMT_OPEN, 0, 3>> \o Repeat(47, 3)
  <2>1. IsRequest(m) /\ m[1] = RMT_OPEN
    <3>1. 3 \in 2 .. 3
      OBVIOUS
    <3> QED
      BY <3>1, OpenRequest, Zenon
  <2>2. Call("rtr", "off", m) /\ pos' = pos
    BY <1>4 DEF rtr_add
  <2> HIDE DEF m
  <2> QED
    BY <1>1, <1>2, <2>1, <2>2 DEF RMT_OPEN, RMT_SEEK
<1>5. ASSUME NEW n \in Counts, remote_read(n)
      PROVE  TypeOK' /\ Waits' /\ (~short' => Good')
  <2> DEFINE m == <<RMT_READ>> \o Word(n)
  <2>1. IsRequest(m) /\ m[1] = RMT_READ
    BY ReadRequest
  <2>2. Call("io", "idle", m) /\ pos' = pos
    BY <1>5 DEF remote_read
  <2> HIDE DEF m
  <2> QED
    BY <1>1, <1>2, <2>1, <2>2 DEF RMT_OPEN, RMT_READ, RMT_SEEK
<1>6. ASSUME NEW kind, NEW c \in {RMT_WRITE, RMT_SYSTEM, RMT_CMD}, NEW n \in 0 .. 127, NEW b \in Byte,
             Call(kind, "idle", <<c>> \o Word(n) \o Repeat(b, n)), pos' = pos
      PROVE  TypeOK' /\ Waits' /\ (~short' => Good')
  <2> DEFINE m == <<c>> \o Word(n) \o Repeat(b, n)
  <2>1. IsRequest(m) /\ m[1] = c
    BY BytesRequest
  <2>2. Call(kind, "idle", m)
    BY <1>6
  <2> HIDE DEF m
  <2> QED
    BY <1>1, <1>2, <1>6, <2>1, <2>2 DEF RMT_OPEN, RMT_SEEK, RMT_WRITE, RMT_SYSTEM, RMT_CMD
<1>7. ASSUME NEW n \in Counts, remote_write(n)
      PROVE  TypeOK' /\ Waits' /\ (~short' => Good')
  <2>1. n \in 0 .. 127 /\ 0 \in Byte
    BY RapAssumption DEF Byte
  <2>2. Call("io", "idle", <<RMT_WRITE>> \o Word(n) \o Repeat(0, n)) /\ pos' = pos
    BY <1>7 DEF remote_write
  <2> QED
    BY <1>6, <2>1, <2>2, Zenon
<1>8. ASSUME NEW n \in TextLens, remote_system(n)
      PROVE  TypeOK' /\ Waits' /\ (~short' => Good')
  <2>1. n \in 0 .. 127 /\ 32 \in Byte
    BY RapAssumption DEF Byte
  <2>2. Call("io", "idle", <<RMT_SYSTEM>> \o Word(n) \o Repeat(32, n)) /\ pos' = pos
    BY <1>8 DEF remote_system
  <2> QED
    BY <1>6, <2>1, <2>2, Zenon
<1>9. ASSUME NEW n \in TextLens, rtr_cmd(n)
      PROVE  TypeOK' /\ Waits' /\ (~short' => Good')
  <2>1. n \in 0 .. 127 /\ 32 \in Byte
    BY RapAssumption DEF Byte
  <2>2. Call("rtr", "idle", <<RMT_CMD>> \o Word(n) \o Repeat(32, n)) /\ pos' = pos
    BY <1>9 DEF rtr_cmd
  <2> QED
    BY <1>6, <2>1, <2>2, Zenon
<1>10. ASSUME NEW o \in [1 .. 8 -> Byte], NEW whence \in {SEEK_SET, SEEK_END}, remote_lseek(o, whence),
              o # MinusOne
       PROVE  TypeOK' /\ Waits' /\ (~short' => Good')
  <2> DEFINE m == <<RMT_SEEK, whence>> \o o
  <2>1. IsRequest(m) /\ m[1] = RMT_SEEK /\ m[2] = whence /\ SubSeq(m, 3, 10) = o
    BY SeekRequest
  <2>2. Call("io", "idle", m) /\ pos' = IF whence = SEEK_END THEN Size ELSE o
    BY <1>10 DEF remote_lseek
  <2>3. Size \in [1 .. 8 -> Byte] /\ Size # MinusOne
    BY RapAssumption DEF Byte, MinusOne
  <2> HIDE DEF m
  <2>4. pos' \in [1 .. 8 -> Byte] /\ pos' # MinusOne
    BY <1>10, <2>2, <2>3
  <2> QED
    <3>1. RMT_SEEK # RMT_OPEN /\ "idle" # "off" /\ "idle" \in {"off", "idle"}
      BY DEF RMT_OPEN, RMT_SEEK
    <3>2. /\ m[1] = RMT_OPEN <=> "idle" = "off"
          /\ pos' = IF m[2] = SEEK_END THEN Size ELSE SubSeq(m, 3, 10)
      BY <2>1, <2>2, <3>1
    <3> QED
      BY <1>1, <2>1, <2>2, <2>4, <3>1, <3>2, Zenon
<1>11. \A o \in Offsets \union {Zero} : o \in [1 .. 8 -> Byte] /\ o # MinusOne
  <2>1. Zero \in [1 .. 8 -> Byte]
    BY DEF Zero, Byte
  <2>2. Zero[1] # MinusOne[1]
    BY DEF Zero, MinusOne
  <2> QED
    BY <2>1, <2>2, RapAssumption DEF Byte, MinusOne
<1>12. CASE remote_close
  <2>1. UNCHANGED <<srv, up, down, pos, short, wrote, calls>> /\ cl' = [cl EXCEPT !.at = "closed"] /\ cl.at = "idle"
    BY <1>12 DEF remote_close
  <2>2. cl'.at = "closed" /\ TypeOK'
    BY <2>1 DEF TypeOK
  <2>3. ASSUME ~short
        PROVE  Good'
    BY <2>1, <2>2, <2>3
    DEF Good, OneMessage, ServerPlaced, Opening, Moving, AnswersTrue, ReadTrue, SeekTrue
  <2> QED
    BY <2>1, <2>2, <2>3 DEF Waits
<1> QED
  BY <1>3, <1>4, <1>5, <1>7, <1>8, <1>9, <1>10, <1>11, <1>12 DEF Client

\* A reply that is read without a short read leaves the channels empty.
LEMMA ReturnGood ==
  ASSUME TypeOK, Good, cl.at = "wait", Replying, NEW at \in {"idle", "failed"}, NEW ret,
         NEW header \in Nat, NEW n \in Nat, Return(at, ret, header, n), ~short',
         header + n >= 5, Carries(down, header + n), AnswersTrue'
  PROVE  Good'
<1>1. down \in Channel /\ up = Empty
  BY DEF TypeOK, Channel, Replying
<1>2. down # Empty
  BY <1>1, CarriesFacts
<1>3. ~(Len(down.box) < header + n)
  BY DEF Return
<1>4. Len(down.box) = header + n /\ down.wire = <<>>
  <2>1. Len(down.box) >= header + n
    BY <1>1, <1>3 DEF Channel
  <2> QED
    BY <1>1, <2>1, CarriesFacts
<1>5. Rest(down.box, header + n) = <<>>
  <2>1. header + n \in Nat /\ down.box \in Seq(Byte) /\ Len(down.box) <= header + n
    BY <1>1, <1>4 DEF Channel
  <2> QED
    BY <2>1, ReadAll
<1>6. down' = Empty
  BY <1>1, <1>4, <1>5 DEF Return, Channel, Empty
<1>7. UNCHANGED <<srv, up, pos>> /\ cl'.at = at
  BY DEF Return, TypeOK
<1>8. OneMessage'
  BY <1>1, <1>6, <1>7 DEF Good, OneMessage
<1>9. ServerPlaced'
  BY <1>2, <1>7 DEF Good, ServerPlaced, Opening, Moving
<1> QED
  BY <1>8, <1>9 DEF Good

\* What the client gets is what follows the header.
LEMMA GotFacts ==
  ASSUME TypeOK, NEW at, NEW ret, NEW header \in Nat, NEW n \in Nat, Return(at, ret, header, n),
         Len(down.box) = header + n
  PROVE  /\ cl'.got \in Seq(Byte) /\ Len(cl'.got) = n
         /\ \A i \in 1 .. n : cl'.got[i] = down.box[header + i]
<1> DEFINE s == down.box
<1> DEFINE r == Rest(s, header)
<1>1. s \in Seq(Byte) /\ cl'.got = Take(r, n)
  BY DEF TypeOK, Return
<1>2. /\ r \in Seq(Byte) /\ Len(r) = Len(s) - Least(header, Len(s))
      /\ \A i \in 1 .. Len(s) - Least(header, Len(s)) : r[i] = s[Least(header, Len(s)) + i]
  BY <1>1, ReadFacts
<1> HIDE DEF r
<1>3. Least(header, Len(s)) = header /\ Len(s) - header = n
  BY DEF Least
<1>4. Len(r) = n /\ \A i \in 1 .. n : r[i] = s[header + i]
  BY <1>2, <1>3
<1>5. /\ Take(r, n) \in Seq(Byte) /\ Len(Take(r, n)) = Least(n, Len(r))
      /\ \A i \in 1 .. Least(n, Len(r)) : Take(r, n)[i] = r[i]
  BY <1>2, ReadFacts
<1>6. Least(n, Len(r)) = n
  BY <1>4 DEF Least
<1> QED
  BY <1>1, <1>4, <1>5, <1>6

\* The client that waits finds the reply to its request, and not refused.
LEMMA ReplyFacts ==
  ASSUME TypeOK, Waits, Good, NEW code, Answered(code)
  PROVE  /\ cl.at = "wait" /\ IsRequest(cl.req) /\ cl.req[1] = code /\ Replying
         /\ cl.req \in Seq(Byte) /\ Len(cl.req) >= 5 /\ down \in Channel
<1>1. cl.at = "wait" /\ IsRequest(cl.req) /\ cl.req[1] = code
  BY DEF Answered, Waits
<1>2. srv.on = "run" /\ (Asking \/ Replying)
  BY <1>1 DEF Good, OneMessage
<1>3. down.box # <<>>
  BY <1>2 DEF Answered
<1>4. down # Empty
  BY <1>3, EmptyFacts
<1> QED
  BY <1>1, <1>2, <1>4 DEF Asking, IsRequest, TypeOK, Channel

\* The header is not refused.
LEMMA NotRefused ==
  ASSUME TypeOK, Waits, Good, NEW code, Answered(code), NEW n \in 5 .. 9, Len(down.box) >= n, Len(cl.req) >= n
  PROVE  /\ ~Refused(code, n)
         /\ Value(SubSeq(Header(n), 2, 5)) = Length(down.box)
<1>1. cl.req[1] = code /\ Replying /\ cl.req \in Seq(Byte) /\ down.box \in Seq(Byte)
  BY ReplyFacts DEF Channel
<1> DEFINE h == Header(n)
<1>2. h \in Seq(Byte) /\ Len(h) = n /\ \A i \in 1 .. n : h[i] = down.box[i]
  BY <1>1, HeaderFacts
<1> HIDE DEF h
<1>3. h[1] = code + RMT_REPLY
  BY <1>1, <1>2 DEF Replying
<1>4. Length(h) = Length(down.box)
  <2>1. Len(h) >= 5 /\ Len(down.box) >= 5
    BY <1>1, <1>2
  <2>2. /\ Length(h) = Int32(h[2], h[3], h[4], h[5])
        /\ Length(down.box) = Int32(down.box[2], down.box[3], down.box[4], down.box[5])
    BY <1>1, <1>2, <2>1, LengthFacts
  <2>3. h[2] = down.box[2] /\ h[3] = down.box[3] /\ h[4] = down.box[4] /\ h[5] = down.box[5]
    BY <1>2
  <2> QED
    BY <2>2, <2>3
<1> QED
  BY <1>3, <1>4 DEF Refused, Length, h

\* Every return of a call keeps the ends in step and gives a true answer.
LEMMA ReturnsGood ==
  ASSUME TypeOK, Waits, Good, Returns, ~short'
  PROVE  Good'
<1>1. ASSUME NEW at, NEW ret, NEW header, NEW n, Return(at, ret, header, n),
             cl.req[1] # RMT_READ, cl.req[1] # RMT_SEEK
      PROVE  AnswersTrue'
  <2>1. cl'.req = cl.req
    BY <1>1 DEF Return, TypeOK
  <2> QED
    BY <1>1, <2>1 DEF AnswersTrue, ReadTrue, SeekTrue
<1>2. CASE OpenReturns
  <2>1. Answered(RMT_OPEN)
    BY <1>2 DEF OpenReturns
  <2>2. cl.at = "wait" /\ cl.req[1] = RMT_OPEN /\ Replying
    BY <2>1, ReplyFacts
  <2>3. Carries(down, 5)
    BY <2>2 DEF Replying, ReplyCarried
  <2>4. PICK at \in {"idle", "failed"}, ret \in {-1, 0} : Return(at, ret, 5, 0)
    BY <1>2 DEF OpenReturns
  <2>5. AnswersTrue'
    BY <1>1, <2>2, <2>4 DEF RMT_OPEN, RMT_READ, RMT_SEEK
  <2>6. 5 \in Nat /\ 0 \in Nat /\ 5 + 0 >= 5 /\ 5 + 0 = 5
    OBVIOUS
  <2> QED
    BY <2>2, <2>3, <2>4, <2>5, <2>6, ReturnGood
<1>3. ASSUME NEW code \in {RMT_READ, RMT_SYSTEM, RMT_CMD}, BytesReturn(code)
      PROVE  Good'
  <2> DEFINE n == Length(down.box)
  <2>1. Answered(code)
    BY <1>3 DEF BytesReturn
  <2>2. /\ cl.at = "wait" /\ cl.req[1] = code /\ Replying /\ IsRequest(cl.req)
        /\ cl.req \in Seq(Byte) /\ Len(cl.req) >= 5 /\ down \in Channel
    BY <2>1, ReplyFacts
  <2>3. \/ n = -1 /\ code # RMT_READ /\ Carries(down, 5)
        \/ n \in Nat /\ Carries(down, 5 + n)
    <3>1. CASE code = RMT_READ
      <4>1. Length(cl.req) \in 0 .. 127
        BY <2>2, <3>1 DEF IsRequest, RMT_OPEN, RMT_READ, RMT_WRITE, RMT_SEEK, RMT_SYSTEM, RMT_CMD
      <4>2. n = Least(Length(cl.req), BlockSize) /\ Carries(down, 5 + n)
        BY <2>2, <3>1 DEF Replying, ReplyCarried
      <4>3. n \in Nat
        BY <4>1, <4>2, RapAssumption DEF Least
      <4> QED
        BY <4>2, <4>3
    <3>2. CASE code \in {RMT_SYSTEM, RMT_CMD}
      <4>1. code # RMT_READ
        BY <3>2 DEF RMT_READ, RMT_SYSTEM, RMT_CMD
      <4> QED
        BY <2>2, <3>2, <4>1 DEF Replying, ReplyCarried
    <3> QED
      BY <3>1, <3>2
  <2> HIDE DEF n
  <2>4. Len(down.box) >= 5
    <3>1. \A x \in Nat : 5 + x \in Nat /\ 5 + x >= 5
      OBVIOUS
    <3>2. 5 \in Nat /\ 5 >= 5
      OBVIOUS
    <3> QED
      BY <2>2, <2>3, <3>1, <3>2, CarriesFacts
  <2>5. ~Refused(code, 5) /\ Value(SubSeq(Header(5), 2, 5)) = n
    BY <2>1, <2>2, <2>4, NotRefused DEF n
  <2>6. CASE n = -1
    <3>1. Return("idle", -1, 5, 0)
      BY <1>3, <2>5, <2>6 DEF BytesReturn
    <3>2. Carries(down, 5) /\ code # RMT_READ /\ code # RMT_SEEK
      BY <2>3, <2>6 DEF RMT_READ, RMT_SEEK, RMT_SYSTEM, RMT_CMD
    <3>3. AnswersTrue'
      BY <1>1, <2>2, <3>1, <3>2
    <3>4. 5 \in Nat /\ 0 \in Nat /\ 5 + 0 >= 5 /\ 5 + 0 = 5
      OBVIOUS
    <3> QED
      BY <2>2, <3>1, <3>2, <3>3, <3>4, ReturnGood
  <2>7. CASE n # -1
    <3>1. n \in Nat /\ Carries(down, 5 + n)
      BY <2>3, <2>7
    <3>2. Return("idle", n, 5, n)
      BY <1>3, <2>5, <3>1 DEF BytesReturn
    <3>3. 5 + n \in Nat /\ 5 + n >= 5 /\ 5 \in Nat
      BY <3>1
    <3>4. AnswersTrue'
      <4>1. CASE code # RMT_READ
        BY <1>1, <2>2, <3>2, <4>1 DEF RMT_READ, RMT_SEEK, RMT_SYSTEM, RMT_CMD
      <4>2. CASE code = RMT_READ
        <5>1. cl'.req = cl.req /\ UNCHANGED <<srv, pos>> /\ ~(Len(down.box) < 5 + n)
          BY <3>2 DEF Return, TypeOK
        <5>2. Len(down.box) = 5 + n
          <6>1. Len(down.box) >= 5 + n
            BY <2>2, <3>3, <5>1 DEF Channel
          <6> QED
            BY <2>2, <3>1, <3>3, <6>1, CarriesFacts
        <5>3. cl'.got \in Seq(Byte) /\ Len(cl'.got) = n /\ \A i \in 1 .. n : cl'.got[i] = down.box[5 + i]
          BY <3>1, <3>2, <3>3, <5>2, GotFacts
        <5>4. /\ n = Least(Length(cl.req), BlockSize)
              /\ \A i \in 6 .. Len(down.box) : down.box[i] = srv.block
              /\ srv.fd # -1 => srv.block = ReadAt(pos)
          BY <2>2, <4>2 DEF Replying, ReplyCarried, n
        <5>5. ASSUME srv.fd # -1
              PROVE  cl'.got = Repeat(ReadAt(pos), n)
          <6>1. ReadAt(pos) \in Byte
            BY RapAssumption DEF ReadAt, Byte
          <6>2. /\ Repeat(ReadAt(pos), n) \in Seq(Byte) /\ Len(Repeat(ReadAt(pos), n)) = n
                /\ \A i \in 1 .. n : Repeat(ReadAt(pos), n)[i] = ReadAt(pos)
            <7>1. n \in Int /\ n >= 0
              BY <3>1
            <7> QED
              BY <6>1, <7>1, RepeatFacts
          <6>3. \A i \in 1 .. n : cl'.got[i] = ReadAt(pos)
            <7> TAKE i \in 1 .. n
            <7>1. 5 + i \in 6 .. Len(down.box)
              BY <3>1, <5>2
            <7> QED
              BY <5>3, <5>4, <5>5, <7>1
          <6> QED
            BY <5>3, <6>2, <6>3, SeqEqual
        <5> QED
          BY <2>2, <4>2, <5>1, <5>4, <5>5 DEF AnswersTrue, ReadTrue, SeekTrue, Length, RMT_READ, RMT_SEEK
      <4> QED
        BY <4>1, <4>2
    <3> QED
      BY <2>2, <3>1, <3>2, <3>3, <3>4, ReturnGood
  <2> QED
    BY <2>6, <2>7
<1>4. CASE WriteReturns
  <2>1. Answered(RMT_WRITE)
    BY <1>4 DEF WriteReturns
  <2>2. cl.req[1] = RMT_WRITE /\ Replying
    BY <2>1, ReplyFacts
  <2> QED
    BY <2>2 DEF Replying, ReplyCarried
<1>5. CASE LseekReturns
  <2>1. Answered(RMT_SEEK)
    BY <1>5 DEF LseekReturns
  <2>2. /\ cl.at = "wait" /\ cl.req[1] = RMT_SEEK /\ Replying /\ IsRequest(cl.req)
        /\ cl.req \in Seq(Byte) /\ Len(cl.req) >= 5 /\ down \in Channel
    BY <2>1, ReplyFacts
  <2>3. Carries(down, 9) /\ (srv.fd # -1 => \A i \in 1 .. 8 : down.box[i + 1] = Narrowed(pos)[i])
    BY <2>2 DEF Replying, ReplyCarried
  <2>4. Len(down.box) = 9
    <3>1. 9 \in Nat /\ 9 >= 5 /\ 9 <= 10
      OBVIOUS
    <3> QED
      BY <2>2, <2>3, <3>1, CarriesFacts
  <2>5. Len(cl.req) >= 9 /\ Len(down.box) >= 9 /\ 9 \in 5 .. 9
    <3>1. Len(cl.req) = 10
      BY <2>2 DEF IsRequest, RMT_OPEN, RMT_READ, RMT_WRITE, RMT_SEEK, RMT_SYSTEM, RMT_CMD
    <3>2. 10 >= 9 /\ 9 >= 9 /\ 9 \in 5 .. 9
      OBVIOUS
    <3> QED
      BY <2>4, <3>1, <3>2
  <2>6. ~Refused(RMT_SEEK, 9)
    BY <2>1, <2>5, NotRefused
  <2>7. Return("idle", 0, 1, 8)
    BY <1>5, <2>6 DEF LseekReturns
  <2>8. 1 \in Nat /\ 8 \in Nat /\ 1 + 8 = 9 /\ 9 >= 5
    OBVIOUS
  <2>9. cl'.got \in Seq(Byte) /\ Len(cl'.got) = 8 /\ \A i \in 1 .. 8 : cl'.got[i] = down.box[1 + i]
    <3>1. Len(down.box) = 1 + 8
      BY <2>4, <2>8
    <3> QED
      BY <2>7, <2>8, <3>1, GotFacts, Zenon
  <2>10. cl'.req = cl.req /\ UNCHANGED <<srv, pos>> /\ pos \in [1 .. 8 -> Byte]
    BY <2>7 DEF Return, TypeOK
  <2>11. ASSUME srv.fd # -1, Narrowed(pos) = pos
         PROVE  cl'.got = pos
    <3>1. pos \in Seq(Byte) /\ Len(pos) = 8
      BY <2>10, OffsetFacts
    <3>2. \A i \in 1 .. 8 : cl'.got[i] = pos[i]
      <4> TAKE i \in 1 .. 8
      <4>1. 1 + i = i + 1
        OBVIOUS
      <4> QED
        BY <2>3, <2>9, <2>11, <4>1
    <3> QED
      BY <2>9, <3>1, <3>2, SeqEqual
  <2>12. AnswersTrue'
    <3>1. Narrowed(pos)' = Narrowed(pos)
      BY <2>10
    <3> QED
      BY <2>2, <2>10, <2>11, <3>1 DEF AnswersTrue, ReadTrue, SeekTrue, RMT_READ, RMT_SEEK
  <2> QED
    BY <2>2, <2>3, <2>7, <2>8, <2>12, ReturnGood
<1> QED
  BY <1>2, <1>3, <1>4, <1>5 DEF Returns

\* A reply has a header.
LEMMA ReplyLength ==
  ASSUME down \in Channel, Replying, IsRequest(cl.req)
  PROVE  Len(down.box) >= 5
<1>1. 5 \in Nat /\ 9 \in Nat /\ 5 >= 5 /\ 9 >= 5
  OBVIOUS
<1>2. CASE cl.req[1] = RMT_OPEN
  BY <1>1, <1>2, CarriesFacts DEF Replying, ReplyCarried
<1>3. CASE cl.req[1] = RMT_SEEK
  BY <1>1, <1>3, CarriesFacts DEF Replying, ReplyCarried
<1>4. ASSUME Length(down.box) \in Nat, Carries(down, 5 + Length(down.box))
      PROVE  Len(down.box) >= 5
  <2>1. 5 + Length(down.box) \in Nat /\ 5 + Length(down.box) >= 5
    BY <1>4
  <2> QED
    BY <1>4, <2>1, CarriesFacts
<1>5. CASE cl.req[1] = RMT_READ
  <2>1. Length(cl.req) \in 0 .. 127
    BY <1>5 DEF IsRequest, RMT_OPEN, RMT_READ, RMT_WRITE, RMT_SEEK, RMT_SYSTEM, RMT_CMD
  <2>2. Length(down.box) = Least(Length(cl.req), BlockSize) /\ Carries(down, 5 + Length(down.box))
    BY <1>5 DEF Replying, ReplyCarried
  <2>3. Length(down.box) \in Nat
    BY <2>1, <2>2, RapAssumption DEF Least
  <2> QED
    BY <1>4, <2>2, <2>3
<1>6. CASE cl.req[1] \in {RMT_SYSTEM, RMT_CMD}
  <2>1. \/ Carries(down, 5)
        \/ Length(down.box) \in Nat /\ Carries(down, 5 + Length(down.box))
    BY <1>6 DEF Replying, ReplyCarried
  <2>2. Carries(down, 5) => Len(down.box) >= 5
    BY <1>1, CarriesFacts
  <2> QED
    BY <1>4, <2>1, <2>2
<1>7. CASE cl.req[1] = RMT_WRITE
  BY <1>7 DEF Replying, ReplyCarried
<1> QED
  BY <1>2, <1>3, <1>5, <1>6, <1>7 DEF IsRequest

\* The second piece of a message arrives.
LEMMA ArriveStep ==
  ASSUME TypeOK, Waits, ~short => Good, Arrive
  PROVE  TypeOK' /\ Waits' /\ (~short' => Good')
<1>1. up \in Channel /\ down \in Channel
  BY DEF TypeOK, Channel
<1>2. ASSUME NEW ch \in Channel
      PROVE  /\ ch.box \o ch.wire \in Seq(Byte) /\ Len(ch.box \o ch.wire) = Len(ch.box) + Len(ch.wire)
             /\ \A i \in 1 .. Len(ch.box) : (ch.box \o ch.wire)[i] = ch.box[i]
             /\ \A i \in 1 .. Len(ch.wire) : (ch.box \o ch.wire)[Len(ch.box) + i] = ch.wire[i]
             /\ Len(ch.box) \in Nat /\ Len(ch.wire) \in Nat
  <2>1. ch.box \in Seq(Byte) /\ ch.wire \in Seq(Byte)
    BY DEF Channel
  <2> QED
    BY <2>1, JoinFacts, LenProperties
<1>3. ASSUME NEW ch \in Channel, NEW c, c = [box |-> ch.box \o ch.wire, wire |-> <<>>],
             NEW n \in Nat, Carries(ch, n)
      PROVE  Carries(c, n)
  <2>1. Len(c.box) = Len(ch.box) + Len(ch.wire) /\ Len(c.wire) = 0
    BY <1>2, <1>3
  <2> QED
    <3>1. \A a, b \in Nat : a + b = n /\ a >= Least(10, n) => (a + b) + 0 = n /\ a + b >= Least(10, n)
      BY DEF Least
    <3>2. Len(ch.box) + Len(ch.wire) = n /\ Len(ch.box) >= Least(10, n) /\ Len(ch.box) \in Nat /\ Len(ch.wire) \in Nat
      BY <1>2, <1>3 DEF Carries
    <3>3. /\ (Len(ch.box) + Len(ch.wire)) + 0 = n
          /\ Len(ch.box) + Len(ch.wire) >= Least(10, n)
      BY <3>1, <3>2
    <3> QED
      BY <2>1, <3>3, Zenon DEF Carries
<1>4. CASE /\ up.wire # <<>>
           /\ up' = [box |-> up.box \o up.wire, wire |-> <<>>]
           /\ UNCHANGED <<cl, srv, down, pos, short, wrote, calls>>
  <2>1. up' \in Channel
    BY <1>1, <1>2, <1>4 DEF Channel
  <2>2. TypeOK' /\ Waits'
    BY <1>4, <2>1 DEF TypeOK, Waits, Channel
  <2>3. ASSUME ~short
        PROVE  Good'
    <3>1. cl.at = "wait" /\ Asking /\ srv.on = "run" /\ cl.req \in Seq(Byte) /\ Len(cl.req) >= 5
      BY <1>4, <2>3, EmptyFacts DEF Good, OneMessage, Replying, Waits, IsRequest
    <3>2. Carries(up', Len(cl.req))
      <4>1. Len(cl.req) \in Nat /\ Carries(up, Len(cl.req))
        BY <3>1 DEF Asking
      <4> QED
        BY <1>1, <1>3, <1>4, <4>1
    <3>3. \A i \in 1 .. Least(10, Len(cl.req)) : up'.box[i] = cl.req[i]
      <4> TAKE i \in 1 .. Least(10, Len(cl.req))
      <4>1. Len(up.box) \in Nat /\ Least(10, Len(cl.req)) \in Nat /\ Len(up.box) >= Least(10, Len(cl.req))
        BY <1>1, <1>2, <3>1 DEF Asking, Carries, Least
      <4>2. i \in 1 .. Len(up.box)
        BY <4>1
      <4>3. up'.box[i] = up.box[i]
        BY <1>1, <1>2, <1>4, <4>2
      <4> QED
        BY <3>1, <4>3 DEF Asking
    <3>4. Asking'
      BY <1>4, <3>1, <3>2, <3>3 DEF Asking
    <3>5. OneMessage'
      BY <1>4, <3>1, <3>4 DEF OneMessage
    <3>6. ServerPlaced' /\ AnswersTrue'
      BY <1>4, <2>3, <3>1 DEF Good, ServerPlaced, Opening, Moving, AnswersTrue, ReadTrue, SeekTrue
    <3> QED
      BY <3>5, <3>6 DEF Good
  <2> QED
    BY <1>4, <2>2, <2>3
<1>5. CASE /\ down.wire # <<>>
           /\ down' = [box |-> down.box \o down.wire, wire |-> <<>>]
           /\ UNCHANGED <<cl, srv, up, pos, short, wrote, calls>>
  <2>1. down' \in Channel
    BY <1>1, <1>2, <1>5 DEF Channel
  <2>2. TypeOK' /\ Waits'
    BY <1>5, <2>1 DEF TypeOK, Waits, Channel
  <2>3. ASSUME ~short
        PROVE  Good'
    <3>1. /\ cl.at = "wait" /\ Replying /\ srv.on = "run" /\ cl.req \in Seq(Byte) /\ Len(cl.req) >= 5
          /\ down # Empty /\ IsRequest(cl.req)
      BY <1>5, <2>3, EmptyFacts DEF Good, OneMessage, Asking, Waits, IsRequest
    <3>2. Len(down.box) >= 5
      BY <1>1, <3>1, ReplyLength
    <3>3. /\ Len(down'.box) = Len(down.box) + Len(down.wire)
          /\ \A i \in 1 .. Len(down.box) : down'.box[i] = down.box[i]
          /\ \A i \in 1 .. Len(down.wire) : down'.box[Len(down.box) + i] = down.wire[i]
          /\ Len(down'.wire) = 0 /\ Len(down.box) \in Nat /\ Len(down.wire) \in Nat
      BY <1>1, <1>2, <1>5
    <3>4. \A i \in 1 .. 5 : down'.box[i] = down.box[i]
      BY <3>2, <3>3
    <3>5. Length(down'.box) = Length(down.box) /\ Length(down.box) \in Int
      <4>1. Len(down'.box) >= 5 /\ down'.box \in Seq(Byte) /\ down.box \in Seq(Byte)
        BY <1>1, <2>1, <3>2, <3>3 DEF Channel
      <4>2. /\ Length(down'.box) = Int32(down'.box[2], down'.box[3], down'.box[4], down'.box[5])
            /\ Length(down.box) = Int32(down.box[2], down.box[3], down.box[4], down.box[5])
            /\ Length(down.box) \in Int
        BY <3>2, <4>1, LengthFacts
      <4>3. /\ down'.box[2] = down.box[2] /\ down'.box[3] = down.box[3]
            /\ down'.box[4] = down.box[4] /\ down'.box[5] = down.box[5]
        BY <3>4
      <4> QED
        BY <4>2, <4>3
    <3>6. ASSUME NEW n \in Nat, Carries(down, n)
          PROVE  Carries(down', n)
      BY <1>1, <1>3, <1>5, <3>6
    <3>7. ReplyCarried /\ UNCHANGED <<cl, srv, pos>>
      BY <1>5, <3>1 DEF Replying
    <3>8. ReplyCarried'
      <4>1. cl.req[1] = RMT_OPEN => Carries(down', 5)
        BY <3>6, <3>7 DEF ReplyCarried
      <4>2. ASSUME cl.req[1] = RMT_READ
            PROVE  /\ Length(down'.box) = Least(Length(cl.req), BlockSize)
                   /\ Carries(down', 5 + Length(down'.box))
                   /\ \A i \in 6 .. Len(down'.box) : down'.box[i] = srv.block
                   /\ \A i \in 1 .. Len(down'.wire) : down'.wire[i] = srv.block
                   /\ srv.fd # -1 => srv.block = ReadAt(pos)
        <5>1. /\ Length(down.box) = Least(Length(cl.req), BlockSize)
              /\ Carries(down, 5 + Length(down.box))
              /\ \A i \in 6 .. Len(down.box) : down.box[i] = srv.block
              /\ \A i \in 1 .. Len(down.wire) : down.wire[i] = srv.block
              /\ srv.fd # -1 => srv.block = ReadAt(pos)
          BY <3>7, <4>2 DEF ReplyCarried
        <5>2. 5 + Length(down.box) \in Nat
          <6>1. Length(cl.req) \in 0 .. 127
            BY <3>1, <4>2 DEF IsRequest, RMT_OPEN, RMT_READ, RMT_WRITE, RMT_SEEK, RMT_SYSTEM, RMT_CMD
          <6>2. \A x \in 0 .. 127 : Least(x, BlockSize) \in Nat
            BY RapAssumption DEF Least
          <6>3. Length(down.box) \in Nat
            BY <5>1, <6>1, <6>2
          <6> QED
            BY <6>3
        <5>3. Carries(down', 5 + Length(down'.box))
          BY <3>5, <3>6, <5>1, <5>2
        <5>4. ASSUME NEW i \in 6 .. Len(down'.box)
              PROVE  down'.box[i] = srv.block
          <6>1. CASE i <= Len(down.box)
            <7>1. i \in 6 .. Len(down.box) /\ i \in 1 .. Len(down.box)
              BY <3>3, <6>1
            <7> QED
              BY <3>3, <5>1, <7>1
          <6>2. CASE ~(i <= Len(down.box))
            <7>1. i - Len(down.box) \in 1 .. Len(down.wire) /\ Len(down.box) + (i - Len(down.box)) = i
              <8>1. \A a, b \in Nat : \A j \in 6 .. a + b : ~(j <= a) => j - a \in 1 .. b /\ a + (j - a) = j
                OBVIOUS
              <8>2. i \in 6 .. Len(down.box) + Len(down.wire)
                BY <3>3
              <8> QED
                BY <3>3, <6>2, <8>1, <8>2
            <7> QED
              BY <3>3, <5>1, <7>1
          <6> QED
            BY <6>1, <6>2
        <5>5. \A i \in 1 .. Len(down'.wire) : down'.wire[i] = srv.block
          BY <3>3
        <5> QED
          BY <3>5, <5>1, <5>3, <5>4, <5>5
      <4>3. ASSUME cl.req[1] = RMT_SEEK
            PROVE  /\ Carries(down', 9)
                   /\ srv.fd # -1 => \A i \in 1 .. 8 : down'.box[i + 1] = Narrowed(pos)[i]
        <5>1. Carries(down, 9) /\ (srv.fd # -1 => \A i \in 1 .. 8 : down.box[i + 1] = Narrowed(pos)[i])
          BY <3>7, <4>3 DEF ReplyCarried
        <5>2. 9 \in Nat /\ 9 >= 5 /\ 9 <= 10
          OBVIOUS
        <5>3. Len(down.box) = 9
          BY <1>1, <5>1, <5>2, CarriesFacts
        <5>4. \A i \in 1 .. 8 : down'.box[i + 1] = down.box[i + 1]
          <6> TAKE i \in 1 .. 8
          <6>1. i + 1 \in 1 .. Len(down.box)
            BY <5>3
          <6> QED
            BY <3>3, <6>1
        <5> QED
          BY <3>6, <5>1, <5>2, <5>4
      <4>4. ASSUME cl.req[1] \in {RMT_SYSTEM, RMT_CMD}
            PROVE  \/ Length(down'.box) = -1 /\ Carries(down', 5)
                   \/ Length(down'.box) \in Nat /\ Carries(down', 5 + Length(down'.box))
        <5>1. \/ Length(down.box) = -1 /\ Carries(down, 5)
              \/ Length(down.box) \in Nat /\ Carries(down, 5 + Length(down.box))
          BY <3>7, <4>4 DEF ReplyCarried
        <5> QED
          BY <3>5, <3>6, <5>1
      <4> QED
        BY <3>7, <4>1, <4>2, <4>3, <4>4 DEF ReplyCarried
    <3>9. Replying'
      <4>1. down'.box[1] = down.box[1]
        BY <3>4
      <4> QED
        BY <1>5, <3>1, <3>8, <4>1 DEF Replying
    <3>10. down' # Empty
      <4>1. Len(down'.box) # 0
        <5>1. \A a, b \in Nat : a >= 5 => a + b # 0
          OBVIOUS
        <5> QED
          BY <3>2, <3>3, <5>1
      <4> QED
        BY <4>1, EmptyFacts
    <3>11. Good /\ srv.fd # -1 => srv.seek = pos
      BY <3>1 DEF Good, ServerPlaced, Moving
    <3>12. cl.req[1] = RMT_OPEN => srv.seek = Zero
      BY <2>3, <3>1 DEF Good, ServerPlaced, Opening
    <3> QED
      BY <2>3, <3>1, <3>7, <3>9, <3>10, <3>11, <3>12, AnswerGood
  <2> QED
    BY <1>5, <2>2, <2>3
<1> QED
  BY <1>4, <1>5 DEF Arrive

------------------------------------------------------------------------------
(***************************************************************************)
(* The theorems.                                                           *)
(***************************************************************************)
\* The invariant holds of every behaviour: a handler or a return that reads
\* nothing short consumes exactly one message and leaves none or one.
THEOREM RapInvariant == Spec => []RapInv
<1>1. Init => RapInv
  <2> SUFFICES ASSUME Init PROVE RapInv
    OBVIOUS
  <2>1. TypeOK
    <3>1. Zero \in [1 .. 8 -> Byte] /\ <<0>> \in Seq(Byte) /\ <<>> \in Seq(Byte) /\ 255 \in Byte
      BY DEF Zero, Byte
    <3>2. /\ cl \in [kind : {"io", "rtr"}, at : {"off", "wait", "idle", "failed", "closed"},
                     req : Seq(Byte), ret : Nat \union {-1}, got : Seq(Byte)]
          /\ srv \in [on : {"run", "stuck", "gone"}, fd : {-1, 3}, seek : [1 .. 8 -> Byte], block : Byte]
      BY <3>1 DEF Init
    <3>3. up \in Channel /\ down \in Channel
      BY EmptyFacts DEF Init
    <3>4. calls = 0 /\ 0 \in 0 .. MaxCalls
      BY RapAssumption DEF Init
    <3>5. pos \in [1 .. 8 -> Byte] /\ short \in BOOLEAN /\ wrote \in BOOLEAN
      BY <3>1 DEF Init
    <3> QED
      BY <3>2, <3>3, <3>4, <3>5 DEF TypeOK, Channel
  <2>2. Waits /\ cl.at = "off"
    BY DEF Init, Waits
  <2>3. Zero # MinusOne
    <3>1. Zero[1] # MinusOne[1]
      BY DEF Zero, MinusOne
    <3> QED
      BY <3>1
  <2>4. OneMessage /\ AnswersTrue
    BY <2>2 DEF Init, OneMessage, AnswersTrue, ReadTrue, SeekTrue
  <2>5. ServerPlaced
    BY <2>2, <2>3 DEF Init, ServerPlaced, Moving
  <2> QED
    BY <2>1, <2>2, <2>4, <2>5 DEF RapInv
<1>2. RapInv /\ [Next]_vars => RapInv'
  <2> SUFFICES ASSUME RapInv, [Next]_vars PROVE RapInv'
    OBVIOUS
  <2>1. TypeOK /\ Waits /\ (~short => Good)
    BY DEF RapInv, Good
  <2> SUFFICES TypeOK' /\ Waits' /\ (~short' => Good')
    BY DEF RapInv, Good
  <2>2. CASE Client
    BY <2>1, <2>2, ClientStep
  <2>3. CASE Arrive
    BY <2>1, <2>3, ArriveStep
  <2>4. CASE Returns
    <3>1. short => short'
      BY <2>4 DEF Returns, OpenReturns, BytesReturn, WriteReturns, LseekReturns, Return
    <3> QED
      BY <2>1, <2>4, <3>1, ReturnsTypes, ReturnsGood
  <2>5. CASE Server
    <3>1. short => short'
      BY <2>5 DEF Server, RmtOpen, RmtRead, RmtCmd, RmtWrite, RmtWriteRest, RmtSeek, RmtSystem, RmtEnd, Answer
    <3>2. cl' = cl
      BY <2>5 DEF Server, RmtOpen, RmtRead, RmtCmd, RmtWrite, RmtWriteRest, RmtSeek, RmtSystem, RmtEnd, Answer
    <3>3. Waits'
      BY <2>1, <3>2 DEF Waits
    <3> QED
      BY <2>1, <2>5, <3>1, <3>3, ServerTypes, ServerGood
  <2>6. CASE UNCHANGED vars
    BY <2>1, <2>6 DEF vars, TypeOK, Waits, Good, OneMessage, Asking, Replying, ReplyCarried, ServerPlaced,
                      Opening, Moving, AnswersTrue, ReadTrue, SeekTrue
  <2> QED
    BY <2>2, <2>3, <2>4, <2>5, <2>6 DEF Next
<1> QED
  BY <1>1, <1>2, PTL DEF Spec

\* Only bytes travel, and while no read came back short a client that does not
\* wait has nothing left to read and one that waits finds the reply to its own
\* request: for every block size, every set of lengths and every way TCP may
\* split a message of ten bytes or more.
THEOREM EndsInStep == Spec => []InStep
<1>1. RapInv => InStep
  <2> SUFFICES ASSUME RapInv PROVE InStep
    OBVIOUS
  <2>1. TypeOK
    BY DEF RapInv
  <2>2. ASSUME ~short
        PROVE  /\ cl.at # "wait" => down = Empty
               /\ down.box # <<>> => down.box[1] = cl.req[1] + RMT_REPLY
    <3>1. OneMessage
      BY <2>2 DEF RapInv
    <3> QED
      BY <3>1, EmptyFacts DEF OneMessage, Asking, Replying
  <2> QED
    BY <2>1, <2>2 DEF InStep
<1> QED
  BY <1>1, RapInvariant, PTL

\* What remote_read returns is the file at the offset the client asked for
\* last, and what remote_lseek returns is that offset if it fits an int.
THEOREM AnswersCorrect == Spec => []AnswersTrue
<1>1. RapInv => AnswersTrue
  <2> SUFFICES ASSUME RapInv PROVE AnswersTrue
    OBVIOUS
  <2>1. CASE ~short
    BY <2>1 DEF RapInv
  <2>2. CASE short
    BY <2>2 DEF AnswersTrue, ReadTrue, SeekTrue
  <2> QED
    BY <2>1, <2>2
<1> QED
  BY <1>1, RapInvariant, PTL

==============================================================================
