------------------------ MODULE CommandSession_proofs ------------------------
(***************************************************************************)
(* tcp::Buffer is a queue of bytes, for any sizes: append and readFd put   *)
(* bytes at its end, retrieve takes them from its front, and none of its   *)
(* assertions can fail.  The lemmas are about sequences first, about the   *)
(* operators of Buffer after that.                                         *)
(*                                                                         *)
(* On top of that, one pull over its TCP connection: SessionInv is         *)
(* inductive, and StreamIntact, WholeFrames and RawThisSafe follow from    *)
(* it.  Its parts: what waits in which loop and in which order (Ordered),  *)
(* the connection from newConnection to ~TcpConnection (Life), the pull    *)
(* from the request to completeTask's sends (Work), the CLI (Client), and  *)
(* the two byte streams (Request, Response), of which Given says how much  *)
(* of the response sendInLoop has been given.                              *)
(***************************************************************************)
EXTENDS CommandSession, TLAPS

\* A slice of a sequence, element by element.
LEMMA Slice ==
  ASSUME NEW s \in Seq(Byte), NEW a \in Nat, NEW z \in Nat, a <= z, z <= Len(s)
  PROVE  /\ SubSeq(s, a + 1, z) \in Seq(Byte)
         /\ Len(SubSeq(s, a + 1, z)) = z - a
         /\ \A i \in 1 .. z - a : SubSeq(s, a + 1, z)[i] = s[a + i]
  BY SMT

\* A concatenation, element by element.
LEMMA Cat ==
  ASSUME NEW s \in Seq(Byte), NEW t \in Seq(Byte)
  PROVE  /\ s \o t \in Seq(Byte) /\ Len(s \o t) = Len(s) + Len(t)
         /\ \A i \in 1 .. Len(s) : (s \o t)[i] = s[i]
         /\ \A i \in 1 .. Len(t) : (s \o t)[Len(s) + i] = t[i]
  BY SMT

\* Sequences with the same elements are the same.
LEMMA Same ==
  ASSUME NEW s \in Seq(Byte), NEW t \in Seq(Byte), Len(s) = Len(t),
         \A i \in 1 .. Len(s) : s[i] = t[i]
  PROVE  s = t
  BY SMT

\* std::copy writes the bytes it is given and leaves the others alone.
LEMMA CopyToBytes ==
  ASSUME NEW v \in Seq(Byte), NEW at \in Nat, NEW s \in Seq(Byte),
         at + Len(s) <= Len(v)
  PROVE  /\ CopyTo(v, at, s) \in Seq(Byte) /\ Len(CopyTo(v, at, s)) = Len(v)
         /\ \A i \in 1 .. at : CopyTo(v, at, s)[i] = v[i]
         /\ \A i \in 1 .. Len(s) : CopyTo(v, at, s)[at + i] = s[i]
  <1> DEFINE l == SubSeq(v, 0 + 1, at)
             r == SubSeq(v, (at + Len(s)) + 1, Len(v))
  <1>0. Len(s) \in Nat /\ Len(v) \in Nat
    BY SMT
  <1>1. /\ l \in Seq(Byte) /\ Len(l) = at
        /\ \A i \in 1 .. at : l[i] = v[i]
    <2>1. /\ l \in Seq(Byte) /\ Len(l) = at - 0
          /\ \A i \in 1 .. at - 0 : l[i] = v[0 + i]
      BY <1>0, Slice
    <2> QED
      BY <2>1
  <1>2. r \in Seq(Byte) /\ Len(r) = Len(v) - (at + Len(s))
    BY <1>0, Slice
  <1> HIDE DEF l, r
  <1> DEFINE m == l \o s
  <1>3. /\ m \in Seq(Byte) /\ Len(m) = at + Len(s)
        /\ \A i \in 1 .. at : m[i] = v[i]
        /\ \A i \in 1 .. Len(s) : m[at + i] = s[i]
    <2>1. /\ l \o s \in Seq(Byte) /\ Len(l \o s) = Len(l) + Len(s)
          /\ \A i \in 1 .. Len(l) : (l \o s)[i] = l[i]
          /\ \A i \in 1 .. Len(s) : (l \o s)[Len(l) + i] = s[i]
      BY <1>1, Cat
    <2> QED
      BY <1>1, <2>1
  <1> HIDE DEF m
  <1>4. /\ m \o r \in Seq(Byte) /\ Len(m \o r) = Len(m) + Len(r)
        /\ \A i \in 1 .. Len(m) : (m \o r)[i] = m[i]
    BY <1>2, <1>3, Cat
  <1> DEFINE u == m \o r
  <1>5. CopyTo(v, at, s) = u
    BY DEF CopyTo, u, m, l, r
  <1>6. u \in Seq(Byte) /\ Len(u) = Len(v)
    BY <1>0, <1>2, <1>3, <1>4
  <1>7. \A i \in 1 .. at + Len(s) : u[i] = m[i]
    BY <1>3, <1>4
  <1> HIDE DEF u
  <1>8. \A i \in 1 .. at : u[i] = v[i]
    BY <1>0, <1>3, <1>7
  <1>9. \A i \in 1 .. Len(s) : u[at + i] = s[i]
    BY <1>0, <1>3, <1>7
  <1> QED
    BY <1>5, <1>6, <1>8, <1>9

\* A slice that ends with what was just copied.
LEMMA SliceOfCopy ==
  ASSUME NEW v \in Seq(Byte), NEW a \in Nat, NEW at \in Nat, NEW s \in Seq(Byte),
         a <= at, at + Len(s) <= Len(v)
  PROVE  SubSeq(CopyTo(v, at, s), a + 1, at + Len(s)) = SubSeq(v, a + 1, at) \o s
  <1> DEFINE u == CopyTo(v, at, s)
             x == SubSeq(u, a + 1, at + Len(s))
             y == SubSeq(v, a + 1, at)
  <1>0. Len(s) \in Nat /\ Len(v) \in Nat
    BY SMT
  <1>1. /\ u \in Seq(Byte) /\ Len(u) = Len(v)
        /\ \A i \in 1 .. at : u[i] = v[i]
        /\ \A i \in 1 .. Len(s) : u[at + i] = s[i]
    BY CopyToBytes
  <1> HIDE DEF u
  <1>2. /\ x \in Seq(Byte) /\ Len(x) = (at + Len(s)) - a
        /\ \A i \in 1 .. (at + Len(s)) - a : x[i] = u[a + i]
    BY <1>0, <1>1, Slice
  <1>3. /\ y \in Seq(Byte) /\ Len(y) = at - a
        /\ \A i \in 1 .. at - a : y[i] = v[a + i]
    BY <1>0, Slice
  <1> HIDE DEF x, y
  <1>4. /\ y \o s \in Seq(Byte) /\ Len(y \o s) = Len(y) + Len(s)
        /\ \A i \in 1 .. Len(y) : (y \o s)[i] = y[i]
        /\ \A i \in 1 .. Len(s) : (y \o s)[Len(y) + i] = s[i]
    BY <1>3, Cat
  <1> DEFINE c == y \o s
  <1> HIDE DEF c
  <1>5. ASSUME NEW i \in 1 .. Len(x) PROVE x[i] = c[i]
    <2>1. CASE i <= at - a
      <3>1. x[i] = v[a + i]
        BY <1>0, <1>1, <1>2, <1>5, <2>1
      <3>2. c[i] = v[a + i]
        BY <1>0, <1>3, <1>4, <1>5, <2>1 DEF c
      <3> QED
        BY <3>1, <3>2
    <2>2. CASE i > at - a
      <3> DEFINE j == i - (at - a)
      <3>1. j \in 1 .. Len(s) /\ a + i = at + j /\ i = Len(y) + j
        BY <1>0, <1>2, <1>3, <1>5, <2>2
      <3> HIDE DEF j
      <3>2. x[i] = s[j]
        BY <1>0, <1>1, <1>2, <1>5, <3>1
      <3>3. c[i] = s[j]
        BY <1>4, <3>1 DEF c
      <3> QED
        BY <3>2, <3>3
    <2> QED
      BY <1>0, <1>2, <2>1, <2>2
  <1>7. x \in Seq(Byte) /\ c \in Seq(Byte) /\ Len(x) = Len(c)
    BY <1>0, <1>2, <1>3, <1>4 DEF c
  <1>6. x = c
    BY <1>5, <1>7, Same
  <1> QED
    BY <1>6 DEF c, x, y, u
-----------------------------------------------------------------------------
\* The parts of a buffer.
LEMMA Parts ==
  ASSUME NEW b, IsBuffer(b)
  PROVE  /\ b.buf \in Seq(Byte) /\ Len(b.buf) \in Nat
         /\ b.reader \in Nat /\ b.writer \in Nat
         /\ CheapPrepend <= b.reader /\ b.reader <= b.writer
         /\ b.writer <= Len(b.buf)
         /\ ReadableBytes(b) = b.writer - b.reader /\ ReadableBytes(b) \in Nat
         /\ Content(b) \in Seq(Byte) /\ Len(Content(b)) = ReadableBytes(b)
  <1>1. /\ b.buf \in Seq(Byte) /\ b.reader \in Nat /\ b.writer \in Nat
        /\ CheapPrepend <= b.reader /\ b.reader <= b.writer
        /\ b.writer <= Len(b.buf)
    BY DEF IsBuffer
  <1>2. Len(b.buf) \in Nat
    BY <1>1
  <1>3. /\ SubSeq(b.buf, b.reader + 1, b.writer) \in Seq(Byte)
        /\ Len(SubSeq(b.buf, b.reader + 1, b.writer)) = b.writer - b.reader
    BY <1>1, Slice
  <1> QED
    BY <1>1, <1>2, <1>3 DEF ReadableBytes, Content

\* A record with indexes in order is a buffer.
LEMMA MakeBuffer ==
  ASSUME NEW v \in Seq(Byte), NEW r \in Nat, NEW w \in Nat,
         CheapPrepend <= r, r <= w, w <= Len(v)
  PROVE  /\ IsBuffer(BufferRec(v, r, w))
         /\ Content(BufferRec(v, r, w)) = SubSeq(v, r + 1, w)
         /\ WritableBytes(BufferRec(v, r, w)) = Len(v) - w
         /\ ReadableBytes(BufferRec(v, r, w)) = w - r
  BY DEF IsBuffer, BufferRec, Content, WritableBytes, ReadableBytes

\* Bytes that fit are put behind the readable ones.
LEMMA WrittenEnqueues ==
  ASSUME NEW b, IsBuffer(b), NEW s \in Seq(Byte), Len(s) <= WritableBytes(b)
  PROVE  /\ IsBuffer(Written(b, s))
         /\ Content(Written(b, s)) = Content(b) \o s
         /\ WritableBytes(Written(b, s)) = WritableBytes(b) - Len(s)
  <1> DEFINE v == CopyTo(b.buf, b.writer, s)
             w == b.writer + Len(s)
  <1>0. Len(s) \in Nat
    BY SMT
  <1>1. /\ b.buf \in Seq(Byte) /\ Len(b.buf) \in Nat
        /\ b.reader \in Nat /\ b.writer \in Nat
        /\ CheapPrepend <= b.reader /\ b.reader <= b.writer
        /\ b.writer + Len(s) <= Len(b.buf)
    BY <1>0, Parts DEF WritableBytes
  <1>2. v \in Seq(Byte) /\ Len(v) = Len(b.buf)
    BY <1>1, CopyToBytes
  <1>3. SubSeq(v, b.reader + 1, w) = Content(b) \o s
    BY <1>1, SliceOfCopy DEF Content
  <1> HIDE DEF v
  <1>4. w \in Nat /\ b.reader <= w /\ w <= Len(v)
    BY <1>0, <1>1, <1>2, BufferAssumption
  <1> HIDE DEF w
  <1>5. /\ IsBuffer(BufferRec(v, b.reader, w))
        /\ Content(BufferRec(v, b.reader, w)) = SubSeq(v, b.reader + 1, w)
        /\ WritableBytes(BufferRec(v, b.reader, w)) = Len(v) - w
    BY <1>1, <1>2, <1>4, MakeBuffer, Zenon
  <1>6. Written(b, s) = BufferRec(v, b.reader, w)
    BY DEF Written, v, w
  <1>7. Len(v) - w = WritableBytes(b) - Len(s)
    BY <1>0, <1>1, <1>2 DEF WritableBytes, w
  <1> QED
    BY <1>3, <1>5, <1>6, <1>7

\* A slice does not see what is behind it.
LEMMA SliceOfCat ==
  ASSUME NEW v \in Seq(Byte), NEW t \in Seq(Byte), NEW a \in Nat, NEW z \in Nat,
         a <= z, z <= Len(v)
  PROVE  SubSeq(v \o t, a + 1, z) = SubSeq(v, a + 1, z)
  <1> DEFINE u == v \o t
             x == SubSeq(u, a + 1, z)
             y == SubSeq(v, a + 1, z)
  <1>0. Len(v) \in Nat /\ Len(t) \in Nat
    BY SMT
  <1>1. /\ u \in Seq(Byte) /\ Len(u) = Len(v) + Len(t)
        /\ \A i \in 1 .. Len(v) : u[i] = v[i]
    BY Cat
  <1> HIDE DEF u
  <1>2. /\ x \in Seq(Byte) /\ Len(x) = z - a
        /\ \A i \in 1 .. z - a : x[i] = u[a + i]
    <2>1. /\ u \in Seq(Byte) /\ a \in Nat /\ z \in Nat /\ a <= z
          /\ z <= Len(u)
      BY <1>0, <1>1
    <2> QED
      BY ONLY <2>1, Slice
  <1>3. /\ y \in Seq(Byte) /\ Len(y) = z - a
        /\ \A i \in 1 .. z - a : y[i] = v[a + i]
    BY <1>0, Slice
  <1> HIDE DEF x, y
  <1>4. ASSUME NEW i \in 1 .. Len(x) PROVE x[i] = y[i]
    <2>1. i \in 1 .. z - a
      BY <1>2, <1>4
    <2>2. a + i \in 1 .. Len(v)
      BY <1>0, <2>1
    <2>3. x[i] = u[a + i]
      BY <1>2, <2>1
    <2>4. y[i] = v[a + i]
      BY <1>3, <2>1
    <2>5. u[a + i] = v[a + i]
      BY <1>1, <2>2
    <2> QED
      BY <2>3, <2>4, <2>5
  <1>5. x = y
    BY <1>2, <1>3, <1>4, Same
  <1> QED
    BY <1>5 DEF x, y, u

\* Growing the vector keeps the queue and makes room.
LEMMA GrownKeeps ==
  ASSUME NEW b, IsBuffer(b), NEW len \in Nat, WritableBytes(b) < len
  PROVE  /\ IsBuffer(Grown(b, len)) /\ Content(Grown(b, len)) = Content(b)
         /\ WritableBytes(Grown(b, len)) = len
  <1> DEFINE n == b.writer + len - Len(b.buf)
             t == Zeros(n)
             v == b.buf \o t
  <1>1. /\ b.buf \in Seq(Byte) /\ Len(b.buf) \in Nat
        /\ b.reader \in Nat /\ b.writer \in Nat
        /\ CheapPrepend <= b.reader /\ b.reader <= b.writer
        /\ b.writer <= Len(b.buf)
    BY Parts
  <1>2. n \in Nat
    BY <1>1 DEF WritableBytes
  <1>3. t \in Seq(Byte) /\ Len(t) = n
    <2> HIDE DEF n
    <2> QED
      BY <1>2, BufferAssumption DEF Zeros
  <1> HIDE DEF t
  <1>4. v \in Seq(Byte) /\ Len(v) = Len(b.buf) + Len(t)
    BY <1>1, <1>3, Cat
  <1>5. SubSeq(v, b.reader + 1, b.writer) = Content(b)
    <2>1. /\ b.buf \in Seq(Byte) /\ t \in Seq(Byte) /\ b.reader \in Nat
          /\ b.writer \in Nat /\ b.reader <= b.writer /\ b.writer <= Len(b.buf)
      BY <1>1, <1>3
    <2> QED
      BY ONLY <2>1, SliceOfCat, Zenon DEF Content
  <1> HIDE DEF v
  <1>6. Len(v) = b.writer + len /\ b.writer <= Len(v)
    BY <1>1, <1>3, <1>4
  <1>7. /\ IsBuffer(BufferRec(v, b.reader, b.writer))
        /\ Content(BufferRec(v, b.reader, b.writer))
             = SubSeq(v, b.reader + 1, b.writer)
        /\ WritableBytes(BufferRec(v, b.reader, b.writer)) = Len(v) - b.writer
    BY <1>1, <1>4, <1>6, MakeBuffer, Zenon
  <1>8. Grown(b, len) = BufferRec(v, b.reader, b.writer)
    BY DEF Grown, v, t
  <1>9. Len(v) - b.writer = len
    BY <1>1, <1>6
  <1> QED
    BY <1>5, <1>7, <1>8, <1>9

\* Moving the readable bytes to the front keeps the queue, and the room is
\* what was before and behind them.
LEMMA MovedKeeps ==
  ASSUME NEW b, IsBuffer(b)
  PROVE  /\ IsBuffer(Moved(b)) /\ Content(Moved(b)) = Content(b)
         /\ WritableBytes(Moved(b))
              = WritableBytes(b) + PrependableBytes(b) - CheapPrepend
  <1> DEFINE c == Content(b)
             v == CopyTo(b.buf, CheapPrepend, c)
             w == CheapPrepend + Len(c)
  <1>0. CheapPrepend \in Nat
    BY BufferAssumption
  <1>1. /\ b.buf \in Seq(Byte) /\ Len(b.buf) \in Nat
        /\ b.reader \in Nat /\ b.writer \in Nat
        /\ CheapPrepend <= b.reader /\ b.reader <= b.writer
        /\ b.writer <= Len(b.buf)
        /\ c \in Seq(Byte) /\ Len(c) = b.writer - b.reader /\ Len(c) \in Nat
        /\ ReadableBytes(b) = Len(c)
    BY Parts
  <1> HIDE DEF c
  <1>2. w \in Nat /\ CheapPrepend <= w /\ w <= Len(b.buf)
    BY <1>0, <1>1
  <1>3. v \in Seq(Byte) /\ Len(v) = Len(b.buf)
    BY <1>0, <1>1, <1>2, CopyToBytes
  <1>4. SubSeq(v, CheapPrepend + 1, w) = c
    <2> DEFINE e == SubSeq(b.buf, CheapPrepend + 1, CheapPrepend)
    <2>0. /\ CheapPrepend <= CheapPrepend /\ b.buf \in Seq(Byte)
          /\ c \in Seq(Byte) /\ CheapPrepend + Len(c) <= Len(b.buf)
      BY <1>0, <1>1, <1>2
    <2>1. SubSeq(v, CheapPrepend + 1, w) = e \o c
      BY <1>0, <2>0, SliceOfCopy, Zenon
    <2>2. e \in Seq(Byte) /\ Len(e) = CheapPrepend - CheapPrepend
      BY <1>0, <1>1, <1>2, Slice
    <2> HIDE DEF e
    <2>3. e = <<>>
      BY <1>0, <2>2
    <2>4. <<>> \o c = c
      BY <1>1
    <2> QED
      BY <2>1, <2>3, <2>4
  <1>8. w <= Len(v) /\ CheapPrepend <= CheapPrepend
    BY <1>0, <1>2, <1>3
  <1> HIDE DEF v, w
  <1>5. /\ IsBuffer(BufferRec(v, CheapPrepend, w))
        /\ Content(BufferRec(v, CheapPrepend, w))
             = SubSeq(v, CheapPrepend + 1, w)
        /\ WritableBytes(BufferRec(v, CheapPrepend, w)) = Len(v) - w
    BY <1>0, <1>2, <1>3, <1>8, MakeBuffer, Zenon
  <1>6. Moved(b) = BufferRec(v, CheapPrepend, w)
    BY <1>1 DEF Moved, v, w, c
  <1>7. Len(v) - w = WritableBytes(b) + PrependableBytes(b) - CheapPrepend
    <2>1. /\ WritableBytes(b) = Len(b.buf) - b.writer
          /\ PrependableBytes(b) = b.reader
      BY DEF WritableBytes, PrependableBytes
    <2>2. w = CheapPrepend + (b.writer - b.reader)
      BY <1>1 DEF w
    <2>3. /\ Len(b.buf) \in Nat /\ b.reader \in Nat /\ b.writer \in Nat
          /\ Len(v) = Len(b.buf)
      BY <1>1, <1>3
    <2> QED
      BY <1>0, <2>1, <2>2, <2>3
  <1> QED
    BY <1>4, <1>5, <1>6, <1>7 DEF c

\* ensureWritableBytes keeps the queue, and its assertion holds.
LEMMA EnsureKeeps ==
  ASSUME NEW b, IsBuffer(b), NEW len \in Nat
  PROVE  /\ IsBuffer(EnsureWritableBytes(b, len))
         /\ Content(EnsureWritableBytes(b, len)) = Content(b)
         /\ WritableBytes(EnsureWritableBytes(b, len)) >= len
  <1>1. CASE WritableBytes(b) < len
    <2>0. CheapPrepend \in Nat /\ b.reader \in Nat /\ WritableBytes(b) \in Int
      BY BufferAssumption, Parts DEF WritableBytes
    <2>1. CASE WritableBytes(b) + PrependableBytes(b) < len + CheapPrepend
      <3>1. EnsureWritableBytes(b, len) = Grown(b, len)
        BY <1>1, <2>1 DEF EnsureWritableBytes, MakeSpace
      <3> QED
        BY <1>1, <3>1, GrownKeeps
    <2>2. CASE ~(WritableBytes(b) + PrependableBytes(b) < len + CheapPrepend)
      <3>1. EnsureWritableBytes(b, len) = Moved(b)
        BY <1>1, <2>2 DEF EnsureWritableBytes, MakeSpace
      <3>2. WritableBytes(b) + PrependableBytes(b) - CheapPrepend >= len
        BY <2>0, <2>2 DEF PrependableBytes
      <3> QED
        BY <3>1, <3>2, MovedKeeps
    <2> QED
      BY <2>1, <2>2
  <1>2. CASE ~(WritableBytes(b) < len)
    <2>1. EnsureWritableBytes(b, len) = b
      BY <1>2 DEF EnsureWritableBytes
    <2>2. WritableBytes(b) \in Int
      BY Parts DEF WritableBytes
    <2> QED
      BY <1>2, <2>1, <2>2
  <1> QED
    BY <1>1, <1>2

-----------------------------------------------------------------------------
\* append puts its bytes at the end of the queue, whether the vector grows,
\* its bytes move, or neither.
THEOREM AppendEnqueues ==
  ASSUME NEW b, IsBuffer(b), NEW s \in Seq(Byte)
  PROVE  /\ IsBuffer(AppendBytes(b, s))
         /\ Content(AppendBytes(b, s)) = Content(b) \o s
  <1> DEFINE e == EnsureWritableBytes(b, Len(s))
  <1>0. Len(s) \in Nat
    BY SMT
  <1>1. IsBuffer(e) /\ Content(e) = Content(b) /\ WritableBytes(e) >= Len(s)
    BY <1>0, EnsureKeeps
  <1>2. WritableBytes(e) \in Int
    BY <1>1, Parts DEF WritableBytes
  <1> HIDE DEF e
  <1>3. Len(s) <= WritableBytes(e)
    BY <1>0, <1>1, <1>2
  <1>4. IsBuffer(Written(e, s)) /\ Content(Written(e, s)) = Content(e) \o s
    BY <1>1, <1>3, WrittenEnqueues
  <1> QED
    BY <1>1, <1>4 DEF AppendBytes, e

\* readFd puts what it read at the end of the queue, also what did not fit
\* and went through extrabuf.
THEOREM ReadFdEnqueues ==
  ASSUME NEW b, IsBuffer(b), NEW s \in Seq(Byte)
  PROVE  IsBuffer(ReadFd(b, s)) /\ Content(ReadFd(b, s)) = Content(b) \o s
  <1> DEFINE w == WritableBytes(b)
             s1 == SubSeq(s, 0 + 1, w)
             s2 == SubSeq(s, w + 1, Len(s))
             b1 == Written(b, s1)
  <1>0. Len(s) \in Nat /\ w \in Nat
    BY Parts DEF WritableBytes
  <1>1. CASE Len(s) <= w
    BY <1>1, WrittenEnqueues DEF ReadFd
  <1>2. CASE ~(Len(s) <= w)
    <2>1. /\ s1 \in Seq(Byte) /\ Len(s1) = w - 0
          /\ \A i \in 1 .. w - 0 : s1[i] = s[0 + i]
      BY <1>0, <1>2, Slice
    <2>2. /\ s2 \in Seq(Byte) /\ Len(s2) = Len(s) - w
          /\ \A i \in 1 .. Len(s) - w : s2[i] = s[w + i]
      BY <1>0, <1>2, Slice
    <2>3. Len(s1) <= WritableBytes(b)
      BY <1>0, <2>1
    <2>4. ReadFd(b, s) = AppendBytes(b1, s2)
      BY <1>2 DEF ReadFd
    <2> HIDE DEF s1, s2
    <2>5. IsBuffer(b1) /\ Content(b1) = Content(b) \o s1
      BY <2>1, <2>3, WrittenEnqueues
    <2> HIDE DEF b1
    <2>6. /\ IsBuffer(AppendBytes(b1, s2))
          /\ Content(AppendBytes(b1, s2)) = Content(b1) \o s2
      BY <2>2, <2>5, AppendEnqueues
    <2>7. s1 \o s2 = s
      <3> DEFINE u == s1 \o s2
      <3>1. /\ u \in Seq(Byte) /\ Len(u) = Len(s1) + Len(s2)
            /\ \A i \in 1 .. Len(s1) : u[i] = s1[i]
            /\ \A i \in 1 .. Len(s2) : u[Len(s1) + i] = s2[i]
        BY <2>1, <2>2, Cat
      <3> HIDE DEF u
      <3>2. Len(u) = Len(s) /\ Len(s1) = w
        BY <1>0, <2>1, <2>2, <3>1
      <3>3. ASSUME NEW i \in 1 .. Len(u) PROVE u[i] = s[i]
        <4>1. CASE i <= w
          BY <1>0, <2>1, <3>1, <3>2, <3>3, <4>1
        <4>2. CASE i > w
          <5> DEFINE j == i - w
          <5>1. j \in 1 .. Len(s) - w /\ i = w + j
            BY <1>0, <3>2, <3>3, <4>2
          <5> HIDE DEF j
          <5>2. u[w + j] = s2[j]
            BY <2>2, <3>1, <3>2, <5>1
          <5> QED
            BY <2>2, <5>1, <5>2
        <4> QED
          BY <1>0, <3>2, <4>1, <4>2
      <3>4. u = s
        BY <3>1, <3>2, <3>3, Same
      <3> QED
        BY <3>4 DEF u
    <2>8. Content(b) \in Seq(Byte)
      BY Parts
    <2> HIDE DEF w
    <2>9. (Content(b) \o s1) \o s2 = Content(b) \o (s1 \o s2)
      BY <2>1, <2>2, <2>8, SMTT(20)
    <2> QED
      BY <2>4, <2>5, <2>6, <2>7, <2>9
  <1> QED
    BY <1>1, <1>2

\* retrieve takes the first len bytes off the queue.
THEOREM RetrieveDequeues ==
  ASSUME NEW b, IsBuffer(b), NEW len \in Nat, len <= ReadableBytes(b)
  PROVE  /\ IsBuffer(Retrieve(b, len))
         /\ Content(Retrieve(b, len))
              = SubSeq(Content(b), len + 1, ReadableBytes(b))
  <1> DEFINE c == Content(b)
             y == SubSeq(c, len + 1, Len(c))
  <1>1. /\ b.buf \in Seq(Byte) /\ Len(b.buf) \in Nat
        /\ b.reader \in Nat /\ b.writer \in Nat
        /\ CheapPrepend <= b.reader /\ b.reader <= b.writer
        /\ b.writer <= Len(b.buf) /\ CheapPrepend \in Nat
        /\ ReadableBytes(b) = b.writer - b.reader
        /\ c \in Seq(Byte) /\ Len(c) = ReadableBytes(b)
    BY Parts, BufferAssumption
  <1>2. \A i \in 1 .. b.writer - b.reader : c[i] = b.buf[b.reader + i]
    <2>1. /\ b.buf \in Seq(Byte) /\ b.reader \in Nat /\ b.writer \in Nat
          /\ b.reader <= b.writer /\ b.writer <= Len(b.buf)
      BY <1>1
    <2> QED
      BY ONLY <2>1, Slice, Zenon DEF Content
  <1> HIDE DEF c
  <1>3. /\ y \in Seq(Byte) /\ Len(y) = Len(c) - len
        /\ \A i \in 1 .. Len(c) - len : y[i] = c[len + i]
    <2>1. /\ c \in Seq(Byte) /\ len \in Nat /\ Len(c) \in Nat
          /\ len <= Len(c) /\ Len(c) <= Len(c)
      BY <1>1
    <2> QED
      BY ONLY <2>1, Slice
  <1> HIDE DEF y
  <1>4. CASE len < ReadableBytes(b)
    <2> DEFINE r == b.reader + len
               x == SubSeq(b.buf, r + 1, b.writer)
    <2>1. r \in Nat /\ CheapPrepend <= r /\ r <= b.writer
      BY <1>1, <1>4
    <2> HIDE DEF r
    <2>2. Retrieve(b, len) = BufferRec(b.buf, r, b.writer)
      BY <1>4 DEF Retrieve, r
    <2>8. b.buf \in Seq(Byte) /\ b.writer \in Nat /\ b.writer <= Len(b.buf)
      BY <1>1
    <2>3. IsBuffer(BufferRec(b.buf, r, b.writer))
          /\ Content(BufferRec(b.buf, r, b.writer)) = x
      BY <2>1, <2>8, MakeBuffer, Zenon
    <2>4. /\ x \in Seq(Byte) /\ Len(x) = b.writer - r
          /\ \A i \in 1 .. b.writer - r : x[i] = b.buf[r + i]
      BY <2>1, <2>8, Slice
    <2> HIDE DEF x
    <2>5. Len(x) = Len(y)
      BY <1>1, <1>3, <2>4 DEF r
    <2>6. ASSUME NEW i \in 1 .. Len(x) PROVE x[i] = y[i]
      <3>1. x[i] = b.buf[b.reader + (len + i)]
        BY <1>1, <2>4, <2>6 DEF r
      <3>2. y[i] = c[len + i]
        BY <1>3, <2>5, <2>6
      <3>3. len + i \in 1 .. b.writer - b.reader
        BY <1>1, <2>4, <2>6 DEF r
      <3>4. c[len + i] = b.buf[b.reader + (len + i)]
        BY <1>2, <3>3
      <3> QED
        BY <3>1, <3>2, <3>4
    <2>7. x = y
      BY <1>3, <2>4, <2>5, <2>6, Same
    <2> QED
      BY <1>1, <2>2, <2>3, <2>7 DEF y, c
  <1>5. CASE ~(len < ReadableBytes(b))
    <2> DEFINE e == SubSeq(b.buf, CheapPrepend + 1, CheapPrepend)
    <2>1. Retrieve(b, len) = BufferRec(b.buf, CheapPrepend, CheapPrepend)
      BY <1>5 DEF Retrieve
    <2>0. /\ CheapPrepend \in Nat /\ CheapPrepend <= CheapPrepend
          /\ CheapPrepend <= Len(b.buf)
      BY <1>1, BufferAssumption
    <2>2. IsBuffer(BufferRec(b.buf, CheapPrepend, CheapPrepend))
          /\ Content(BufferRec(b.buf, CheapPrepend, CheapPrepend)) = e
      BY <1>1, <2>0, MakeBuffer
    <2>3. e \in Seq(Byte) /\ Len(e) = CheapPrepend - CheapPrepend
      BY <1>1, Slice
    <2> HIDE DEF e
    <2>4. Len(e) = 0 /\ Len(y) = 0
      BY <1>1, <1>3, <1>5, <2>3
    <2>5. e = y
      BY <1>3, <2>3, <2>4, Same
    <2> QED
      BY <1>1, <2>1, <2>2, <2>5 DEF y, c
  <1> QED
    BY <1>4, <1>5

\* The assertions in ensureWritableBytes, hasWritten and makeSpace never fail.
THEOREM AppendNeverAsserts ==
  ASSUME NEW b, IsBuffer(b), NEW len \in Nat
  PROVE  AppendAssertion(b, len)
  <1>1. WritableBytes(EnsureWritableBytes(b, len)) >= len
    BY EnsureKeeps
  <1>2. ASSUME WritableBytes(b) < len,
               WritableBytes(b) + PrependableBytes(b) >= len + CheapPrepend
        PROVE  CheapPrepend < b.reader
    <2>1. CheapPrepend \in Nat /\ b.reader \in Nat /\ WritableBytes(b) \in Int
      BY BufferAssumption, Parts DEF WritableBytes
    <2> QED
      BY <1>2, <2>1 DEF PrependableBytes
  <1> QED
    BY <1>1, <1>2 DEF AppendAssertion

-----------------------------------------------------------------------------
(* Bytes of a stream. *)

\* s are the bytes of m's frame behind the first a of them.
At(s, m, a) == \A i \in 1 .. Len(s) : s[i] = <<m, a + i>>

Size(m) == HeaderLen + BodyLen[m]

\* The sizes are positive.
LEMMA Sizes ==
  /\ HeaderLen \in Nat \ {0} /\ PipeCap \in Nat \ {0}
  /\ \A m \in Msgs : BodyLen[m] \in Nat \ {0} /\ Size(m) \in Nat \ {0}
  /\ "request" \in Msgs /\ "response" \in Msgs
<1>1. /\ HeaderLen \in Nat \ {0} /\ PipeCap \in Nat \ {0}
      /\ \A m \in Msgs : BodyLen[m] \in Nat \ {0}
  BY SessionAssumption
<1> QED
  BY <1>1 DEF Size, Msgs

\* Two parts of a stream, one after the other.
LEMMA AtCat ==
  ASSUME NEW s \in Seq(Byte), NEW t \in Seq(Byte), NEW m, NEW a \in Nat
  PROVE  /\ At(s \o t, m, a) <=> At(s, m, a) /\ At(t, m, a + Len(s))
         /\ s \o t \in Seq(Byte) /\ Len(s \o t) = Len(s) + Len(t)
<1> DEFINE c == s \o t
<1>1. /\ c \in Seq(Byte) /\ Len(c) = Len(s) + Len(t)
      /\ \A i \in 1 .. Len(s) : c[i] = s[i]
      /\ \A i \in 1 .. Len(t) : c[Len(s) + i] = t[i]
      /\ Len(s) \in Nat /\ Len(t) \in Nat
  BY Cat
<1> HIDE DEF c
<1>2. ASSUME At(c, m, a) PROVE At(s, m, a) /\ At(t, m, a + Len(s))
  <2>1. At(s, m, a)
    BY <1>1, <1>2 DEF At
  <2>2. ASSUME NEW i \in 1 .. Len(t) PROVE t[i] = <<m, a + Len(s) + i>>
    <3>1. /\ Len(s) + i \in 1 .. Len(c)
          /\ a + (Len(s) + i) = a + Len(s) + i
      BY <1>1
    <3>2. t[i] = c[Len(s) + i]
      BY <1>1
    <3>3. c[Len(s) + i] = <<m, a + (Len(s) + i)>>
      BY <1>2, <3>1 DEF At
    <3> QED
      BY <3>1, <3>2, <3>3
  <2> QED
    BY <2>1, <2>2 DEF At
<1>3. ASSUME At(s, m, a), At(t, m, a + Len(s)) PROVE At(c, m, a)
  <2> SUFFICES ASSUME NEW i \in 1 .. Len(c) PROVE c[i] = <<m, a + i>>
    BY DEF At
  <2>1. CASE i <= Len(s)
    <3>1. i \in 1 .. Len(s)
      BY <1>1, <2>1
    <3>2. c[i] = s[i]
      BY <1>1, <3>1
    <3>3. s[i] = <<m, a + i>>
      BY <1>3, <3>1 DEF At
    <3> QED
      BY <3>2, <3>3
  <2>2. CASE i > Len(s)
    <3>1. /\ i - Len(s) \in 1 .. Len(t) /\ Len(s) + (i - Len(s)) = i
          /\ a + Len(s) + (i - Len(s)) = a + i
      BY <1>1, <2>2
    <3> QED
      BY <1>1, <1>3, <3>1 DEF At
  <2> QED
    BY <1>1, <2>1, <2>2
<1> QED
  BY <1>1, <1>2, <1>3 DEF c

\* The first n bytes of a part, and the others.
LEMMA AtCut ==
  ASSUME NEW s \in Seq(Byte), NEW n \in Nat, n <= Len(s), NEW m, NEW a \in Nat
  PROVE  /\ SubSeq(s, 1, n) \in Seq(Byte) /\ Len(SubSeq(s, 1, n)) = n
         /\ SubSeq(s, n + 1, Len(s)) \in Seq(Byte)
         /\ Len(SubSeq(s, n + 1, Len(s))) = Len(s) - n
         /\ At(s, m, a) => /\ At(SubSeq(s, 1, n), m, a)
                           /\ At(SubSeq(s, n + 1, Len(s)), m, a + n)
<1> DEFINE u == SubSeq(s, 1, n)
           v == SubSeq(s, n + 1, Len(s))
<1>1. /\ u \in Seq(Byte) /\ Len(u) = n /\ \A i \in 1 .. n : u[i] = s[i]
  BY SMT
<1>2. /\ v \in Seq(Byte) /\ Len(v) = Len(s) - n
      /\ \A i \in 1 .. Len(s) - n : v[i] = s[n + i]
  <2>1. Len(s) \in Nat /\ Len(s) <= Len(s)
    OBVIOUS
  <2> QED
    BY <2>1, Slice, SMT
<1> HIDE DEF u, v
<1>3. ASSUME At(s, m, a) PROVE At(u, m, a) /\ At(v, m, a + n)
  <2>1. Len(s) \in Nat
    OBVIOUS
  <2>2. ASSUME NEW i \in 1 .. Len(u) PROVE u[i] = <<m, a + i>>
    <3>1. i \in 1 .. Len(s) /\ i \in 1 .. n
      BY <1>1, <2>1
    <3>2. u[i] = s[i] /\ s[i] = <<m, a + i>>
      BY <1>1, <1>3, <3>1, Zenon DEF At
    <3> QED
      BY <3>2
  <2>3. ASSUME NEW i \in 1 .. Len(v) PROVE v[i] = <<m, a + n + i>>
    <3>1. n + i \in 1 .. Len(s) /\ a + (n + i) = a + n + i
      BY <1>2, <2>1
    <3>2. v[i] = s[n + i]
      BY <1>2, <2>1
    <3>3. s[n + i] = <<m, a + (n + i)>>
      BY <1>3, <3>1 DEF At
    <3> QED
      BY <3>1, <3>2, <3>3
  <2> QED
    BY <2>2, <2>3 DEF At
<1> QED
  BY <1>1, <1>2, <1>3 DEF u, v

\* A frame, its header and its body.
LEMMA FrameBytes ==
  ASSUME NEW m \in Msgs
  PROVE  /\ Frame(m) \in Seq(Byte) /\ Len(Frame(m)) = Size(m)
         /\ At(Frame(m), m, 0)
         /\ Header(m) \in Seq(Byte) /\ Len(Header(m)) = HeaderLen
         /\ At(Header(m), m, 0)
         /\ Body(m) \in Seq(Byte) /\ Len(Body(m)) = BodyLen[m]
         /\ At(Body(m), m, HeaderLen)
<1>1. /\ HeaderLen \in Nat /\ BodyLen[m] \in Nat
      /\ Size(m) = HeaderLen + BodyLen[m] /\ Size(m) \in Nat
      /\ \A i \in 1 .. Size(m) : <<m, i>> \in Byte
  BY Sizes, SessionAssumption DEF Size
<1>2. /\ Frame(m) \in Seq(Byte) /\ Len(Frame(m)) = Size(m)
      /\ \A i \in 1 .. Size(m) : Frame(m)[i] = <<m, i>>
  BY <1>1 DEF Frame
<1> DEFINE F == Frame(m)
<1> HIDE DEF F
<1>3. /\ F \in Seq(Byte) /\ Len(F) = Size(m)
      /\ \A i \in 1 .. Size(m) : F[i] = <<m, i>>
  BY <1>2 DEF F
<1>4. At(F, m, 0)
  BY <1>1, <1>3 DEF At
<1>5. HeaderLen <= Len(F) /\ HeaderLen + BodyLen[m] = Len(F)
      /\ Len(F) - HeaderLen = BodyLen[m] /\ 0 + HeaderLen = HeaderLen
  BY <1>1, <1>3
<1>6. /\ SubSeq(F, 1, HeaderLen) \in Seq(Byte)
      /\ Len(SubSeq(F, 1, HeaderLen)) = HeaderLen
      /\ At(SubSeq(F, 1, HeaderLen), m, 0)
      /\ SubSeq(F, HeaderLen + 1, Len(F)) \in Seq(Byte)
      /\ Len(SubSeq(F, HeaderLen + 1, Len(F))) = Len(F) - HeaderLen
      /\ At(SubSeq(F, HeaderLen + 1, Len(F)), m, 0 + HeaderLen)
  BY <1>1, <1>3, <1>4, <1>5, AtCut
<1>7. Header(m) = SubSeq(F, 1, HeaderLen)
      /\ Body(m) = SubSeq(F, HeaderLen + 1, Len(F)) /\ Frame(m) = F
  BY <1>5, Zenon DEF Header, Body, F
<1> QED
  BY <1>3, <1>4, <1>5, <1>6, <1>7, Zenon

\* A part is known by its place and its length.
LEMMA AtSame ==
  ASSUME NEW s \in Seq(Byte), NEW t \in Seq(Byte), NEW m, NEW a \in Nat,
         At(s, m, a), At(t, m, a), Len(s) = Len(t)
  PROVE  s = t
  BY Same DEF At

\* What is at the beginning of a frame is a prefix of it.
LEMMA AtPrefix ==
  ASSUME NEW s \in Seq(Byte), NEW m \in Msgs, At(s, m, 0), Len(s) <= Size(m)
  PROVE  IsPrefixOf(s, Frame(m))
<1> DEFINE F == Frame(m)
<1>1. F \in Seq(Byte) /\ Len(F) = Size(m) /\ At(F, m, 0)
  BY FrameBytes
<1> HIDE DEF F
<1>2. Len(s) \in Nat
  OBVIOUS
<1>3. /\ SubSeq(F, 1, Len(s)) \in Seq(Byte) /\ Len(SubSeq(F, 1, Len(s))) = Len(s)
      /\ At(SubSeq(F, 1, Len(s)), m, 0)
  BY <1>1, <1>2, AtCut
<1>4. s = SubSeq(F, 1, Len(s))
  BY <1>3, AtSame
<1> QED
  BY <1>1, <1>4 DEF IsPrefixOf, F

\* What is readable is as long as readableBytes() says.
LEMMA ContentBytes ==
  ASSUME NEW b, IsBuffer(b)
  PROVE  /\ Content(b) \in Seq(Byte) /\ Len(Content(b)) = ReadableBytes(b)
         /\ ReadableBytes(b) \in Nat
  BY Parts

\* A buffer that holds the beginning of a frame, and nothing behind it: the
\* frame is ready when it is complete, and is taken out without a rest.
LEMMA FrameComplete ==
  ASSUME NEW b, IsBuffer(b), NEW m \in Msgs, At(Content(b), m, 0),
         Len(Content(b)) <= Size(m)
  PROVE  /\ FrameReady(b) => Len(Content(b)) = Size(m)
         /\ FrameReady(b) =>
              /\ FrameOf(b) = Frame(m) /\ Parses(b, m) /\ FrameAssertion(b)
              /\ IsBuffer(AfterFrame(b)) /\ Content(AfterFrame(b)) = <<>>
<1> DEFINE c == Content(b)
           h == SubSeq(c, 1, HeaderLen)
<1>1. /\ c \in Seq(Byte) /\ Len(c) = ReadableBytes(b) /\ Len(c) \in Nat
      /\ HeaderLen \in Nat \ {0} /\ BodyLen[m] \in Nat \ {0}
      /\ Size(m) = HeaderLen + BodyLen[m]
  BY ContentBytes, Sizes DEF Size
<1> SUFFICES ASSUME FrameReady(b)
             PROVE  /\ Len(c) = Size(m)
                    /\ FrameOf(b) = Frame(m) /\ Parses(b, m)
                    /\ FrameAssertion(b)
                    /\ IsBuffer(AfterFrame(b)) /\ Content(AfterFrame(b)) = <<>>
  OBVIOUS
<1>2. HeaderLen <= Len(c) /\ HeaderLen + PeekInt32(b) <= Len(c)
  BY <1>1 DEF FrameReady
<1>3. PeekInt32(b) = BodyLen[m]
  <2>1. h \in Seq(Byte) /\ Len(h) = HeaderLen /\ At(h, m, 0)
    <3> HIDE DEF c
    <3>1. At(c, m, 0)
      BY DEF c
    <3> QED
      BY <1>1, <1>2, <3>1, AtCut
  <2> HIDE DEF h
  <2>2. h = Header(m)
    BY <2>1, FrameBytes, AtSame
  <2>3. \A x \in Msgs : h = Header(x) => x = m
    <3> SUFFICES ASSUME NEW x \in Msgs, h = Header(x) PROVE x = m
      OBVIOUS
    <3>1. At(h, x, 0)
      BY FrameBytes
    <3>2. h[1] = <<x, 0 + 1>> /\ h[1] = <<m, 0 + 1>>
      BY <1>1, <2>1, <3>1 DEF At
    <3> QED
      BY <3>2
  <2>4. \E x \in Msgs : h = Header(x)
    BY <2>2
  <2>5. (CHOOSE x \in Msgs : h = Header(x)) = m
    BY <2>2, <2>3, Zenon
  <2> QED
    BY <2>4, <2>5 DEF PeekInt32, h
<1>4. Len(c) = Size(m)
  BY <1>1, <1>2, <1>3
<1>5. c = Frame(m)
  <2> HIDE DEF c
  <2>1. At(c, m, 0)
    BY DEF c
  <2> QED
    BY <1>1, <1>4, <2>1, FrameBytes, AtSame
<1>6. FrameOf(b) = Frame(m)
  <2>1. SmallerOf(ReadableBytes(b), HeaderLen + PeekInt32(b)) = Len(c)
    BY <1>1, <1>3, <1>4 DEF SmallerOf
  <2>2. SubSeq(c, 1, Len(c)) = c
    <3> HIDE DEF c
    <3>1. /\ SubSeq(c, 1, Len(c)) \in Seq(Byte)
          /\ Len(SubSeq(c, 1, Len(c))) = Len(c) /\ At(c, m, 0)
          /\ At(SubSeq(c, 1, Len(c)), m, 0)
      <4>1. At(c, m, 0)
        BY DEF c
      <4> QED
        BY <1>1, <4>1, AtCut
    <3> QED
      BY <1>1, <3>1, AtSame
  <2> QED
    BY <1>5, <2>1, <2>2 DEF FrameOf
<1>7. Parses(b, m)
  <2>1. /\ Len(FrameOf(b)) = HeaderLen + BodyLen[m]
    BY <1>1, <1>6, FrameBytes
  <2> QED
    BY <1>6, <2>1 DEF Parses, Body
<1>8. FrameAssertion(b)
  BY <1>1, <1>3, <1>4 DEF FrameAssertion, RetrieveAssertion
<1>9. IsBuffer(AfterFrame(b)) /\ Content(AfterFrame(b)) = <<>>
  <2> DEFINE r == Retrieve(b, HeaderLen)
             z == Retrieve(r, BodyLen[m])
  <2>1. /\ IsBuffer(r)
        /\ Content(r) = SubSeq(c, HeaderLen + 1, Len(c))
    BY <1>1, <1>2, RetrieveDequeues
  <2>2. Len(Content(r)) = BodyLen[m] /\ Content(r) \in Seq(Byte)
    <3> HIDE DEF c, r
    <3>1. /\ c \in Seq(Byte) /\ HeaderLen \in Nat /\ Len(c) \in Nat
          /\ HeaderLen <= Len(c) /\ Len(c) <= Len(c)
          /\ Len(c) - HeaderLen = BodyLen[m]
      BY <1>1, <1>2, <1>4
    <3>2. /\ SubSeq(c, HeaderLen + 1, Len(c)) \in Seq(Byte)
          /\ Len(SubSeq(c, HeaderLen + 1, Len(c))) = Len(c) - HeaderLen
      BY ONLY <3>1, Slice
    <3> QED
      BY <2>1, <3>1, <3>2
  <2> HIDE DEF r
  <2>3. ReadableBytes(r) = BodyLen[m]
    BY <2>1, <2>2, ContentBytes
  <2>4. /\ IsBuffer(z)
        /\ Content(z) = SubSeq(Content(r), BodyLen[m] + 1, Len(Content(r)))
    <3>1. /\ BodyLen[m] \in Nat /\ BodyLen[m] <= ReadableBytes(r)
          /\ ReadableBytes(r) = Len(Content(r))
      BY <1>1, <2>2, <2>3
    <3> QED
      BY <2>1, <3>1, RetrieveDequeues
  <2>5. Content(z) \in Seq(Byte) /\ Len(Content(z)) = 0
    <3> HIDE DEF z
    <3> QED
      BY <1>1, <2>2, <2>4, AtCut
  <2> HIDE DEF z
  <2>6. Content(z) = <<>>
    BY <2>5
  <2> QED
    BY <1>3, <2>4, <2>6 DEF AfterFrame, r, z
<1> QED
  BY <1>4, <1>6, <1>7, <1>8, <1>9

\* Concatenation is associative, and <<>> is neutral.
LEMMA CatAssoc ==
  ASSUME NEW s \in Seq(Byte), NEW t \in Seq(Byte), NEW u \in Seq(Byte)
  PROVE  (s \o t) \o u = s \o (t \o u) /\ s \o t \in Seq(Byte)
  BY SMT

LEMMA CatEmpty ==
  ASSUME NEW s \in Seq(Byte)
  PROVE  s \o <<>> = s /\ <<>> \o s = s /\ <<>> \in Seq(Byte)
  BY SMT

\* A sequence is its first n elements and the others.
LEMMA Split ==
  ASSUME NEW s \in Seq(Byte), NEW n \in Nat, n <= Len(s)
  PROVE  /\ s = SubSeq(s, 1, n) \o SubSeq(s, n + 1, Len(s))
         /\ SubSeq(s, 1, n) \in Seq(Byte) /\ Len(SubSeq(s, 1, n)) = n
         /\ SubSeq(s, n + 1, Len(s)) \in Seq(Byte)
         /\ Len(SubSeq(s, n + 1, Len(s))) = Len(s) - n
<1> DEFINE u == SubSeq(s, 1, n)
           v == SubSeq(s, n + 1, Len(s))
           c == u \o v
<1>0. Len(s) \in Nat
  OBVIOUS
<1>1. /\ u \in Seq(Byte) /\ Len(u) = n /\ \A i \in 1 .. n : u[i] = s[i]
  BY SMT
<1>2. /\ v \in Seq(Byte) /\ Len(v) = Len(s) - n
      /\ \A i \in 1 .. Len(s) - n : v[i] = s[n + i]
  BY <1>0, Slice, SMT
<1> HIDE DEF u, v
<1>3. /\ c \in Seq(Byte) /\ Len(c) = Len(u) + Len(v)
      /\ \A i \in 1 .. Len(u) : c[i] = u[i]
      /\ \A i \in 1 .. Len(v) : c[Len(u) + i] = v[i]
  BY <1>1, <1>2, Cat
<1> HIDE DEF c
<1>4. Len(c) = Len(s)
  BY <1>0, <1>1, <1>2, <1>3
<1>5. ASSUME NEW i \in 1 .. Len(s) PROVE s[i] = c[i]
  <2>1. CASE i <= n
    BY <1>0, <1>1, <1>3, <2>1
  <2>2. CASE i > n
    <3> DEFINE j == i - n
    <3>1. j \in 1 .. Len(v) /\ n + j = i /\ j \in 1 .. Len(s) - n
      BY <1>0, <1>2, <2>2
    <3> HIDE DEF j
    <3>2. c[i] = v[j] /\ v[j] = s[n + j]
      BY <1>1, <1>2, <1>3, <3>1
    <3> QED
      BY <3>1, <3>2
  <2> QED
    BY <2>1, <2>2
<1>6. s = c
  BY <1>3, <1>4, <1>5, Same
<1> QED
  BY <1>1, <1>2, <1>6 DEF c, u, v

\* Parts of a stream, one behind the other.  The provers see what the lemmas
\* say of Join, not the sequences.
Join(s, t) == s \o t

LEMMA JoinParts ==
  ASSUME NEW s \in Seq(Byte), NEW t \in Seq(Byte)
  PROVE  Join(s, t) \in Seq(Byte) /\ Len(Join(s, t)) = Len(s) + Len(t)
  BY Cat DEF Join

LEMMA JoinAssoc ==
  ASSUME NEW s \in Seq(Byte), NEW t \in Seq(Byte), NEW u \in Seq(Byte)
  PROVE  Join(Join(s, t), u) = Join(s, Join(t, u))
  BY CatAssoc DEF Join

LEMMA JoinEmpty ==
  ASSUME NEW s \in Seq(Byte)
  PROVE  Join(s, <<>>) = s /\ Join(<<>>, s) = s /\ <<>> \in Seq(Byte)
  BY CatEmpty DEF Join

LEMMA EmptyJoin == Join(<<>>, <<>>) = <<>> /\ <<>> \in Seq(Byte)
<1>1. <<>> \in Seq(Byte)
  OBVIOUS
<1> QED
  BY <1>1, JoinEmpty

LEMMA BothEmpty ==
  ASSUME NEW s \in Seq(Byte), NEW t \in Seq(Byte), Join(s, t) = <<>>
  PROVE  s = <<>> /\ t = <<>>
<1>1. Len(s) + Len(t) = 0 /\ Len(s) \in Nat /\ Len(t) \in Nat
  <2>1. Len(Join(s, t)) = Len(s) + Len(t)
    BY JoinParts
  <2> QED
    BY <2>1
<1>2. Len(s) = 0 /\ Len(t) = 0
  BY <1>1
<1> QED
  BY <1>2

\* What comes later in a stream may be cut elsewhere.
LEMMA Regroup ==
  ASSUME NEW p \in Seq(Byte), NEW w \in Seq(Byte), NEW c \in Seq(Byte),
         NEW x \in Seq(Byte), NEW y \in Seq(Byte), Join(w, c) = Join(x, y)
  PROVE  Join(Join(p, w), c) = Join(Join(p, x), y)
<1>1. Join(Join(p, w), c) = Join(p, Join(w, c))
  BY JoinAssoc
<1>2. Join(Join(p, x), y) = Join(p, Join(x, y))
  BY JoinAssoc
<1> QED
  BY <1>1, <1>2

\* s is the beginning of m's frame.
Stream(m, s) == s \in Seq(Byte) /\ At(s, m, 0) /\ Len(s) <= Size(m)

\* The next bytes of the frame may follow.
LEMMA StreamGrows ==
  ASSUME NEW m \in Msgs, NEW s, Stream(m, s), NEW t \in Seq(Byte),
         At(t, m, Len(s)), Len(s) + Len(t) <= Size(m)
  PROVE  Stream(m, Join(s, t)) /\ Len(Join(s, t)) = Len(s) + Len(t)
<1>1. s \in Seq(Byte) /\ At(s, m, 0) /\ Len(s) \in Nat /\ 0 + Len(s) = Len(s)
  BY DEF Stream
<1>2. /\ At(s \o t, m, 0) <=> At(s, m, 0) /\ At(t, m, 0 + Len(s))
      /\ s \o t \in Seq(Byte) /\ Len(s \o t) = Len(s) + Len(t)
  BY <1>1, AtCat
<1> QED
  BY <1>1, <1>2 DEF Stream, Join

\* What a stream begins with is one.
LEMMA StreamBegins ==
  ASSUME NEW m \in Msgs, NEW s \in Seq(Byte), NEW t \in Seq(Byte),
         Stream(m, Join(s, t))
  PROVE  Stream(m, s) /\ Len(s) + Len(t) <= Size(m) /\ At(t, m, Len(s))
<1>1. Len(s) \in Nat /\ Len(t) \in Nat /\ 0 + Len(s) = Len(s) /\ 0 \in Nat
  OBVIOUS
<1>2. /\ At(s \o t, m, 0) <=> At(s, m, 0) /\ At(t, m, 0 + Len(s))
      /\ s \o t \in Seq(Byte) /\ Len(s \o t) = Len(s) + Len(t)
  BY <1>1, AtCat
<1>3. At(s \o t, m, 0) /\ Len(s \o t) <= Size(m)
  BY DEF Stream, Join
<1>4. Size(m) \in Nat
  BY Sizes
<1> QED
  BY <1>1, <1>2, <1>3, <1>4 DEF Stream

\* A whole frame is one.
LEMMA StreamFrame ==
  ASSUME NEW m \in Msgs
  PROVE  /\ Stream(m, Frame(m)) /\ Stream(m, <<>>)
         /\ Join(Header(m), Body(m)) = Frame(m)
         /\ Frame(m) # <<>>
<1>1. /\ Frame(m) \in Seq(Byte) /\ Len(Frame(m)) = Size(m) /\ At(Frame(m), m, 0)
      /\ Size(m) \in Nat \ {0} /\ BodyLen[m] \in Nat /\ HeaderLen \in Nat
  BY FrameBytes, Sizes
<1>2. Stream(m, Frame(m)) /\ Frame(m) # <<>>
  BY <1>1 DEF Stream
<1>3. Stream(m, <<>>)
  BY <1>1 DEF Stream, At
<1>4. Header(m) \o Body(m) = Frame(m)
  <2> DEFINE F == Frame(m)
  <2>1. /\ F \in Seq(Byte) /\ Len(F) = HeaderLen + BodyLen[m]
        /\ HeaderLen <= Len(F)
    BY <1>1 DEF Size
  <2>2. /\ Header(m) = SubSeq(F, 1, HeaderLen)
        /\ Body(m) = SubSeq(F, HeaderLen + 1, Len(F))
    BY <2>1, Zenon DEF Header, Body
  <2> HIDE DEF F
  <2>3. F = SubSeq(F, 1, HeaderLen) \o SubSeq(F, HeaderLen + 1, Len(F))
    BY <1>1, <2>1, Split
  <2> QED
    BY <2>2, <2>3 DEF F
<1> QED
  BY <1>2, <1>3, <1>4 DEF Join

\* A stream as long as its frame is the frame.
LEMMA StreamComplete ==
  ASSUME NEW m \in Msgs, NEW s, Stream(m, s)
  PROVE  /\ Len(s) \in Nat /\ s \in Seq(Byte)
         /\ Len(s) = Size(m) => s = Frame(m)
         /\ Len(s) = 0 => s = <<>>
         /\ IsPrefixOf(s, Frame(m))
<1>1. s \in Seq(Byte) /\ At(s, m, 0) /\ Len(s) \in Nat /\ Len(s) <= Size(m)
  BY DEF Stream
<1>2. Frame(m) \in Seq(Byte) /\ Len(Frame(m)) = Size(m) /\ At(Frame(m), m, 0)
  BY FrameBytes
<1>3. Len(s) = Size(m) => s = Frame(m)
  BY <1>1, <1>2, AtSame
<1>4. IsPrefixOf(s, Frame(m))
  BY <1>1, AtPrefix
<1> QED
  BY <1>1, <1>3, <1>4

\* Bytes that go from one place of a stream to the next leave it as it is.
LEMMA MoveIn ==
  ASSUME NEW a \in Seq(Byte), NEW i \in Seq(Byte), NEW w \in Seq(Byte),
         NEW n \in Nat, n <= Len(w)
  PROVE  Join(Join(a, Join(i, SubSeq(w, 1, n))), SubSeq(w, n + 1, Len(w)))
           = Join(Join(a, i), w)
<1> DEFINE u == SubSeq(w, 1, n)
           v == SubSeq(w, n + 1, Len(w))
<1>1. w = Join(u, v) /\ u \in Seq(Byte) /\ v \in Seq(Byte)
  BY Split DEF Join
<1> HIDE DEF u, v
<1>2. Join(Join(a, i), u) = Join(a, Join(i, u)) /\ Join(a, i) \in Seq(Byte)
  BY <1>1, JoinAssoc, JoinParts
<1>3. Join(Join(Join(a, i), u), v) = Join(Join(a, i), Join(u, v))
  BY <1>1, <1>2, JoinAssoc
<1>4. Join(Join(a, Join(i, u)), v) = Join(Join(a, i), w)
  BY <1>1, <1>2, <1>3
<1> QED
  BY <1>4 DEF u, v

\* A socket takes bytes of an output buffer.
LEMMA MoveOut ==
  ASSUME NEW w \in Seq(Byte), NEW o \in Seq(Byte), NEW n \in Nat, n <= Len(o)
  PROVE  (w \o SubSeq(o, 1, n)) \o SubSeq(o, n + 1, Len(o)) = w \o o
<1> DEFINE u == SubSeq(o, 1, n)
           v == SubSeq(o, n + 1, Len(o))
<1>1. o = u \o v /\ u \in Seq(Byte) /\ v \in Seq(Byte)
  BY Split
<1> HIDE DEF u, v
<1>3. u \in Seq(Byte) /\ v \in Seq(Byte)
  BY <1>1
<1>2. (w \o u) \o v = w \o (u \o v)
  BY ONLY <1>3, CatAssoc
<1>4. (w \o u) \o v = w \o o
  BY <1>1, <1>2
<1> QED
  BY <1>4 DEF u, v

-----------------------------------------------------------------------------
(* Connections. *)

Buffers == {b \in [buf : Seq(Byte), reader : Nat, writer : Nat] : IsBuffer(b)}

States == {"none", "connecting", "connected", "disconnecting", "disconnected",
           "freed"}

Conns == [state : States, added : BOOLEAN, writing : BOOLEAN,
          in : Buffers, out : Buffers]

LEMMA BuffersAre ==
  ASSUME NEW b
  PROVE  b \in Buffers <=> IsBuffer(b)
  BY DEF Buffers, IsBuffer

LEMMA ConnParts ==
  ASSUME NEW e \in Conns
  PROVE  /\ IsBuffer(e.in) /\ IsBuffer(e.out) /\ e.state \in States
         /\ e.added \in BOOLEAN /\ e.writing \in BOOLEAN
         /\ Content(e.in) \in Seq(Byte) /\ Content(e.out) \in Seq(Byte)
         /\ Len(Content(e.in)) = ReadableBytes(e.in)
         /\ Len(Content(e.out)) = ReadableBytes(e.out)
         /\ ReadableBytes(e.in) \in Nat /\ ReadableBytes(e.out) \in Nat
<1>1. /\ e.in \in Buffers /\ e.out \in Buffers /\ e.state \in States
      /\ e.added \in BOOLEAN /\ e.writing \in BOOLEAN
  BY DEF Conns
<1>2. IsBuffer(e.in) /\ IsBuffer(e.out)
  BY <1>1, BuffersAre
<1> QED
  BY <1>1, <1>2, ContentBytes

\* A new buffer is empty.
LEMMA NewBufferEmpty == IsBuffer(NewBuffer) /\ Content(NewBuffer) = <<>>
<1> DEFINE v == Zeros(CheapPrepend + InitialSize)
           c == SubSeq(v, CheapPrepend + 1, CheapPrepend)
<1>1. CheapPrepend \in Nat /\ InitialSize \in Nat
  BY BufferAssumption
<1>2. v \in Seq(Byte) /\ Len(v) = CheapPrepend + InitialSize
  BY <1>1, BufferAssumption DEF Zeros
<1> HIDE DEF v
<1>3. CheapPrepend <= CheapPrepend /\ CheapPrepend <= Len(v)
  BY <1>1, <1>2
<1>4. /\ IsBuffer(BufferRec(v, CheapPrepend, CheapPrepend))
      /\ Content(BufferRec(v, CheapPrepend, CheapPrepend)) = c
  BY <1>1, <1>2, <1>3, MakeBuffer
<1>5. c \in Seq(Byte) /\ Len(c) = CheapPrepend - CheapPrepend
  BY <1>1, <1>2, <1>3, Slice
<1> HIDE DEF c
<1>6. Len(c) = 0
  BY <1>1, <1>5
<1>7. c = <<>>
  BY <1>5, <1>6
<1> QED
  BY <1>4, <1>7 DEF NewBuffer, v

LEMMA NewConnEmpty ==
  /\ NewConn \in Conns /\ NewConn.state = "connecting" /\ ~NewConn.added
  /\ ~NewConn.writing /\ NewConn.in = NewBuffer /\ NewConn.out = NewBuffer
  /\ Content(NewBuffer) = <<>>
<1>1. NewBuffer \in Buffers /\ Content(NewBuffer) = <<>>
  BY NewBufferEmpty, BuffersAre
<1> QED
  BY <1>1 DEF NewConn, Conns, States

\* sendInLoop puts the bytes of s behind those that the socket has, w, and
\* those that still wait in the output buffer; none is lost or sent twice.
GoesBehind(e, s, room, w) ==
  LET n == TakenAtOnce(e, s, room)
      r == SendRest(e, s, n, FALSE)
  IN /\ n \in Nat /\ n <= room /\ n <= Len(s)
     /\ SubSeq(s, 1, n) \in Seq(Byte) /\ Len(SubSeq(s, 1, n)) = n
     /\ AppendAssertion(e.out, Len(s) - n)
     /\ r \in Conns /\ r.state = e.state /\ r.added = e.added /\ r.in = e.in
     /\ Join(Join(w, SubSeq(s, 1, n)), Content(r.out))
          = Join(Join(w, Content(e.out)), s)

LEMMA SendDoes ==
  ASSUME NEW e \in Conns, e.state = "connected", NEW room \in Nat,
         NEW s \in Seq(Byte), s # <<>>, NEW w \in Seq(Byte)
  PROVE  GoesBehind(e, s, room, w)
<1> DEFINE n == TakenAtOnce(e, s, room)
           r == SendRest(e, s, n, FALSE)
           t == SubSeq(s, n + 1, Len(s))
           u == SubSeq(s, 1, n)
           c == Content(e.out)
<1>0. /\ IsBuffer(e.out) /\ c \in Seq(Byte) /\ Len(c) = ReadableBytes(e.out)
      /\ Len(s) \in Nat /\ Len(s) > 0
  BY ConnParts
<1>1. /\ n \in Nat /\ n <= room /\ n <= Len(s)
      /\ ~Direct(e) => n = 0
      /\ Direct(e) => c = <<>>
  BY <1>0 DEF TakenAtOnce, SmallerOf, Direct
<1> HIDE DEF n
<1>2. /\ s = u \o t /\ u \in Seq(Byte) /\ Len(u) = n
      /\ t \in Seq(Byte) /\ Len(t) = Len(s) - n
  BY <1>1, Split
<1>3. AppendAssertion(e.out, Len(s) - n)
  <2>1. Len(s) - n \in Nat
    BY <1>0, <1>1
  <2> QED
    BY <1>0, <2>1, AppendNeverAsserts
<1> HIDE DEF c
<1>4. CASE n = Len(s)
  <2>1. r = e
    BY <1>4 DEF SendRest
  <2>2. t = <<>> /\ c = <<>>
    BY <1>0, <1>1, <1>2, <1>4
  <2>3. (w \o u) \o c = (w \o c) \o s
    <3> HIDE DEF u, t
    <3>1. s = u /\ w \o c = w /\ w \o u \in Seq(Byte)
      BY <1>2, <2>2, CatEmpty, CatAssoc
    <3> QED
      BY <2>2, <3>1, CatEmpty
  <2> QED
    BY <1>1, <1>2, <1>3, <2>1, <2>3 DEF c, n, Join, GoesBehind
<1>5. CASE n # Len(s)
  <2> DEFINE b == AppendBytes(e.out, t)
  <2>0. IsBuffer(b) /\ Content(b) = c \o t
    <3> HIDE DEF t
    <3> QED
      BY <1>0, <1>2, AppendEnqueues DEF c
  <2>1. r = [e EXCEPT !.out = b, !.writing = TRUE]
    BY <1>5 DEF SendRest
  <2> HIDE DEF b
  <2>2. b \in Buffers
    BY <2>0, BuffersAre
  <2>3. /\ r \in Conns /\ r.state = e.state /\ r.added = e.added
        /\ r.in = e.in /\ r.out = b
    <3> HIDE DEF r
    <3> QED
      BY <2>1, <2>2 DEF Conns
  <2>4. (w \o u) \o (c \o t) = (w \o c) \o s
    <3> HIDE DEF u, t
    <3>1. CASE Direct(e)
      <4>1. c \o t = t /\ w \o c = w
        BY <1>1, <1>2, <3>1, CatEmpty
      <4>2. (w \o u) \o t = w \o (u \o t)
        BY <1>2, CatAssoc, Zenon
      <4> QED
        BY <1>2, <4>1, <4>2
    <3>2. CASE ~Direct(e)
      <4>1. Len(u) = 0
        BY <1>1, <1>2, <3>2
      <4>2. u = <<>>
        BY <1>2, <4>1
      <4>3. w \o u = w /\ s = t
        BY <1>2, <4>2, CatEmpty
      <4>4. (w \o c) \o t = w \o (c \o t)
        <5>1. c \in Seq(Byte) /\ t \in Seq(Byte) /\ w \in Seq(Byte)
          BY <1>0, <1>2
        <5> QED
          BY ONLY <5>1, CatAssoc
      <4> QED
        BY <4>3, <4>4
    <3> QED
      BY <3>1, <3>2
  <2> HIDE DEF r, t, u
  <2>5. (w \o u) \o Content(r.out) = (w \o c) \o s
    BY <2>0, <2>3, <2>4
  <2> QED
    BY <1>1, <1>2, <1>3, <2>3, <2>5 DEF r, u, n, c, Join, GoesBehind
<1> QED
  BY <1>4, <1>5

\* handleWrite hands the first n bytes of the output buffer to the socket.
LEMMA WriteDoes ==
  ASSUME NEW e \in Conns, NEW n \in Nat, n <= ReadableBytes(e.out),
         NEW w \in Seq(Byte)
  PROVE  LET r == HandleWrite(e, n)
             u == SubSeq(Content(e.out), 1, n)
         IN /\ r \in Conns /\ r.state = e.state /\ r.added = e.added
            /\ r.in = e.in /\ RetrieveAssertion(e.out, n)
            /\ u \in Seq(Byte) /\ Len(u) = n
            /\ Join(Join(w, u), Content(r.out)) = Join(w, Content(e.out))
<1> DEFINE c == Content(e.out)
           b == Retrieve(e.out, n)
           r == HandleWrite(e, n)
           u == SubSeq(c, 1, n)
           z == ReadableBytes(b) # 0
<1>1. /\ IsBuffer(e.out) /\ c \in Seq(Byte) /\ Len(c) = ReadableBytes(e.out)
      /\ n <= Len(c)
  BY ConnParts
<1>2. IsBuffer(b) /\ Content(b) = SubSeq(c, n + 1, Len(c))
  BY <1>1, RetrieveDequeues
<1>3. r = [e EXCEPT !.out = b, !.writing = z]
  BY DEF HandleWrite
<1>4. b \in Buffers
  BY <1>2, BuffersAre
<1> HIDE DEF b, c
<1>5. u \in Seq(Byte) /\ Len(u) = n
  BY <1>1, Split
<1>6. (w \o u) \o SubSeq(c, n + 1, Len(c)) = w \o c
  BY <1>1, MoveOut
<1>7. z \in BOOLEAN
  OBVIOUS
<1> HIDE DEF z, r, u
<1>8. /\ r \in Conns /\ r.state = e.state /\ r.added = e.added
      /\ r.in = e.in /\ r.out = b
  BY <1>3, <1>4, <1>7 DEF Conns
<1>9. (w \o u) \o Content(r.out) = w \o c
  BY <1>2, <1>6, <1>8
<1>10. RetrieveAssertion(e.out, n)
  BY DEF RetrieveAssertion
<1> QED
  BY <1>5, <1>8, <1>9, <1>10 DEF r, u, c, Join

\* sendInLoop, whatever becomes of the bytes.
LEMMA SendKeeps ==
  ASSUME NEW e \in Conns, NEW s \in Seq(Byte), NEW n \in Nat, n <= Len(s),
         NEW gone \in BOOLEAN
  PROVE  LET r == SendRest(e, s, n, gone)
         IN /\ r \in Conns /\ r.state = e.state /\ r.added = e.added
            /\ r.in = e.in /\ AppendAssertion(e.out, Len(s) - n)
            /\ e.state = "disconnected" => r = e
<1> DEFINE t == SubSeq(s, n + 1, Len(s))
           b == AppendBytes(e.out, t)
           r == SendRest(e, s, n, gone)
<1>0. IsBuffer(e.out) /\ Len(s) - n \in Nat
  BY ConnParts
<1>1. AppendAssertion(e.out, Len(s) - n)
  BY <1>0, AppendNeverAsserts
<1>2. t \in Seq(Byte)
  BY Split
<1> HIDE DEF t
<1>3. b \in Buffers
  BY <1>0, <1>2, AppendEnqueues, BuffersAre
<1>4. r = e \/ (e.state # "disconnected"
                /\ r = [e EXCEPT !.out = b, !.writing = TRUE])
  <2> DEFINE stays == \/ e.state = "disconnected" \/ n = Len(s)
                      \/ gone /\ Direct(e)
  <2>1. r = IF stays THEN e ELSE [e EXCEPT !.out = b, !.writing = TRUE]
    BY Zenon DEF SendRest, t
  <2>2. ~stays => e.state # "disconnected"
    OBVIOUS
  <2> HIDE DEF stays, r, b
  <2> QED
    BY <2>1, <2>2
<1> HIDE DEF r, b
<1>5. /\ r \in Conns /\ r.state = e.state /\ r.added = e.added
      /\ r.in = e.in
      /\ e.state = "disconnected" => r = e
  BY <1>3, <1>4 DEF Conns
<1> QED
  BY <1>1, <1>5 DEF r

\* handleRead puts the first n bytes of the pipe into the input buffer.
LEMMA ReadDoes ==
  ASSUME NEW e \in Conns, NEW p \in Seq(Byte), NEW n \in 1 .. Len(p)
  PROVE  LET r == ReadSome(e, p, n)
         IN /\ r \in Conns /\ r.state = e.state /\ r.added = e.added
            /\ r.writing = e.writing /\ r.out = e.out
            /\ Content(r.in) = Join(Content(e.in), SubSeq(p, 1, n))
<1> DEFINE u == SubSeq(p, 1, n)
           b == ReadFd(e.in, u)
           r == ReadSome(e, p, n)
<1>0. n \in Nat /\ n <= Len(p) /\ IsBuffer(e.in)
  BY ConnParts
<1>1. u \in Seq(Byte)
  BY <1>0, Split
<1> HIDE DEF u
<1>2. IsBuffer(b) /\ Content(b) = Content(e.in) \o u
  BY <1>0, <1>1, ReadFdEnqueues
<1>3. b \in Buffers
  BY <1>2, BuffersAre
<1>4. r = [e EXCEPT !.in = b]
  BY DEF ReadSome, u
<1> HIDE DEF b, r
<1>5. /\ r \in Conns /\ r.state = e.state /\ r.added = e.added
      /\ r.writing = e.writing /\ r.out = e.out /\ r.in = b
  BY <1>3, <1>4 DEF Conns
<1> QED
  BY <1>2, <1>5 DEF r, u, Join

\* receiveTcpPbMsg takes a whole frame, and nothing of the stream gets lost.
LEMMA TakeFrame ==
  ASSUME NEW b, IsBuffer(b), NEW m \in Msgs, Stream(m, Join(<<>>, Content(b))),
         FrameReady(b)
  PROVE  /\ FrameOf(b) = Frame(m) /\ Parses(b, m) /\ FrameAssertion(b)
         /\ IsBuffer(AfterFrame(b)) /\ Content(AfterFrame(b)) = <<>>
         /\ Join(Join(<<>>, FrameOf(b)), Content(AfterFrame(b)))
              = Join(<<>>, Content(b))
         /\ Join(<<>>, FrameOf(b)) = Frame(m)
<1>1. Content(b) \in Seq(Byte)
  BY ContentBytes
<1>2. Join(<<>>, Content(b)) = Content(b)
  BY <1>1, JoinEmpty
<1>3. Stream(m, Content(b))
  BY <1>2
<1>4. At(Content(b), m, 0) /\ Len(Content(b)) <= Size(m)
  BY <1>3 DEF Stream
<1>5. /\ Len(Content(b)) = Size(m)
      /\ FrameOf(b) = Frame(m) /\ Parses(b, m) /\ FrameAssertion(b)
      /\ IsBuffer(AfterFrame(b)) /\ Content(AfterFrame(b)) = <<>>
  BY <1>4, FrameComplete
<1>6. Content(b) = Frame(m)
  BY <1>3, <1>5, StreamComplete
<1>7. /\ Join(Join(<<>>, Frame(m)), <<>>) = Frame(m)
      /\ Join(<<>>, Frame(m)) = Frame(m)
  BY FrameBytes, JoinEmpty
<1> QED
  BY <1>2, <1>5, <1>6, <1>7

-----------------------------------------------------------------------------
(* The loops' queues. *)

Functors == {"connectEstablished", "offload", "completeTask", "header", "body",
             "removeConnection", "connectDestroyed"}

In(f, s) == \E i \in DOMAIN s : s[i] = f
Distinct(s) == \A i, j \in DOMAIN s : s[i] = s[j] => i = j
Before(f, g, s) == \A i, j \in DOMAIN s : s[i] = f /\ s[j] = g => i < j

Queues == [{"base", "io"} -> Seq(Functors)]

\* A functor at the end of a queue.
LEMMA PushLast ==
  ASSUME NEW s \in Seq(Functors), NEW f \in Functors
  PROVE  /\ Append(s, f) \in Seq(Functors)
         /\ \A g : In(g, Append(s, f)) <=> In(g, s) \/ g = f
         /\ Distinct(s) /\ ~In(f, s) => Distinct(Append(s, f))
         /\ \A a, b : Before(a, b, s) /\ a # b /\ (f = a => ~In(b, s))
                        => Before(a, b, Append(s, f))
<1> DEFINE t == Append(s, f)
<1>1. /\ t \in Seq(Functors) /\ DOMAIN s = 1 .. Len(s)
      /\ DOMAIN t = 1 .. Len(s) + 1 /\ Len(s) \in Nat
      /\ \A i \in 1 .. Len(s) : t[i] = s[i]
      /\ t[Len(s) + 1] = f
  OBVIOUS
<1> HIDE DEF t
<1>4. \A i \in DOMAIN t : i \in DOMAIN s \/ i = Len(s) + 1
  BY <1>1
<1>5. \A i \in DOMAIN s : i \in DOMAIN t /\ t[i] = s[i] /\ i < Len(s) + 1
  BY <1>1
<1>6. Len(s) + 1 \in DOMAIN t
  BY <1>1
<1>2. \A g : In(g, t) <=> In(g, s) \/ g = f
  BY <1>1, <1>4, <1>5, <1>6 DEF In
<1>3. ASSUME Distinct(s), ~In(f, s) PROVE Distinct(t)
  BY <1>1, <1>3, <1>4, <1>5 DEF Distinct, In
<1>7. ASSUME NEW a, NEW b, Before(a, b, s), a # b, f = a => ~In(b, s)
      PROVE  Before(a, b, t)
  <2> SUFFICES ASSUME NEW i \in DOMAIN t, NEW j \in DOMAIN t, t[i] = a, t[j] = b
               PROVE  i < j
    BY DEF Before
  <2>1. CASE i \in DOMAIN s /\ j \in DOMAIN s
    BY <1>5, <1>7, <2>1 DEF Before
  <2>2. CASE i \in DOMAIN s /\ j = Len(s) + 1
    BY <1>5, <2>2
  <2>3. CASE i = Len(s) + 1
    <3>1. f = a
      BY <1>1, <2>3
    <3>2. j \in DOMAIN s
      BY <1>1, <1>4, <1>7, <2>3, <3>1
    <3>3. In(b, s)
      BY <1>5, <3>2 DEF In
    <3> QED
      BY <1>7, <3>1, <3>3
  <2> QED
    BY <1>4, <2>1, <2>2, <2>3
<1> QED
  BY <1>1, <1>2, <1>3, <1>7 DEF t

\* The first functor of a queue.
LEMMA PopFirst ==
  ASSUME NEW s \in Seq(Functors), s # <<>>, Distinct(s)
  PROVE  /\ Tail(s) \in Seq(Functors) /\ In(Head(s), s) /\ Head(s) \in Functors
         /\ \A g : In(g, Tail(s)) <=> In(g, s) /\ g # Head(s)
         /\ Distinct(Tail(s))
         /\ \A a, b : Before(a, b, s)
                        => /\ Before(a, b, Tail(s))
                           /\ Head(s) = b /\ a # b => ~In(a, s)
<1> DEFINE t == Tail(s)
           h == Head(s)
<1>1. /\ t \in Seq(Functors) /\ DOMAIN s = 1 .. Len(s) /\ Len(s) \in Nat
      /\ Len(s) >= 1 /\ DOMAIN t = 1 .. Len(s) - 1
      /\ \A i \in 1 .. Len(s) - 1 : t[i] = s[i + 1]
      /\ h = s[1] /\ h \in Functors
  OBVIOUS
<1> HIDE DEF t, h
<1>2. 1 \in DOMAIN s /\ s[1] = h
  BY <1>1
<1>3. \A i \in DOMAIN t : /\ i \in Int /\ i + 1 \in DOMAIN s
                          /\ t[i] = s[i + 1] /\ i + 1 # 1
  BY <1>1
<1>4. ASSUME NEW i \in DOMAIN s, i # 1
      PROVE  i - 1 \in DOMAIN t /\ t[i - 1] = s[i]
  <2>1. i - 1 \in 1 .. Len(s) - 1 /\ (i - 1) + 1 = i
    BY <1>1, <1>4
  <2> QED
    BY <1>1, <2>1
<1>5. In(h, s)
  BY <1>2 DEF In
<1>6. ASSUME NEW g PROVE In(g, t) <=> In(g, s) /\ g # h
  <2>1. ASSUME In(g, t) PROVE In(g, s) /\ g # h
    <3>1. PICK i \in DOMAIN t : t[i] = g
      BY <2>1 DEF In
    <3>2. i + 1 \in DOMAIN s /\ s[i + 1] = g /\ i + 1 # 1
      BY <1>3, <3>1
    <3>3. g # h
      BY <1>2, <3>2 DEF Distinct
    <3> QED
      BY <3>2, <3>3 DEF In
  <2>2. ASSUME In(g, s), g # h PROVE In(g, t)
    <3>1. PICK i \in DOMAIN s : s[i] = g
      BY <2>2 DEF In
    <3>2. i # 1
      BY <1>2, <2>2, <3>1
    <3> QED
      BY <1>4, <3>1, <3>2 DEF In
  <2> QED
    BY <2>1, <2>2
<1>7. Distinct(t)
  <2> SUFFICES ASSUME NEW i \in DOMAIN t, NEW j \in DOMAIN t, t[i] = t[j]
               PROVE  i = j
    BY DEF Distinct
  <2>1. i + 1 = j + 1
    BY <1>3 DEF Distinct
  <2> QED
    BY <1>3, <2>1
<1>8. ASSUME NEW a, NEW b, Before(a, b, s) PROVE Before(a, b, t)
  <2> SUFFICES ASSUME NEW i \in DOMAIN t, NEW j \in DOMAIN t, t[i] = a, t[j] = b
               PROVE  i < j
    BY DEF Before
  <2>1. i + 1 < j + 1
    BY <1>3, <1>8 DEF Before
  <2> QED
    BY <1>3, <2>1
<1>9. ASSUME NEW a, NEW b, Before(a, b, s), h = b, a # b, In(a, s)
      PROVE  FALSE
  <2>1. PICK i \in DOMAIN s : s[i] = a
    BY <1>9 DEF In
  <2>2. i < 1
    BY <1>2, <1>9, <2>1 DEF Before
  <2> QED
    BY <1>1, <2>1, <2>2
<1> QED
  BY <1>1, <1>5, <1>6, <1>7, <1>8, <1>9, Zenon DEF t, h

\* queueInLoop.
LEMMA QueuePushes ==
  ASSUME NEW q \in Queues, NEW l \in {"base", "io"}, NEW f \in Functors
  PROVE  /\ Queue(q, l, f) \in Queues
         /\ Queue(q, l, f)[l] = Append(q[l], f)
         /\ \A k \in {"base", "io"} : k # l => Queue(q, l, f)[k] = q[k]
         /\ q[l] \in Seq(Functors)
<1>1. Append(q[l], f) \in Seq(Functors) /\ q[l] \in Seq(Functors)
  BY PushLast DEF Queues
<1> QED
  BY <1>1 DEF Queue, Queues

\* doPendingFunctors takes the first.
LEMMA QueuePops ==
  ASSUME NEW q \in Queues, NEW l \in {"base", "io"}, q[l] # <<>>
  PROVE  /\ [q EXCEPT ![l] = Tail(@)] \in Queues
         /\ [q EXCEPT ![l] = Tail(@)][l] = Tail(q[l])
         /\ \A k \in {"base", "io"} : k # l => [q EXCEPT ![l] = Tail(@)][k] = q[k]
         /\ q[l] \in Seq(Functors)
<1>1. Tail(q[l]) \in Seq(Functors) /\ q[l] \in Seq(Functors)
  BY DEF Queues
<1> QED
  BY <1>1 DEF Queues

-----------------------------------------------------------------------------
(* The inductive invariant. *)

\* Which functors wait: BaseFunctors are those of the base loop, IoFunctors
\* those of an I/O loop's; a connection of the base loop needs no other.
BaseFunctors ==
  IF io = "base" THEN {"completeTask", "connectDestroyed"}
                 ELSE {"offload", "completeTask", "removeConnection"}
IoFunctors ==
  IF io = "base" THEN {}
  ELSE {"connectEstablished", "header", "body", "connectDestroyed"}

Offloading == In("offload", queue["base"])
Completing == In("completeTask", queue["base"])
Removing == In("removeConnection", queue["base"])
Establishing == In("connectEstablished", queue[io])
HeaderWaits == In("header", queue[io])
BodyWaits == In("body", queue[io])
Destroying == In("connectDestroyed", queue[io])

\* The task, or the functor that makes it, holds the connection.
Kept == task \in {"held", "untarred"} \/ Offloading

Types ==
  /\ io \in {"base", "io"} /\ queue \in Queues
  /\ connections \in BOOLEAN /\ task \in {"none", "held", "untarred", "done"}
  /\ sending \in {<<>>, <<"header", "body">>, <<"body">>}
  /\ checked \in BOOLEAN /\ exit \in {"no", "quit", "done", "killed"}
  /\ srv \in Conns /\ cli \in Conns
  /\ c2s \in Seq(Byte) /\ s2c \in Seq(Byte)
  /\ Len(c2s) <= PipeCap /\ Len(s2c) <= PipeCap
  /\ got \in [Msgs -> Seq(Byte)] /\ ok = TRUE

\* A functor waits once, in its loop, and behind those it must follow.
Ordered(q) ==
  /\ \A f : In(f, q["base"]) => f \in BaseFunctors
  /\ \A f : In(f, q["io"]) => f \in IoFunctors
  /\ Distinct(q["base"]) /\ Distinct(q["io"])
  /\ Before("header", "body", q[io])
  /\ Before("header", "connectDestroyed", q[io])
  /\ Before("body", "connectDestroyed", q[io])

\* From newConnection to ~TcpConnection.
Life ==
  /\ srv.state \in {"none", "connecting"} =>
       /\ task = "none" /\ ~Offloading /\ ~srv.added
       /\ got["request"] = <<>> /\ Content(srv.in) = <<>>
  /\ srv.state = "none" => ~connections
  /\ Establishing <=> srv.state = "connecting"
  /\ srv.state \in {"connecting", "connected"} => connections
  /\ srv.state = "connected" => srv.added
  /\ srv.writing => srv.state = "connected"
  /\ Removing => connections /\ srv.state = "disconnected"
  /\ Destroying => ~connections /\ srv.state = "disconnected"
  /\ srv.state = "disconnected" =>
       /\ srv.added <=> Removing \/ Destroying
       /\ connections => Removing
       /\ connections \/ Destroying \/ Kept
  /\ srv.state = "freed" => ~connections /\ ~Kept /\ ~srv.added
  /\ srv.state # "disconnecting"

\* From the request to the response.
Work ==
  /\ Offloading => task = "none"
  /\ Completing <=> task = "untarred"
  /\ sending # <<>> \/ HeaderWaits \/ BodyWaits => task = "done"
  /\ checked => sending # <<>> /\ io = "io" /\ connections
  /\ HeaderWaits \/ BodyWaits => connections \/ Destroying
  /\ sending = <<"header", "body">> => ~HeaderWaits
  /\ HeaderWaits /\ srv.state = "connected" => sending # <<>> \/ BodyWaits
  /\ BodyWaits => sending = <<>>
  /\ got["request"] \in {<<>>, Frame("request")}
  /\ got["request"] # <<>> <=> (task # "none" \/ Offloading)

\* The CLI.
Client ==
  /\ exit = "no" => cli.state \in {"connecting", "connected"}
  /\ exit = "quit" => cli.state = "disconnecting"
  /\ CliGone => cli.state = "disconnected" /\ Content(cli.out) = <<>>
  /\ exit \in {"no", "killed"} => got["response"] = <<>>
  /\ exit \in {"quit", "done"} => got["response"] = Frame("response")
  /\ cli.state = "connecting" => cli = NewConn /\ srv.state = "none"

Inbound ==
  Join(Join(Join(got["request"], Content(srv.in)), c2s), Content(cli.out))
Taken == Join(Join(got["response"], Content(cli.in)), s2c)
Outbound == Join(Taken, Content(srv.out))

\* The bytes of the request.
Request ==
  /\ Stream("request", Inbound)
  /\ cli.state = "connecting" => c2s = <<>>
  /\ srv.state \in {"disconnected", "freed"} =>
       c2s = <<>> /\ Content(cli.out) = <<>>

\* How much of the response sendInLoop has been given.
Given ==
  IF sending = <<"header", "body">> \/ HeaderWaits THEN 0
  ELSE IF sending = <<"body">> \/ BodyWaits THEN HeaderLen
  ELSE Size("response")

\* The bytes of the response.
Response ==
  /\ Stream("response", Taken)
  /\ task # "done" => /\ got["response"] = <<>> /\ Content(cli.in) = <<>>
                      /\ s2c = <<>> /\ Content(srv.out) = <<>>
  /\ srv.state = "connected" /\ ~CliGone =>
       /\ Stream("response", Outbound)
       /\ task = "done" => Len(Outbound) = Given

SessionInv ==
  Types /\ Ordered(queue) /\ Life /\ Work /\ Client /\ Request /\ Response

\* Steps that leave the queues alone.
LEMMA QueuesSame ==
  ASSUME Ordered(queue), UNCHANGED <<io, queue>>
  PROVE  /\ Ordered(queue)' /\ (Offloading' <=> Offloading)
         /\ (Completing' <=> Completing) /\ (Removing' <=> Removing)
         /\ (Establishing' <=> Establishing) /\ (HeaderWaits' <=> HeaderWaits)
         /\ (BodyWaits' <=> BodyWaits) /\ (Destroying' <=> Destroying)
  BY Zenon DEF Ordered, BaseFunctors, IoFunctors, Offloading, Completing, Removing,
     Establishing, HeaderWaits, BodyWaits, Destroying

LEMMA InitInv == Init => SessionInv
<1> SUFFICES ASSUME Init PROVE SessionInv
  OBVIOUS
<1>1. /\ io \in {"base", "io"} /\ queue = [l \in {"base", "io"} |-> <<>>]
      /\ connections = FALSE /\ task = "none" /\ sending = <<>>
      /\ checked = FALSE /\ srv = [NewConn EXCEPT !.state = "none"]
      /\ cli = NewConn /\ c2s = <<>> /\ s2c = <<>>
      /\ got = [m \in Msgs |-> <<>>] /\ exit = "no" /\ ok = TRUE
  BY SessionAssumption DEF Init
<1>2. /\ srv \in Conns /\ srv.state = "none" /\ ~srv.added /\ ~srv.writing
      /\ srv.in = NewBuffer /\ srv.out = NewBuffer
      /\ cli \in Conns /\ cli.state = "connecting"
      /\ cli.in = NewBuffer /\ cli.out = NewBuffer
      /\ Content(NewBuffer) = <<>>
  BY <1>1, NewConnEmpty DEF Conns, States
<1>3. got["request"] = <<>> /\ got["response"] = <<>>
      /\ queue["base"] = <<>> /\ queue["io"] = <<>> /\ queue[io] = <<>>
  BY <1>1, Sizes
<1>4. \A f : ~In(f, <<>>)
  BY DEF In
<1>5. Types
  <2>1. queue \in Queues
    BY <1>1 DEF Queues
  <2>2. <<>> \in Seq(Byte) /\ Len(<<>>) = 0 /\ PipeCap \in Nat
    BY Sizes
  <2>3. got \in [Msgs -> Seq(Byte)]
    BY <1>1, <2>2
  <2>4. Len(c2s) <= PipeCap /\ Len(s2c) <= PipeCap
    BY <1>1, <2>2
  <2> QED
    BY <1>1, <1>2, <2>1, <2>2, <2>3, <2>4 DEF Types
<1>6. Ordered(queue)
  <2>1. \A f : ~In(f, queue["base"]) /\ ~In(f, queue["io"])
    BY <1>3, <1>4
  <2>2. Distinct(<<>>) /\ \A a, b : Before(a, b, <<>>)
    BY DEF Distinct, Before
  <2> QED
    BY <1>3, <2>1, <2>2 DEF Ordered
<1>7. /\ ~Offloading /\ ~Completing /\ ~Removing /\ ~Establishing
      /\ ~HeaderWaits /\ ~BodyWaits /\ ~Destroying
  BY <1>3, <1>4 DEF Offloading, Completing, Removing, Establishing, HeaderWaits,
     BodyWaits, Destroying
<1>8. Life
  BY <1>1, <1>2, <1>3, <1>7 DEF Life
<1>9. Work
  BY <1>1, <1>3, <1>7 DEF Work
<1>10. Client
  BY <1>1, <1>2, <1>3 DEF Client, CliGone
<1>11. Join(<<>>, <<>>) = <<>> /\ "request" \in Msgs /\ "response" \in Msgs
  BY Sizes, EmptyJoin
<1>12. Inbound = <<>> /\ Taken = <<>>
  BY <1>1, <1>2, <1>3, <1>11 DEF Inbound, Taken
<1>13. Request
  BY <1>1, <1>2, <1>11, <1>12, StreamFrame DEF Request
<1>14. Response
  BY <1>1, <1>2, <1>3, <1>11, <1>12, StreamFrame DEF Response
<1> QED
  BY <1>5, <1>6, <1>8, <1>9, <1>10, <1>13, <1>14 DEF SessionInv


-----------------------------------------------------------------------------
(* Every step keeps the invariant. *)

\* Streams that a step leaves alone.
LEMMA InboundSame ==
  ASSUME got' = got, Content(srv.in)' = Content(srv.in), c2s' = c2s,
         Content(cli.out)' = Content(cli.out)
  PROVE  Inbound' = Inbound
  BY Zenon DEF Inbound

LEMMA TakenSame ==
  ASSUME got' = got, Content(cli.in)' = Content(cli.in), s2c' = s2c
  PROVE  Taken' = Taken
  BY Zenon DEF Taken

LEMMA OutboundSame ==
  ASSUME Taken' = Taken, Content(srv.out)' = Content(srv.out)
  PROVE  Outbound' = Outbound
  BY Zenon DEF Outbound

\* A functor is put at the end of the queue of a loop.
Pushing(q, l, r, f) ==
  /\ r \in Queues /\ Ordered(r)
  /\ \A g : In(g, r["base"]) <=> In(g, q["base"]) \/ (l = "base" /\ g = f)
  /\ \A g : In(g, r[io]) <=> In(g, q[io]) \/ (l = io /\ g = f)

LEMMA PushedTo ==
  ASSUME NEW q \in Queues, Ordered(q), io \in {"base", "io"},
         NEW l \in {"base", "io"}, NEW f \in Functors, ~In(f, q[l]),
         f \in IF l = "base" THEN BaseFunctors ELSE IoFunctors,
         f = "header" => ~In("body", q[io]) /\ ~In("connectDestroyed", q[io]),
         f = "body" => ~In("connectDestroyed", q[io])
  PROVE  Pushing(q, l, Queue(q, l, f), f)
<1> DEFINE r == Queue(q, l, f)
<1>1. /\ r \in Queues /\ r[l] = Append(q[l], f) /\ q[l] \in Seq(Functors)
      /\ \A k \in {"base", "io"} : k # l => r[k] = q[k]
  BY QueuePushes
<1> HIDE DEF r
<1>2. /\ \A g : In(g, r[l]) <=> In(g, q[l]) \/ g = f
      /\ Distinct(q[l]) => Distinct(r[l])
      /\ \A a, b : Before(a, b, q[l]) /\ a # b /\ (f = a => ~In(b, q[l]))
                        => Before(a, b, r[l])
  BY <1>1, PushLast
<1>3. \A g : In(g, r["base"]) <=> In(g, q["base"]) \/ (l = "base" /\ g = f)
  BY <1>1, <1>2
<1>4. \A g : In(g, r["io"]) <=> In(g, q["io"]) \/ (l = "io" /\ g = f)
  BY <1>1, <1>2
<1>5. \A g : In(g, r[io]) <=> In(g, q[io]) \/ (l = io /\ g = f)
  BY <1>1, <1>2
<1>6. /\ \A g : In(g, q["base"]) => g \in BaseFunctors
      /\ \A g : In(g, q["io"]) => g \in IoFunctors
      /\ Distinct(q["base"]) /\ Distinct(q["io"])
      /\ Before("header", "body", q[io])
      /\ Before("header", "connectDestroyed", q[io])
      /\ Before("body", "connectDestroyed", q[io])
  BY DEF Ordered
<1>7. /\ \A g : In(g, r["base"]) => g \in BaseFunctors
      /\ \A g : In(g, r["io"]) => g \in IoFunctors
  BY <1>3, <1>4, <1>6
<1>8. Distinct(r["base"]) /\ Distinct(r["io"])
  BY <1>1, <1>2, <1>6
<1>9. /\ Before("header", "body", r[io])
      /\ Before("header", "connectDestroyed", r[io])
      /\ Before("body", "connectDestroyed", r[io])
  BY <1>1, <1>2, <1>6
<1>10. Ordered(r)
  BY <1>7, <1>8, <1>9 DEF Ordered
<1>11. Pushing(q, l, r, f)
  BY <1>1, <1>3, <1>5, <1>10 DEF Pushing
<1> QED
  BY <1>11 DEF r

\* A loop takes its first functor.
Popping(q, l, r, f) ==
  /\ r \in Queues /\ Ordered(r)
  /\ f \in IF l = "base" THEN BaseFunctors ELSE IoFunctors
  /\ f \in Functors /\ In(f, q[l])
  /\ \A g : In(g, r["base"]) <=> In(g, q["base"]) /\ ~(l = "base" /\ g = f)
  /\ \A g : In(g, r[io]) <=> In(g, q[io]) /\ ~(l = io /\ g = f)
  /\ l = io /\ f = "body" => ~In("header", q[io])
  /\ l = io /\ f = "connectDestroyed" =>
       ~In("header", q[io]) /\ ~In("body", q[io])

LEMMA PoppedFrom ==
  ASSUME NEW q \in Queues, Ordered(q), io \in {"base", "io"},
         NEW l \in {"base", "io"}, q[l] # <<>>
  PROVE  Popping(q, l, [q EXCEPT ![l] = Tail(@)], Head(q[l]))
<1> DEFINE r == [q EXCEPT ![l] = Tail(@)]
           f == Head(q[l])
<1>1. /\ r \in Queues /\ r[l] = Tail(q[l]) /\ q[l] \in Seq(Functors)
      /\ \A k \in {"base", "io"} : k # l => r[k] = q[k]
  BY QueuePops
<1>6. /\ \A g : In(g, q["base"]) => g \in BaseFunctors
      /\ \A g : In(g, q["io"]) => g \in IoFunctors
      /\ Distinct(q["base"]) /\ Distinct(q["io"])
      /\ Before("header", "body", q[io])
      /\ Before("header", "connectDestroyed", q[io])
      /\ Before("body", "connectDestroyed", q[io])
  BY DEF Ordered
<1> HIDE DEF r
<1>0. Distinct(q[l])
  BY <1>6
<1>2. /\ \A g : In(g, r[l]) <=> In(g, q[l]) /\ g # f
      /\ Distinct(r[l]) /\ In(f, q[l]) /\ f \in Functors
      /\ \A a, b : Before(a, b, q[l])
                     => /\ Before(a, b, r[l])
                        /\ f = b /\ a # b => ~In(a, q[l])
  BY <1>0, <1>1, PopFirst
<1> HIDE DEF f
<1>3. \A g : In(g, r["base"]) <=> In(g, q["base"]) /\ ~(l = "base" /\ g = f)
  BY <1>1, <1>2
<1>4. \A g : In(g, r["io"]) <=> In(g, q["io"]) /\ ~(l = "io" /\ g = f)
  BY <1>1, <1>2
<1>5. \A g : In(g, r[io]) <=> In(g, q[io]) /\ ~(l = io /\ g = f)
  BY <1>1, <1>2
<1>7. /\ \A g : In(g, r["base"]) => g \in BaseFunctors
      /\ \A g : In(g, r["io"]) => g \in IoFunctors
      /\ f \in IF l = "base" THEN BaseFunctors ELSE IoFunctors
  BY <1>2, <1>3, <1>4, <1>6
<1>8. Distinct(r["base"]) /\ Distinct(r["io"])
  BY <1>1, <1>2, <1>6
<1>9. /\ Before("header", "body", r[io])
      /\ Before("header", "connectDestroyed", r[io])
      /\ Before("body", "connectDestroyed", r[io])
  BY <1>1, <1>2, <1>6
<1>10. Ordered(r)
  BY <1>7, <1>8, <1>9 DEF Ordered
<1>11. /\ l = io /\ f = "body" => ~In("header", q[io])
       /\ l = io /\ f = "connectDestroyed" =>
            ~In("header", q[io]) /\ ~In("body", q[io])
  BY <1>2, <1>6
<1>12. Popping(q, l, r, f)
  BY <1>1, <1>2, <1>3, <1>5, <1>7, <1>10, <1>11 DEF Popping
<1> QED
  BY <1>12 DEF r, f

\* The queues in the next state.
LEMMA OrderedNext ==
  ASSUME NEW q, Ordered(q), io' = io, queue' = q
  PROVE  Ordered(queue)'
  BY Zenon DEF Ordered, BaseFunctors, IoFunctors

LEMMA Pushed ==
  ASSUME queue \in Queues, Ordered(queue), io \in {"base", "io"}, io' = io,
         NEW l \in {"base", "io"}, NEW f \in Functors, ~In(f, queue[l]),
         f \in IF l = "base" THEN BaseFunctors ELSE IoFunctors,
         f = "header" => ~BodyWaits /\ ~Destroying, f = "body" => ~Destroying,
         queue' = Queue(queue, l, f)
  PROVE  /\ queue' \in Queues /\ Ordered(queue)'
         /\ \A g : In(g, queue'["base"]) <=>
                    In(g, queue["base"]) \/ (l = "base" /\ g = f)
         /\ \A g : In(g, queue'[io']) <=> In(g, queue[io]) \/ (l = io /\ g = f)
<1> DEFINE r == Queue(queue, l, f)
<1>1. /\ r \in Queues /\ Ordered(r)
      /\ \A g : In(g, r["base"]) <=> In(g, queue["base"]) \/ (l = "base" /\ g = f)
      /\ \A g : In(g, r[io]) <=> In(g, queue[io]) \/ (l = io /\ g = f)
  <2>1. Pushing(queue, l, r, f)
    BY PushedTo DEF BodyWaits, Destroying
  <2> HIDE DEF r
  <2> QED
    BY <2>1 DEF Pushing
<1>2. queue' = r
  OBVIOUS
<1> HIDE DEF r
<1>3. Ordered(queue)'
  BY <1>1, <1>2, OrderedNext
<1> QED
  BY <1>1, <1>2, <1>3

LEMMA UntarredKeeps == SessionInv /\ Untarred => SessionInv'
<1> SUFFICES ASSUME SessionInv, Untarred PROVE SessionInv'
  OBVIOUS
<1>1. Types /\ Ordered(queue) /\ Life /\ Work /\ Client /\ Request /\ Response
  BY DEF SessionInv
<1>2. /\ task = "held" /\ task' = "untarred"
      /\ queue' = Queue(queue, "base", "completeTask")
      /\ UNCHANGED <<io, connections, sending, checked, srv, cli, c2s, s2c, got,
                     exit, ok>>
  BY DEF Untarred
<1>3. "completeTask" \in Functors /\ "completeTask" \in BaseFunctors
      /\ ~In("completeTask", queue["base"])
  BY <1>1, <1>2 DEF Functors, BaseFunctors, Work, Completing
<1>6. /\ queue' \in Queues /\ Ordered(queue)'
      /\ \A g : In(g, queue'["base"]) <=>
                 In(g, queue["base"]) \/ g = "completeTask"
      /\ \A g : In(g, queue'[io']) <=>
                 In(g, queue[io]) \/ (io = "base" /\ g = "completeTask")
  BY <1>1, <1>2, <1>3, Pushed DEF Types
<1>7. /\ (Offloading' <=> Offloading) /\ Completing' /\ (Removing' <=> Removing)
      /\ (Establishing' <=> Establishing) /\ (HeaderWaits' <=> HeaderWaits)
      /\ (BodyWaits' <=> BodyWaits) /\ (Destroying' <=> Destroying)
  BY <1>6 DEF Offloading, Completing, Removing, Establishing,
     HeaderWaits, BodyWaits, Destroying
<1>8. Inbound' = Inbound /\ Taken' = Taken /\ Outbound' = Outbound
  BY <1>2, InboundSame, TakenSame, OutboundSame
<1>9. Types'
  BY <1>1, <1>2, <1>6 DEF Types
<1>10. Life'
  BY <1>1, <1>2, <1>7 DEF Life, Kept
<1>11. Work'
  BY <1>1, <1>2, <1>7 DEF Work, Life, Kept
<1>12. Client'
  BY <1>1, <1>2 DEF Client, CliGone
<1>13. Request' /\ Response'
  BY <1>1, <1>2, <1>7, <1>8 DEF Request, Response, CliGone, Given
<1> QED
  BY <1>6, <1>9, <1>10, <1>11, <1>12, <1>13 DEF SessionInv

\* The parts of a stream are byte sequences.
LEMMA StreamParts ==
  ASSUME Types
  PROVE  /\ \A m \in Msgs : got[m] \in Seq(Byte)
         /\ Content(srv.in) \in Seq(Byte) /\ Content(srv.out) \in Seq(Byte)
         /\ Content(cli.in) \in Seq(Byte) /\ Content(cli.out) \in Seq(Byte)
         /\ c2s \in Seq(Byte) /\ s2c \in Seq(Byte)
         /\ Join(got["request"], Content(srv.in)) \in Seq(Byte)
         /\ Join(got["response"], Content(cli.in)) \in Seq(Byte)
         /\ Taken \in Seq(Byte)
<1>1. /\ \A m \in Msgs : got[m] \in Seq(Byte)
      /\ c2s \in Seq(Byte) /\ s2c \in Seq(Byte) /\ srv \in Conns /\ cli \in Conns
  BY DEF Types
<1>2. /\ Content(srv.in) \in Seq(Byte) /\ Content(srv.out) \in Seq(Byte)
      /\ Content(cli.in) \in Seq(Byte) /\ Content(cli.out) \in Seq(Byte)
  BY <1>1, ConnParts
<1>3. got["request"] \in Seq(Byte) /\ got["response"] \in Seq(Byte)
  BY <1>1, Sizes
<1>4. /\ Join(got["request"], Content(srv.in)) \in Seq(Byte)
      /\ Join(got["response"], Content(cli.in)) \in Seq(Byte)
  BY <1>2, <1>3, JoinParts
<1>5. Taken \in Seq(Byte)
  BY <1>1, <1>4, JoinParts DEF Taken
<1> QED
  BY <1>1, <1>2, <1>4, <1>5

LEMMA StreamPartsNext ==
  Types' => /\ Taken' \in Seq(Byte) /\ Content(srv'.out) \in Seq(Byte)
            /\ Join(got'["request"], Content(srv'.in)) \in Seq(Byte)
<1>1. (Types => /\ Taken \in Seq(Byte) /\ Content(srv.out) \in Seq(Byte)
                /\ Join(got["request"], Content(srv.in)) \in Seq(Byte))'
  BY StreamParts, PTL
<1> QED
  BY <1>1

\* What a socket still takes.
LEMMA RoomFor ==
  ASSUME NEW p \in Seq(Byte), Len(p) <= PipeCap
  PROVE  Room(p) \in Nat /\ Len(p) + Room(p) = PipeCap
  BY Sizes DEF Room

LEMMA SrvHandleWriteKeeps == SessionInv /\ SrvHandleWrite => SessionInv'
<1> SUFFICES ASSUME SessionInv, SrvHandleWrite PROVE SessionInv'
  OBVIOUS
<1>1. Types /\ Ordered(queue) /\ Life /\ Work /\ Client /\ Request /\ Response
  BY DEF SessionInv
<1> DEFINE n == SmallerOf(ReadableBytes(srv.out), Room(s2c))
           u == SubSeq(Content(srv.out), 1, n)
<1>2. /\ srv.writing /\ ~CliGone
      /\ srv' = HandleWrite(srv, n) /\ s2c' = Join(s2c, u)
      /\ ok' = (ok /\ RetrieveAssertion(srv.out, n))
      /\ UNCHANGED <<io, queue, connections, task, sending, checked, cli, c2s,
                     got, exit>>
  BY DEF SrvHandleWrite, Join
<1>3. /\ srv \in Conns /\ cli \in Conns /\ s2c \in Seq(Byte) /\ Len(s2c) <= PipeCap
      /\ ok = TRUE /\ srv.state = "connected"
  BY <1>1, <1>2 DEF Types, Life
<1>4. /\ n \in Nat /\ n <= ReadableBytes(srv.out) /\ n <= Room(s2c)
      /\ Room(s2c) \in Nat /\ Len(s2c) + Room(s2c) = PipeCap
  BY <1>3, RoomFor, ConnParts DEF SmallerOf
<1> HIDE DEF n
<1>5. /\ srv' \in Conns /\ srv'.state = srv.state /\ srv'.added = srv.added
      /\ srv'.in = srv.in /\ RetrieveAssertion(srv.out, n)
      /\ u \in Seq(Byte) /\ Len(u) = n
      /\ Join(Join(s2c, u), Content(srv'.out)) = Join(s2c, Content(srv.out))
  BY <1>2, <1>3, <1>4, WriteDoes
<1> HIDE DEF u
<1>6. s2c' \in Seq(Byte) /\ Len(s2c') <= PipeCap /\ ok' = TRUE
  <2>1. Join(s2c, u) \in Seq(Byte) /\ Len(Join(s2c, u)) = Len(s2c) + Len(u)
    BY <1>3, <1>5, JoinParts
  <2>2. Len(s2c) \in Nat /\ PipeCap \in Nat
    BY <1>3, Sizes
  <2>3. Len(s2c) + n <= PipeCap
    BY <1>4, <2>2
  <2> QED
    BY <1>2, <1>3, <1>5, <2>1, <2>3
<1>7. Types'
  BY <1>1, <1>2, <1>5, <1>6 DEF Types
<1>8. /\ Ordered(queue)' /\ (Offloading' <=> Offloading)
      /\ (Completing' <=> Completing) /\ (Removing' <=> Removing)
      /\ (Establishing' <=> Establishing) /\ (HeaderWaits' <=> HeaderWaits)
      /\ (BodyWaits' <=> BodyWaits) /\ (Destroying' <=> Destroying)
  BY <1>1, <1>2, QueuesSame
<1>9. Inbound' = Inbound
  BY <1>2, <1>5, InboundSame
<1>10. Outbound' = Outbound
  <2> DEFINE p == Join(got["response"], Content(cli.in))
  <2>1. /\ p \in Seq(Byte) /\ s2c' \in Seq(Byte) /\ Content(srv'.out) \in Seq(Byte)
        /\ s2c \in Seq(Byte) /\ Content(srv.out) \in Seq(Byte)
    BY <1>1, <1>5, <1>6, StreamParts, ConnParts
  <2>2. Join(s2c', Content(srv'.out)) = Join(s2c, Content(srv.out))
    BY <1>2, <1>5
  <2>3. Outbound = Join(Join(p, s2c), Content(srv.out))
    BY Zenon DEF Outbound, Taken
  <2>4. Outbound' = Join(Join(p, s2c'), Content(srv'.out))
    BY <1>2, Zenon DEF Outbound, Taken
  <2> HIDE DEF p
  <2>5. Join(Join(p, s2c'), Content(srv'.out))
          = Join(Join(p, s2c), Content(srv.out))
    BY <2>1, <2>2, Regroup
  <2> QED
    BY <2>3, <2>4, <2>5
<1>11. Life'
  BY <1>1, <1>2, <1>3, <1>5, <1>8 DEF Life, Kept
<1>12. Work'
  BY <1>1, <1>2, <1>5, <1>8 DEF Work
<1>13. Client'
  BY <1>1, <1>2, <1>5 DEF Client, CliGone
<1>14. Request'
  BY <1>1, <1>2, <1>5, <1>9 DEF Request
<1>15. Response'
  <2>1. Stream("response", Outbound) /\ (task = "done" => Len(Outbound) = Given)
    BY <1>1, <1>2, <1>3 DEF Response
  <2>2. Given' = Given
    BY <1>2, <1>8 DEF Given
  <2>3. Stream("response", Taken')
    <3>1. Outbound' = Join(Taken', Content(srv'.out))
      BY Zenon DEF Outbound
    <3>2. Taken' \in Seq(Byte) /\ Content(srv'.out) \in Seq(Byte)
      BY <1>7, StreamPartsNext
    <3> QED
      BY <1>10, <2>1, <3>1, <3>2, StreamBegins, Sizes
  <2>4. ASSUME task # "done" PROVE s2c' = <<>> /\ Content(srv'.out) = <<>>
    <3>1. s2c = <<>> /\ Content(srv.out) = <<>>
      BY <1>1, <2>4 DEF Response
    <3>2. Join(s2c', Content(srv'.out)) = <<>>
      BY <1>2, <1>5, <3>1, EmptyJoin
    <3> QED
      BY <1>5, <1>6, <3>2, BothEmpty, ConnParts
  <2> QED
    BY <1>1, <1>2, <1>10, <2>1, <2>2, <2>3, <2>4 DEF Response, CliGone
<1> QED
  BY <1>7, <1>8, <1>11, <1>12, <1>13, <1>14, <1>15 DEF SessionInv

LEMMA CliHandleWriteKeeps == SessionInv /\ CliHandleWrite => SessionInv'
<1> SUFFICES ASSUME SessionInv, CliHandleWrite PROVE SessionInv'
  OBVIOUS
<1>1. Types /\ Ordered(queue) /\ Life /\ Work /\ Client /\ Request /\ Response
  BY DEF SessionInv
<1> DEFINE n == SmallerOf(ReadableBytes(cli.out), Room(c2s))
           u == SubSeq(Content(cli.out), 1, n)
<1>2. /\ exit = "no" /\ cli.writing
      /\ cli' = HandleWrite(cli, n) /\ c2s' = Join(c2s, u)
      /\ ok' = (ok /\ RetrieveAssertion(cli.out, n))
      /\ UNCHANGED <<io, queue, connections, task, sending, checked, srv, s2c,
                     got, exit>>
  BY DEF CliHandleWrite, Join
<1>3. /\ srv \in Conns /\ cli \in Conns /\ c2s \in Seq(Byte) /\ Len(c2s) <= PipeCap
      /\ ok = TRUE /\ cli.state = "connected"
  BY <1>1, <1>2, NewConnEmpty DEF Types, Client
<1>4. /\ n \in Nat /\ n <= ReadableBytes(cli.out) /\ n <= Room(c2s)
      /\ Room(c2s) \in Nat /\ Len(c2s) + Room(c2s) = PipeCap
  BY <1>3, RoomFor, ConnParts DEF SmallerOf
<1> HIDE DEF n
<1>5. /\ cli' \in Conns /\ cli'.state = cli.state /\ cli'.added = cli.added
      /\ cli'.in = cli.in /\ RetrieveAssertion(cli.out, n)
      /\ u \in Seq(Byte) /\ Len(u) = n
      /\ Join(Join(c2s, u), Content(cli'.out)) = Join(c2s, Content(cli.out))
  BY <1>2, <1>3, <1>4, WriteDoes
<1> HIDE DEF u
<1>6. c2s' \in Seq(Byte) /\ Len(c2s') <= PipeCap /\ ok' = TRUE
  <2>1. Join(c2s, u) \in Seq(Byte) /\ Len(Join(c2s, u)) = Len(c2s) + Len(u)
    BY <1>3, <1>5, JoinParts
  <2>2. Len(c2s) \in Nat /\ PipeCap \in Nat
    BY <1>3, Sizes
  <2>3. Len(c2s) + n <= PipeCap
    BY <1>4, <2>2
  <2> QED
    BY <1>2, <1>3, <1>5, <2>1, <2>3
<1>7. Types'
  BY <1>1, <1>2, <1>5, <1>6 DEF Types
<1>8. /\ Ordered(queue)' /\ (Offloading' <=> Offloading)
      /\ (Completing' <=> Completing) /\ (Removing' <=> Removing)
      /\ (Establishing' <=> Establishing) /\ (HeaderWaits' <=> HeaderWaits)
      /\ (BodyWaits' <=> BodyWaits) /\ (Destroying' <=> Destroying)
  BY <1>1, <1>2, QueuesSame
<1>9. Taken' = Taken /\ Outbound' = Outbound
  BY <1>2, <1>5, TakenSame, OutboundSame
<1>10. Inbound' = Inbound
  <2> DEFINE p == Join(got["request"], Content(srv.in))
  <2>1. /\ p \in Seq(Byte) /\ c2s' \in Seq(Byte) /\ Content(cli'.out) \in Seq(Byte)
        /\ c2s \in Seq(Byte) /\ Content(cli.out) \in Seq(Byte)
    BY <1>1, <1>5, <1>6, StreamParts, ConnParts
  <2>2. Join(c2s', Content(cli'.out)) = Join(c2s, Content(cli.out))
    BY <1>2, <1>5
  <2>3. Inbound = Join(Join(p, c2s), Content(cli.out))
    BY Zenon DEF Inbound
  <2>4. Inbound' = Join(Join(p, c2s'), Content(cli'.out))
    BY <1>2, Zenon DEF Inbound
  <2> HIDE DEF p
  <2>5. Join(Join(p, c2s'), Content(cli'.out))
          = Join(Join(p, c2s), Content(cli.out))
    BY <2>1, <2>2, Regroup
  <2> QED
    BY <2>3, <2>4, <2>5
<1>11. Life'
  BY <1>1, <1>2, <1>8 DEF Life, Kept
<1>12. Work'
  BY <1>1, <1>2, <1>8 DEF Work
<1>13. Client'
  BY <1>1, <1>2, <1>3, <1>5 DEF Client, CliGone
<1>14. Request'
  <2>1. ASSUME srv.state \in {"disconnected", "freed"}
        PROVE  c2s' = <<>> /\ Content(cli'.out) = <<>>
    <3>1. c2s = <<>> /\ Content(cli.out) = <<>>
      BY <1>1, <2>1 DEF Request
    <3>2. Join(c2s', Content(cli'.out)) = <<>>
      BY <1>2, <1>5, <3>1, EmptyJoin
    <3> QED
      BY <1>5, <1>6, <3>2, BothEmpty, ConnParts
  <2> QED
    BY <1>1, <1>2, <1>3, <1>5, <1>10, <2>1 DEF Request
<1>15. Response'
  BY <1>1, <1>2, <1>5, <1>8, <1>9 DEF Response, CliGone, Given
<1> QED
  BY <1>7, <1>8, <1>11, <1>12, <1>13, <1>14, <1>15 DEF SessionInv

\* The CLI's process ends; the first n bytes on their way are not lost.
LEMMA CliEndsKeeps ==
  ASSUME SessionInv, NEW how \in {"done", "killed"}, CliEnds(how),
         how = "done" => exit = "quit", how = "killed" => exit = "no",
         NEW n \in 0 .. Len(c2s), c2s' = SubSeq(c2s, 1, n)
  PROVE  SessionInv'
<1>1. Types /\ Ordered(queue) /\ Life /\ Work /\ Client /\ Request /\ Response
  BY DEF SessionInv
<1>2. /\ exit' = how /\ cli' = [NewConn EXCEPT !.state = "disconnected"]
      /\ s2c' = <<>>
      /\ UNCHANGED <<io, queue, connections, task, sending, checked, srv, got, ok>>
  BY DEF CliEnds
<1>3. /\ cli' \in Conns /\ cli'.state = "disconnected"
      /\ Content(cli'.in) = <<>> /\ Content(cli'.out) = <<>>
  BY <1>2, NewConnEmpty DEF Conns, States
<1> DEFINE u == SubSeq(c2s, 1, n)
           v == SubSeq(c2s, n + 1, Len(c2s))
           p == Join(got["request"], Content(srv.in))
<1>4. /\ n \in Nat /\ n <= Len(c2s) /\ c2s \in Seq(Byte) /\ Len(c2s) <= PipeCap
      /\ Len(c2s) \in Nat /\ PipeCap \in Nat
  BY <1>1, Sizes DEF Types
<1>5. /\ c2s = Join(u, v) /\ u \in Seq(Byte) /\ Len(u) = n /\ v \in Seq(Byte)
  BY <1>4, Split DEF Join
<1> HIDE DEF u, v
<1>6. c2s' = u
  BY DEF u
<1>7. /\ p \in Seq(Byte) /\ Content(cli.out) \in Seq(Byte)
      /\ got["response"] \in Seq(Byte) /\ got["request"] \in Seq(Byte)
  BY <1>1, StreamParts, Sizes
<1>8. Types'
  <2>1. <<>> \in Seq(Byte) /\ Len(<<>>) = 0 /\ PipeCap \in Nat
    BY Sizes
  <2>2. s2c' \in Seq(Byte) /\ Len(s2c') <= PipeCap
    BY <1>2, <2>1
  <2>3. c2s' \in Seq(Byte) /\ Len(c2s') <= PipeCap
    BY <1>4, <1>5, <1>6
  <2> QED
    BY <1>1, <1>2, <1>3, <2>2, <2>3 DEF Types
<1>9. /\ Ordered(queue)' /\ (Offloading' <=> Offloading)
      /\ (Completing' <=> Completing) /\ (Removing' <=> Removing)
      /\ (Establishing' <=> Establishing) /\ (HeaderWaits' <=> HeaderWaits)
      /\ (BodyWaits' <=> BodyWaits) /\ (Destroying' <=> Destroying)
  BY <1>1, <1>2, QueuesSame
<1>10. Stream("request", Inbound')
  <2>1. Stream("request", Join(Join(p, c2s), Content(cli.out)))
    BY <1>1, Zenon DEF Request, Inbound
  <2>2. Inbound' = Join(Join(p, u), <<>>)
    BY <1>2, <1>3, <1>6, Zenon DEF Inbound
  <2> HIDE DEF p
  <2>3. Join(p, c2s) \in Seq(Byte) /\ Join(p, u) \in Seq(Byte)
    BY <1>4, <1>5, <1>7, JoinParts
  <2>4. Stream("request", Join(p, c2s))
    BY <1>7, <2>1, <2>3, StreamBegins, Sizes
  <2>5. Join(p, c2s) = Join(Join(p, u), v)
    BY <1>5, <1>7, JoinAssoc
  <2>6. Stream("request", Join(p, u))
    BY <1>5, <2>3, <2>4, <2>5, StreamBegins, Sizes
  <2> QED
    BY <2>2, <2>3, <2>6, JoinEmpty
<1>11. Life'
  BY <1>1, <1>2, <1>9 DEF Life, Kept
<1>12. Work'
  BY <1>1, <1>2, <1>9 DEF Work
<1>13. Client'
  BY <1>1, <1>2, <1>3 DEF Client, CliGone
<1>14. Request'
  <2>1. ASSUME srv.state \in {"disconnected", "freed"} PROVE c2s' = <<>>
    <3>1. c2s = <<>>
      BY <1>1, <2>1 DEF Request
    <3>2. Len(u) = 0
      BY <1>4, <1>5, <3>1
    <3> QED
      BY <1>5, <1>6, <3>2
  <2> QED
    BY <1>2, <1>3, <1>10, <2>1 DEF Request
<1>15. Response'
  <2>1. Taken' = got["response"]
    <3>1. Taken' = Join(Join(got["response"], <<>>), <<>>)
      BY <1>2, <1>3, Zenon DEF Taken
    <3> QED
      BY <1>7, <3>1, JoinEmpty
  <2>2. got["response"] \in {<<>>, Frame("response")}
    BY <1>1 DEF Client, Types
  <2>3. Stream("response", Taken')
    <3>1. Stream("response", Frame("response")) /\ Stream("response", <<>>)
      <4>1. "response" \in Msgs
        BY ONLY Sizes
      <4> QED
        BY ONLY <4>1, StreamFrame
    <3> QED
      BY <2>1, <2>2, <3>1
  <2> QED
    BY <1>1, <1>2, <1>3, <2>3 DEF Response, CliGone
<1> QED
  BY <1>8, <1>9, <1>11, <1>12, <1>13, <1>14, <1>15 DEF SessionInv

LEMMA CliExitKeeps == SessionInv /\ CliExit => SessionInv'
<1> SUFFICES ASSUME SessionInv, CliExit PROVE SessionInv'
  OBVIOUS
<1>1. exit = "quit" /\ CliEnds("done") /\ c2s' = c2s
  BY DEF CliExit
<1>2. c2s \in Seq(Byte)
  BY DEF SessionInv, Types
<1>3. Len(c2s) \in 0 .. Len(c2s) /\ SubSeq(c2s, 1, Len(c2s)) = c2s
  BY <1>2, SMT
<1> QED
  BY <1>1, <1>3, CliEndsKeeps

LEMMA CliKilledKeeps == SessionInv /\ CliKilled => SessionInv'
<1> SUFFICES ASSUME SessionInv, CliKilled PROVE SessionInv'
  OBVIOUS
<1>1. exit = "no" /\ CliEnds("killed")
  BY DEF CliKilled
<1>2. PICK n \in 0 .. Len(c2s) : c2s' = SubSeq(c2s, 1, n)
  BY DEF CliKilled
<1> QED
  BY <1>1, <1>2, CliEndsKeeps

LEMMA OnConnectionKeeps == SessionInv /\ OnConnection => SessionInv'
<1> SUFFICES ASSUME SessionInv, OnConnection PROVE SessionInv'
  OBVIOUS
<1>1. Types /\ Ordered(queue) /\ Life /\ Work /\ Client /\ Request /\ Response
  BY DEF SessionInv
<1> DEFINE h  == Header("request")
           b  == Body("request")
           up == [cli EXCEPT !.state = "connected", !.added = TRUE]
           n1 == TakenAtOnce(up, h, PipeCap)
           e1 == SendRest(up, h, n1, FALSE)
           n2 == TakenAtOnce(e1, b, PipeCap - n1)
           e2 == SendRest(e1, b, n2, FALSE)
           u1 == SubSeq(h, 1, n1)
           u2 == SubSeq(b, 1, n2)
<1>2. /\ cli.state = "connecting" /\ exit = "no" /\ cli' = e2
      /\ c2s' = Join(u1, u2)
      /\ ok' = (ok /\ AppendAssertion(e1.out, Len(b) - n2))
      /\ UNCHANGED <<io, queue, connections, task, sending, checked, srv, s2c,
                     got, exit>>
  BY DEF OnConnection, Join
<1>3. /\ cli = NewConn /\ srv.state = "none" /\ c2s = <<>>
      /\ got["request"] = <<>> /\ Content(srv.in) = <<>> /\ ok = TRUE
      /\ PipeCap \in Nat
  BY <1>1, <1>2, Sizes DEF Client, Life, Request, Types
<1>4. /\ up \in Conns /\ up.state = "connected" /\ up.in = cli.in
      /\ Content(up.out) = <<>>
  BY <1>3, NewConnEmpty DEF Conns, States
<1>5. /\ h \in Seq(Byte) /\ h # <<>> /\ b \in Seq(Byte) /\ b # <<>>
      /\ Join(h, b) = Frame("request") /\ Frame("request") \in Seq(Byte)
      /\ Stream("request", Frame("request"))
  <2>1. "request" \in Msgs /\ HeaderLen # 0 /\ BodyLen["request"] # 0
    BY Sizes
  <2>2. /\ h \in Seq(Byte) /\ Len(h) = HeaderLen
        /\ b \in Seq(Byte) /\ Len(b) = BodyLen["request"]
        /\ Frame("request") \in Seq(Byte)
    BY <2>1, FrameBytes
  <2>3. Join(h, b) = Frame("request") /\ Stream("request", Frame("request"))
    BY <2>1, StreamFrame
  <2> HIDE DEF h, b
  <2>4. h # <<>> /\ b # <<>>
    BY <2>1, <2>2
  <2> QED
    BY <2>2, <2>3, <2>4
<1> HIDE DEF h, b, up
<1>6. /\ up \in Conns /\ up.state = "connected" /\ PipeCap \in Nat
      /\ h \in Seq(Byte) /\ h # <<>> /\ <<>> \in Seq(Byte)
  BY <1>3, <1>4, <1>5
<1>7. /\ n1 \in Nat /\ n1 <= PipeCap /\ u1 \in Seq(Byte) /\ Len(u1) = n1
      /\ e1 \in Conns /\ e1.state = up.state /\ e1.in = up.in
      /\ Join(Join(<<>>, u1), Content(e1.out)) = Join(Join(<<>>, Content(up.out)), h)
  <2>1. GoesBehind(up, h, PipeCap, <<>>)
    BY <1>6, SendDoes
  <2> QED
    BY ONLY <2>1 DEF GoesBehind, n1, e1, u1
<1> HIDE DEF n1, e1, u1
<1>8. /\ e1 \in Conns /\ e1.state = "connected" /\ PipeCap - n1 \in Nat
      /\ b \in Seq(Byte) /\ b # <<>> /\ u1 \in Seq(Byte)
  BY <1>3, <1>4, <1>5, <1>7
<1>9. /\ n2 \in Nat /\ n2 <= PipeCap - n1 /\ u2 \in Seq(Byte) /\ Len(u2) = n2
      /\ AppendAssertion(e1.out, Len(b) - n2)
      /\ e2 \in Conns /\ e2.state = e1.state /\ e2.in = e1.in
      /\ Join(Join(u1, u2), Content(e2.out)) = Join(Join(u1, Content(e1.out)), b)
  <2>1. GoesBehind(e1, b, PipeCap - n1, u1)
    BY <1>8, SendDoes
  <2> QED
    BY ONLY <2>1 DEF GoesBehind, n2, e2, u2
<1> HIDE DEF n2, e2, u2
<1>10. /\ cli' \in Conns /\ cli'.state = "connected" /\ cli'.in = cli.in
  BY <1>2, <1>4, <1>7, <1>9
<1>11. c2s' \in Seq(Byte) /\ Len(c2s') <= PipeCap /\ ok' = TRUE
  <2>1. Join(u1, u2) \in Seq(Byte) /\ Len(Join(u1, u2)) = Len(u1) + Len(u2)
    BY <1>7, <1>9, JoinParts
  <2>2. n1 + n2 <= PipeCap
    BY <1>3, <1>7, <1>9
  <2> QED
    BY <1>2, <1>3, <1>7, <1>9, <2>1, <2>2
<1>12. Join(c2s', Content(cli'.out)) = Frame("request")
  <2>1. Join(<<>>, u1) = u1 /\ Join(Join(<<>>, <<>>), h) = h
    BY <1>5, <1>7, JoinEmpty, EmptyJoin
  <2>2. Join(u1, Content(e1.out)) = h
    BY <1>4, <1>7, <2>1
  <2> QED
    BY <1>2, <1>5, <1>9, <2>2
<1>13. Inbound' = Frame("request")
  <2>1. Inbound' = Join(Join(Join(<<>>, <<>>), c2s'), Content(cli'.out))
    BY <1>2, <1>3, Zenon DEF Inbound
  <2>2. Join(Join(<<>>, <<>>), c2s') = c2s'
    BY <1>11, JoinEmpty, EmptyJoin
  <2> QED
    BY <1>12, <2>1, <2>2
<1>14. Types'
  BY <1>1, <1>2, <1>10, <1>11 DEF Types
<1>15. /\ Ordered(queue)' /\ (Offloading' <=> Offloading)
       /\ (Completing' <=> Completing) /\ (Removing' <=> Removing)
       /\ (Establishing' <=> Establishing) /\ (HeaderWaits' <=> HeaderWaits)
       /\ (BodyWaits' <=> BodyWaits) /\ (Destroying' <=> Destroying)
  BY <1>1, <1>2, QueuesSame
<1>16. Taken' = Taken /\ Outbound' = Outbound
  BY <1>2, <1>10, TakenSame, OutboundSame
<1>17. Life'
  BY <1>1, <1>2, <1>15 DEF Life, Kept
<1>18. Work'
  BY <1>1, <1>2, <1>15 DEF Work
<1>19. Client'
  BY <1>1, <1>2, <1>10 DEF Client, CliGone
<1>20. Request'
  BY <1>2, <1>3, <1>5, <1>10, <1>13 DEF Request
<1>21. Response'
  BY <1>1, <1>2, <1>10, <1>15, <1>16 DEF Response, CliGone, Given
<1> QED
  BY <1>14, <1>15, <1>17, <1>18, <1>19, <1>20, <1>21 DEF SessionInv

LEMMA CliHandleReadKeeps == SessionInv /\ CliHandleRead => SessionInv'
<1> SUFFICES ASSUME SessionInv, CliHandleRead PROVE SessionInv'
  OBVIOUS
<1>1. Types /\ Ordered(queue) /\ Life /\ Work /\ Client /\ Request /\ Response
  BY DEF SessionInv
<1>2. /\ exit = "no" /\ cli.state = "connected"
      /\ UNCHANGED <<io, queue, connections, task, sending, checked, srv, c2s>>
  BY DEF CliHandleRead
<1>3. PICK n \in 1 .. Len(s2c) :
        /\ s2c' = SubSeq(s2c, n + 1, Len(s2c))
        /\ LET e == ReadSome(cli, s2c, n) IN
           IF ~FrameReady(e.in)
             THEN cli' = e /\ UNCHANGED <<got, exit, ok>>
             ELSE /\ ok' = (ok /\ FrameAssertion(e.in))
                  /\ got' = [got EXCEPT !["response"] = Join(@, FrameOf(e.in))]
                  /\ IF Parses(e.in, "response")
                       THEN /\ exit' = "quit"
                            /\ cli' = [e EXCEPT !.in = AfterFrame(@),
                                                !.state = "disconnecting"]
                       ELSE /\ cli' = [e EXCEPT !.in = AfterFrame(@)]
                            /\ UNCHANGED exit
  BY Zenon DEF CliHandleRead, Join
<1> DEFINE e == ReadSome(cli, s2c, n)
           u == SubSeq(s2c, 1, n)
           v == SubSeq(s2c, n + 1, Len(s2c))
<1>4. /\ s2c \in Seq(Byte) /\ n \in Nat /\ n <= Len(s2c) /\ n >= 1
      /\ Len(s2c) \in Nat /\ Len(s2c) <= PipeCap /\ PipeCap \in Nat
      /\ cli \in Conns /\ got \in [Msgs -> Seq(Byte)] /\ ok = TRUE
      /\ got["response"] = <<>> /\ "response" \in Msgs /\ "request" \in Msgs
  BY <1>1, <1>2, Sizes DEF Types, Client
<1>5. u \in Seq(Byte) /\ v \in Seq(Byte) /\ Len(v) = Len(s2c) - n
  BY <1>4, Split
<1>6. /\ e \in Conns /\ e.state = cli.state /\ e.out = cli.out
      /\ Content(e.in) = Join(Content(cli.in), u)
  BY <1>4, ReadDoes
<1>7. Join(Join(<<>>, Join(Content(cli.in), u)), v)
        = Join(Join(<<>>, Content(cli.in)), s2c)
  BY <1>4, EmptyJoin, ConnParts, MoveIn
<1>8. Taken = Join(Join(<<>>, Content(cli.in)), s2c)
  BY <1>4, Zenon DEF Taken
<1>9. s2c' = v /\ s2c' \in Seq(Byte) /\ Len(s2c') <= PipeCap
  BY <1>3, <1>4, <1>5
<1>10. task = "done"
  <2>1. s2c # <<>>
    BY <1>4
  <2> QED
    BY <1>1, <2>1 DEF Response
<1> HIDE DEF e, u, v
<1>11. Taken = Join(Join(<<>>, Content(e.in)), v)
  BY <1>6, <1>7, <1>8
<1>12. /\ cli' \in Conns /\ cli'.out = cli.out /\ ok' = TRUE
       /\ got' \in [Msgs -> Seq(Byte)] /\ got'["request"] = got["request"]
       /\ Join(got'["response"], Content(cli'.in)) = Join(<<>>, Content(e.in))
       /\ \/ /\ exit' = "no" /\ cli'.state = "connected"
             /\ got'["response"] = <<>>
          \/ /\ exit' = "quit" /\ cli'.state = "disconnecting"
             /\ got'["response"] = Frame("response")
  <2>1. CASE ~FrameReady(e.in)
    <3>1. cli' = e /\ UNCHANGED <<got, exit, ok>>
      BY <1>3, <2>1 DEF e
    <3> QED
      BY <1>2, <1>4, <1>6, <3>1
  <2>2. CASE FrameReady(e.in)
    <3>1. /\ ok' = (ok /\ FrameAssertion(e.in))
          /\ got' = [got EXCEPT !["response"] = Join(@, FrameOf(e.in))]
          /\ Parses(e.in, "response") =>
               /\ exit' = "quit"
               /\ cli' = [e EXCEPT !.in = AfterFrame(@), !.state = "disconnecting"]
      BY <1>3, <2>2 DEF e
    <3>2. Stream("response", Join(<<>>, Content(e.in)))
      <4>1. Stream("response", Taken)
        BY <1>1 DEF Response
      <4>2. Join(<<>>, Content(e.in)) \in Seq(Byte)
        BY <1>6, ConnParts, EmptyJoin, JoinParts
      <4> QED
        BY <1>4, <1>5, <1>11, <4>1, <4>2, StreamBegins
    <3>3. IsBuffer(e.in)
      BY <1>6, ConnParts
    <3>4. /\ FrameOf(e.in) = Frame("response") /\ Parses(e.in, "response")
          /\ FrameAssertion(e.in) /\ IsBuffer(AfterFrame(e.in))
          /\ Join(Join(<<>>, FrameOf(e.in)), Content(AfterFrame(e.in)))
               = Join(<<>>, Content(e.in))
          /\ Join(<<>>, FrameOf(e.in)) = Frame("response")
      BY <1>4, <2>2, <3>2, <3>3, TakeFrame
    <3>5. AfterFrame(e.in) \in Buffers /\ Frame("response") \in Seq(Byte)
      BY <1>4, <3>4, BuffersAre, FrameBytes
    <3>6. /\ exit' = "quit"
          /\ cli' = [e EXCEPT !.in = AfterFrame(@), !.state = "disconnecting"]
      BY <3>1, <3>4
    <3>7. /\ cli' \in Conns /\ cli'.out = e.out /\ cli'.in = AfterFrame(e.in)
          /\ cli'.state = "disconnecting"
      BY <1>6, <3>5, <3>6 DEF Conns, States
    <3>8. /\ got' \in [Msgs -> Seq(Byte)] /\ got'["request"] = got["request"]
          /\ got'["response"] = Frame("response")
      BY <1>4, <3>1, <3>4, <3>5
    <3>9. Join(got'["response"], Content(cli'.in)) = Join(<<>>, Content(e.in))
      BY <3>4, <3>7, <3>8
    <3> QED
      BY <1>4, <1>6, <3>1, <3>4, <3>6, <3>7, <3>8, <3>9
  <2> QED
    BY <2>1, <2>2
<1>13. Taken' = Taken
  <2>1. Taken' = Join(Join(got'["response"], Content(cli'.in)), s2c')
    BY Zenon DEF Taken
  <2> QED
    BY <1>9, <1>11, <1>12, <2>1
<1>14. Outbound' = Outbound
  BY <1>2, <1>13, OutboundSame
<1>15. Inbound' = Inbound
  BY <1>2, <1>12 DEF Inbound
<1>16. Types'
  BY <1>1, <1>2, <1>9, <1>12 DEF Types
<1>17. /\ Ordered(queue)' /\ (Offloading' <=> Offloading)
       /\ (Completing' <=> Completing) /\ (Removing' <=> Removing)
       /\ (Establishing' <=> Establishing) /\ (HeaderWaits' <=> HeaderWaits)
       /\ (BodyWaits' <=> BodyWaits) /\ (Destroying' <=> Destroying)
  BY <1>1, <1>2, QueuesSame
<1>18. Life'
  BY <1>1, <1>2, <1>12, <1>17 DEF Life, Kept
<1>19. Work'
  BY <1>1, <1>2, <1>12, <1>17 DEF Work
<1>20. Client'
  BY <1>1, <1>2, <1>12 DEF Client, CliGone
<1>21. Request'
  BY <1>1, <1>2, <1>12, <1>15 DEF Request
<1>22. Response'
  BY <1>1, <1>2, <1>10, <1>12, <1>13, <1>14, <1>17 DEF Response, CliGone, Given
<1> QED
  BY <1>16, <1>17, <1>18, <1>19, <1>20, <1>21, <1>22 DEF SessionInv

\* The pieces of the response, and where they belong.
LEMMA Pieces ==
  ASSUME NEW p \in {"header", "body"}
  PROVE  LET a == IF p = "header" THEN 0 ELSE HeaderLen
             z == IF p = "header" THEN HeaderLen ELSE Size("response")
         IN /\ Piece(p) \in Seq(Byte) /\ Piece(p) # <<>>
            /\ At(Piece(p), "response", a) /\ a + Len(Piece(p)) = z
            /\ z <= Size("response")
<1>1. /\ "response" \in Msgs /\ HeaderLen \in Nat \ {0}
      /\ BodyLen["response"] \in Nat \ {0}
      /\ Size("response") = HeaderLen + BodyLen["response"]
  BY Sizes DEF Size
<1>2. CASE p = "header"
  <2>1. Piece(p) = Header("response")
    BY <1>2 DEF Piece
  <2>2. /\ Header("response") \in Seq(Byte) /\ Len(Header("response")) = HeaderLen
        /\ At(Header("response"), "response", 0)
    BY <1>1, FrameBytes
  <2> QED
    BY <1>1, <1>2, <2>1, <2>2
<1>3. CASE p = "body"
  <2>1. Piece(p) = Body("response")
    BY <1>3 DEF Piece
  <2>2. /\ Body("response") \in Seq(Byte)
        /\ Len(Body("response")) = BodyLen["response"]
        /\ At(Body("response"), "response", HeaderLen)
    BY <1>1, FrameBytes
  <2> QED
    BY <1>1, <1>3, <2>1, <2>2
<1> QED
  BY <1>2, <1>3

\* sendInLoop of a piece whose turn it is.
LEMMA SrvSends ==
  ASSUME SessionInv, NEW p \in {"header", "body"}, SrvSendInLoop(p),
         UNCHANGED <<cli, got, exit>>,
         srv.state \in {"connected", "disconnected"}, 
         srv.state = "connected" /\ ~CliGone =>
           Len(Outbound) = IF p = "header" THEN 0 ELSE HeaderLen
  PROVE  /\ srv' \in Conns /\ srv'.state = srv.state /\ srv'.added = srv.added
         /\ srv'.in = srv.in /\ (srv'.writing => srv.state = "connected")
         /\ s2c' \in Seq(Byte) /\ Len(s2c') <= PipeCap /\ ok' = TRUE
         /\ Stream("response", Taken')
         /\ srv.state = "connected" /\ ~CliGone =>
              /\ Stream("response", Outbound')
              /\ Len(Outbound') =
                   IF p = "header" THEN HeaderLen ELSE Size("response")
<1>1. Types /\ Life /\ Response
  BY DEF SessionInv
<1> DEFINE s == Piece(p)
           n == IF CliGone THEN 0 ELSE TakenAtOnce(srv, s, Room(s2c))
           u == SubSeq(s, 1, n)
           a == IF p = "header" THEN 0 ELSE HeaderLen
           z == IF p = "header" THEN HeaderLen ELSE Size("response")
<1>2. /\ srv' = SendRest(srv, s, n, CliGone) /\ s2c' = Join(s2c, u)
      /\ ok' = (ok /\ Alive /\ AppendAssertion(srv.out, Len(s) - n))
  BY DEF SrvSendInLoop, Join
<1>3. /\ s \in Seq(Byte) /\ s # <<>> /\ At(s, "response", a) /\ a + Len(s) = z
      /\ z <= Size("response")
  BY Pieces
<1> HIDE DEF s
<1>4. /\ srv \in Conns /\ s2c \in Seq(Byte) /\ Len(s2c) <= PipeCap /\ ok = TRUE
      /\ Room(s2c) \in Nat /\ Len(s2c) + Room(s2c) = PipeCap
      /\ Alive /\ CliGone \in BOOLEAN /\ Len(s2c) \in Nat /\ PipeCap \in Nat
      /\ (srv.writing => srv.state = "connected") /\ "response" \in Msgs
  BY <1>1, RoomFor, Sizes DEF Types, Alive, CliGone, Life
<1>5. CASE CliGone \/ srv.state = "disconnected"
  <2>1. n = 0
    BY <1>5 DEF TakenAtOnce
  <2> HIDE DEF n
  <2>2. n \in Nat /\ n <= Len(s)
    BY <1>3, <2>1
  <2>3. /\ srv' \in Conns /\ srv'.state = srv.state /\ srv'.added = srv.added
        /\ srv'.in = srv.in /\ AppendAssertion(srv.out, Len(s) - n)
        /\ srv.state = "disconnected" => srv' = srv
    BY <1>2, <1>3, <1>4, <2>2, SendKeeps
  <2>4. u = <<>>
    <3>1. u \in Seq(Byte) /\ Len(u) = n
      BY <1>3, <2>2, Split
    <3> HIDE DEF u
    <3> QED
      BY <2>1, <3>1
  <2>5. s2c' = s2c
    BY <1>2, <1>4, <2>4, JoinEmpty
  <2>6. Taken' = Taken
    BY <2>5, TakenSame
  <2>7. Stream("response", Taken) /\ ok' = TRUE
    BY <1>1, <1>2, <1>4, <2>3 DEF Response
  <2> QED
    BY <1>4, <1>5, <2>3, <2>5, <2>6, <2>7
<1>6. CASE ~CliGone /\ srv.state = "connected"
  <2>0. CliGone = FALSE
    BY <1>4, <1>6
  <2>1. n = TakenAtOnce(srv, s, Room(s2c))
    BY <1>6
  <2>2. srv' = SendRest(srv, s, n, FALSE)
    BY <1>2, <2>0
  <2> HIDE DEF n
  <2>3. /\ srv \in Conns /\ srv.state = "connected" /\ Room(s2c) \in Nat
        /\ s \in Seq(Byte) /\ s # <<>> /\ s2c \in Seq(Byte)
    BY <1>3, <1>4, <1>6
  <2>4. /\ n \in Nat /\ n <= Room(s2c) /\ u \in Seq(Byte) /\ Len(u) = n
        /\ AppendAssertion(srv.out, Len(s) - n)
        /\ srv' \in Conns /\ srv'.state = srv.state /\ srv'.added = srv.added
        /\ srv'.in = srv.in
        /\ Join(Join(s2c, u), Content(srv'.out)) = Join(Join(s2c, Content(srv.out)), s)
    <3> DEFINE room == Room(s2c)
               m == TakenAtOnce(srv, s, room)
               r == SendRest(srv, s, m, FALSE)
               x == SubSeq(s, 1, m)
    <3>1. /\ m \in Nat /\ m <= Room(s2c) /\ x \in Seq(Byte) /\ Len(x) = m
          /\ AppendAssertion(srv.out, Len(s) - m)
          /\ r \in Conns /\ r.state = srv.state /\ r.added = srv.added
          /\ r.in = srv.in
          /\ Join(Join(s2c, x), Content(r.out)) = Join(Join(s2c, Content(srv.out)), s)
      <4>1. GoesBehind(srv, s, room, s2c)
        BY <2>3, SendDoes
      <4> QED
        BY ONLY <4>1 DEF GoesBehind
    <3>2. n = m /\ u = x /\ srv' = r
      BY <2>1, <2>2
    <3> HIDE DEF m, r, x, u
    <3> QED
      BY <3>1, <3>2
  <2> HIDE DEF u
  <2>5. s2c' \in Seq(Byte) /\ Len(s2c') <= PipeCap /\ ok' = TRUE
    <3>1. Join(s2c, u) \in Seq(Byte) /\ Len(Join(s2c, u)) = Len(s2c) + Len(u)
      BY <1>4, <2>4, JoinParts
    <3>2. Len(s2c) + n <= PipeCap
      BY <1>4, <2>4
    <3> QED
      BY <1>2, <1>4, <2>4, <3>1, <3>2
  <2>6. Outbound' = Join(Outbound, s)
    <3> DEFINE q == Join(got["response"], Content(cli.in))
               c == Content(srv.out)
               y == Content(srv'.out)
    <3>1. /\ q \in Seq(Byte) /\ c \in Seq(Byte) /\ y \in Seq(Byte)
          /\ s \in Seq(Byte) /\ s2c \in Seq(Byte) /\ s2c' \in Seq(Byte)
      BY <1>1, <1>3, <2>4, <2>5, StreamParts, ConnParts
    <3>2. Join(s2c', y) = Join(Join(s2c, c), s)
      BY <1>2, <2>4
    <3>3. Outbound = Join(Join(q, s2c), c)
      BY Zenon DEF Outbound, Taken
    <3>4. Outbound' = Join(Join(q, s2c'), y)
      BY Zenon DEF Outbound, Taken
    <3> HIDE DEF q, c, y
    <3>5. Join(s2c, c) \in Seq(Byte)
      BY <3>1, JoinParts
    <3>6. Join(Join(q, s2c'), y) = Join(Join(q, Join(s2c, c)), s)
      BY <3>1, <3>2, <3>5, Regroup
    <3>7. Join(q, Join(s2c, c)) = Join(Join(q, s2c), c)
      BY <3>1, JoinAssoc
    <3> QED
      BY <3>3, <3>4, <3>6, <3>7
  <2>7. Stream("response", Outbound) /\ Len(Outbound) = a
    BY <1>1, <1>6 DEF Response
  <2>8. Stream("response", Outbound') /\ Len(Outbound') = z
    <3> HIDE DEF a, z
    <3>1. /\ At(s, "response", Len(Outbound)) /\ Len(Outbound) + Len(s) = z
          /\ Len(Outbound) + Len(s) <= Size("response")
      BY <1>3, <2>7
    <3>2. /\ Stream("response", Join(Outbound, s))
          /\ Len(Join(Outbound, s)) = Len(Outbound) + Len(s)
      BY <1>3, <1>4, <2>7, <3>1, StreamGrows
    <3> QED
      BY <2>6, <3>1, <3>2
  <2>9. Stream("response", Taken')
    <3>1. Outbound' = Join(Taken', Content(srv'.out))
      BY Zenon DEF Outbound
    <3>2. Taken' \in Seq(Byte) /\ Content(srv'.out) \in Seq(Byte)
      <4>1. Join(got["response"], Content(cli.in)) \in Seq(Byte)
        BY <1>1, StreamParts
      <4>2. Taken' = Join(Join(got["response"], Content(cli.in)), s2c')
        BY Zenon DEF Taken
      <4> QED
        BY <2>4, <2>5, <4>1, <4>2, JoinParts, ConnParts
    <3> QED
      BY <1>4, <2>8, <3>1, <3>2, StreamBegins
  <2> QED
    BY <1>4, <1>6, <2>4, <2>5, <2>8, <2>9
<1> QED
  BY <1>5, <1>6

\* What completeTask has left to send.
LEMMA PiecesLeft ==
  /\ Tail(<<"header", "body">>) = <<"body">> /\ Head(<<"header", "body">>) = "header"
  /\ Tail(<<"body">>) = <<>> /\ Head(<<"body">>) = "body"
<1>1. Head(<<"header", "body">>) = "header" /\ Head(<<"body">>) = "body"
  OBVIOUS
<1>2. Len(Tail(<<"body">>)) = 0 /\ Tail(<<"body">>) \in Seq(STRING)
  OBVIOUS
<1>3. Tail(<<"body">>) = <<>>
  BY <1>2
<1>4. Tail(<<"header", "body">>) = <<"body">>
  OBVIOUS
<1> QED
  BY <1>1, <1>3, <1>4

\* The base loop sends a piece of the response to a connection of its own, or
\* finds the connection closed, or finds it belongs to another loop.
LEMMA SendKeepsInv == SessionInv /\ Send => SessionInv'
<1> SUFFICES ASSUME SessionInv, Send PROVE SessionInv'
  OBVIOUS
<1>1. Types /\ Ordered(queue) /\ Life /\ Work /\ Client /\ Request /\ Response
  BY DEF SessionInv
<1>2. /\ sending # <<>> /\ ~checked
      /\ UNCHANGED <<io, queue, connections, task, cli, c2s, got, exit>>
  BY DEF Send
<1>3. /\ task = "done" /\ io \in {"base", "io"}
      /\ srv.state \in {"connected", "disconnected", "freed"}
      /\ srv \in Conns /\ ok = TRUE
  <2>1. srv.state \in States
    BY <1>1, ConnParts DEF Types
  <2> QED
    BY <1>1, <1>2, <2>1 DEF Types, Life, Work, States
<1>4. \/ /\ sending = <<"header", "body">> /\ Tail(sending) = <<"body">>
         /\ Head(sending) = "header"
      \/ sending = <<"body">> /\ Tail(sending) = <<>> /\ Head(sending) = "body"
  BY <1>1, <1>2, PiecesLeft DEF Types
<1>9. <<"header", "body">> # <<>> /\ <<"body">> # <<>>
      /\ <<"header", "body">> # <<"body">>
  OBVIOUS
<1>5. /\ Ordered(queue)' /\ (Offloading' <=> Offloading)
      /\ (Completing' <=> Completing) /\ (Removing' <=> Removing)
      /\ (Establishing' <=> Establishing) /\ (HeaderWaits' <=> HeaderWaits)
      /\ (BodyWaits' <=> BodyWaits) /\ (Destroying' <=> Destroying)
  BY <1>1, <1>2, QueuesSame
<1>6. CASE srv.state # "connected" /\ sending' = Tail(sending)
           /\ UNCHANGED <<checked, srv, s2c, ok>>
  <2>1. Inbound' = Inbound /\ Taken' = Taken /\ Outbound' = Outbound
    BY <1>2, <1>6, InboundSame, TakenSame, OutboundSame
  <2>2. Types'
    BY <1>1, <1>2, <1>4, <1>6 DEF Types
  <2>3. Life' /\ Client'
    BY <1>1, <1>2, <1>5, <1>6 DEF Life, Kept, Client, CliGone
  <2>4. Work'
    BY <1>1, <1>2, <1>3, <1>4, <1>5, <1>6, <1>9 DEF Work
  <2>5. Request' /\ Response'
    BY <1>1, <1>2, <1>3, <1>6, <2>1 DEF Request, Response, CliGone
  <2> QED
    BY <1>5, <2>2, <2>3, <2>4, <2>5 DEF SessionInv
<1>7. CASE srv.state = "connected" /\ io = "base" /\ sending' = Tail(sending)
           /\ SrvSendInLoop(Head(sending)) /\ UNCHANGED checked
  <2> DEFINE p == Head(sending)
  <2>0. ~HeaderWaits /\ ~BodyWaits
    BY <1>1, <1>7 DEF Ordered, BaseFunctors, HeaderWaits, BodyWaits
  <2>1. /\ p \in {"header", "body"} /\ SrvSendInLoop(p)
        /\ srv.state \in {"connected", "disconnected"}
        /\ UNCHANGED <<cli, got, exit>>
    BY <1>2, <1>4, <1>7
  <2>2. srv.state = "connected" /\ ~CliGone =>
          Len(Outbound) = IF p = "header" THEN 0 ELSE HeaderLen
    <3>1. Given = IF p = "header" THEN 0 ELSE HeaderLen
      BY <1>4, <1>9, <2>0 DEF Given
    <3> QED
      BY <1>1, <1>3, <3>1 DEF Response
  <2>3. /\ srv' \in Conns /\ srv'.state = srv.state /\ srv'.added = srv.added
        /\ srv'.in = srv.in /\ (srv'.writing => srv.state = "connected")
        /\ s2c' \in Seq(Byte) /\ Len(s2c') <= PipeCap /\ ok' = TRUE
        /\ Stream("response", Taken')
        /\ srv.state = "connected" /\ ~CliGone =>
             /\ Stream("response", Outbound')
             /\ Len(Outbound') = IF p = "header" THEN HeaderLen ELSE Size("response")
    BY ONLY SessionInv, <2>1, <2>2, SrvSends
  <2>4. Given' = IF p = "header" THEN HeaderLen ELSE Size("response")
    BY <1>4, <1>5, <1>7, <1>9, <2>0 DEF Given
  <2>5. Inbound' = Inbound
    BY <1>2, <2>3, InboundSame
  <2>6. Types'
    BY <1>1, <1>2, <1>4, <1>7, <2>3 DEF Types
  <2>7. Life' /\ Client'
    BY <1>1, <1>2, <1>5, <1>7, <2>3 DEF Life, Kept, Client, CliGone
  <2>8. Work'
    BY <1>1, <1>2, <1>3, <1>4, <1>5, <1>7, <1>9, <2>0 DEF Work
  <2>9. Request'
    BY <1>1, <1>2, <2>3, <2>5 DEF Request
  <2>10. Response'
    <3> HIDE DEF p
    <3> QED
      BY <1>2, <1>3, <2>3, <2>4 DEF Response, CliGone
  <2> QED
    BY <1>5, <2>6, <2>7, <2>8, <2>9, <2>10 DEF SessionInv
<1>8. CASE srv.state = "connected" /\ io # "base" /\ checked' = TRUE
           /\ UNCHANGED <<sending, srv, s2c, ok>>
  <2>1. Inbound' = Inbound /\ Taken' = Taken /\ Outbound' = Outbound
    BY <1>2, <1>8, InboundSame, TakenSame, OutboundSame
  <2>2. Types'
    BY <1>1, <1>2, <1>8 DEF Types
  <2>3. Life' /\ Client'
    BY <1>1, <1>2, <1>5, <1>8 DEF Life, Kept, Client, CliGone
  <2>4. Work'
    BY <1>1, <1>2, <1>3, <1>5, <1>8 DEF Work, Life
  <2>5. Given' = Given
    BY <1>5, <1>8 DEF Given
  <2>6. Request' /\ Response'
    BY <1>1, <1>2, <1>8, <2>1, <2>5 DEF Request, Response, CliGone
  <2> QED
    BY <1>5, <2>2, <2>3, <2>4, <2>6 DEF SessionInv
<1> QED
  BY <1>6, <1>7, <1>8 DEF Send

LEMMA SendQueuesKeeps == SessionInv /\ SendQueues => SessionInv'
<1> SUFFICES ASSUME SessionInv, SendQueues PROVE SessionInv'
  OBVIOUS
<1>1. Types /\ Ordered(queue) /\ Life /\ Work /\ Client /\ Request /\ Response
  BY DEF SessionInv
<1> DEFINE p == Head(sending)
<1>2. /\ checked /\ checked' = FALSE
      /\ queue' = Queue(queue, io, p) /\ sending' = Tail(sending)
      /\ UNCHANGED <<io, connections, task, srv, cli, c2s, s2c, got, exit, ok>>
  BY DEF SendQueues
<1>3. sending # <<>> /\ io = "io" /\ connections /\ task = "done"
  BY <1>1, <1>2 DEF Work
<1>4. \/ sending = <<"header", "body">> /\ sending' = <<"body">> /\ p = "header"
      \/ sending = <<"body">> /\ sending' = <<>> /\ p = "body"
  BY <1>1, <1>2, <1>3, PiecesLeft DEF Types
<1>5. <<"header", "body">> # <<>> /\ <<"body">> # <<>>
      /\ <<"header", "body">> # <<"body">>
  OBVIOUS
<1> HIDE DEF p
<1>6. ~Destroying /\ ~BodyWaits /\ (p = "header" => ~HeaderWaits)
  BY <1>1, <1>3, <1>4, <1>5 DEF Life, Work
<1>7. /\ p \in Functors /\ p \in IoFunctors /\ ~In(p, queue[io])
      /\ io \in {"base", "io"} /\ io # "base"
  BY <1>3, <1>4, <1>6 DEF Functors, IoFunctors, HeaderWaits, BodyWaits
<1>8. /\ queue' \in Queues /\ Ordered(queue)'
      /\ \A g : In(g, queue'["base"]) <=> In(g, queue["base"])
      /\ \A g : In(g, queue'[io']) <=> In(g, queue[io]) \/ g = p
  <2>1. p \in IF io = "base" THEN BaseFunctors ELSE IoFunctors
    BY <1>7
  <2> QED
    BY <1>1, <1>2, <1>6, <1>7, <2>1, Pushed DEF Types
<1>9. /\ (Offloading' <=> Offloading) /\ (Completing' <=> Completing)
      /\ (Removing' <=> Removing) /\ (Establishing' <=> Establishing)
      /\ (HeaderWaits' <=> HeaderWaits \/ p = "header")
      /\ (BodyWaits' <=> p = "body") /\ ~Destroying'
  BY <1>4, <1>6, <1>8 DEF Offloading, Completing, Removing, Establishing, HeaderWaits,
     BodyWaits, Destroying
<1>10. Inbound' = Inbound /\ Taken' = Taken /\ Outbound' = Outbound
  BY <1>2, InboundSame, TakenSame, OutboundSame
<1>11. Types'
  BY <1>1, <1>2, <1>4, <1>8 DEF Types
<1>12. Life' /\ Client'
  BY <1>1, <1>2, <1>6, <1>9 DEF Life, Kept, Client, CliGone
<1>13. Work'
  BY <1>1, <1>2, <1>3, <1>4, <1>5, <1>6, <1>9 DEF Work
<1>14. Given' = Given
  BY <1>4, <1>5, <1>6, <1>9 DEF Given
<1>15. Request' /\ Response'
  BY <1>1, <1>2, <1>10, <1>14 DEF Request, Response, CliGone
<1> QED
  BY <1>8, <1>11, <1>12, <1>13, <1>15 DEF SessionInv

\* A request that was parsed has arrived.
LEMMA AllArrived ==
  ASSUME Types, Request, got["request"] = Frame("request")
  PROVE  c2s = <<>> /\ Content(cli.out) = <<>>
<1> DEFINE p == Join(got["request"], Content(srv.in))
           q == Join(p, c2s)
<1>1. /\ p \in Seq(Byte) /\ c2s \in Seq(Byte) /\ Content(cli.out) \in Seq(Byte)
      /\ got["request"] \in Seq(Byte) /\ Content(srv.in) \in Seq(Byte)
  BY StreamParts, Sizes
<1>2. /\ Len(p) = Len(got["request"]) + Len(Content(srv.in))
      /\ Len(got["request"]) = Size("request") /\ Size("request") \in Nat
  BY <1>1, JoinParts, FrameBytes, Sizes
<1> HIDE DEF p
<1>3. q \in Seq(Byte) /\ Len(q) = Len(p) + Len(c2s)
  BY <1>1, JoinParts
<1>4. Stream("request", Join(q, Content(cli.out)))
  BY Zenon DEF Request, Inbound, q, p
<1> HIDE DEF q
<1>5. Len(q) + Len(Content(cli.out)) <= Size("request")
  BY <1>1, <1>3, <1>4, StreamBegins, Sizes
<1>6. Len(c2s) = 0 /\ Len(Content(cli.out)) = 0
  <2>1. /\ Len(Content(srv.in)) \in Nat /\ Len(c2s) \in Nat
        /\ Len(Content(cli.out)) \in Nat
    BY <1>1
  <2> QED
    BY <1>2, <1>3, <1>5, <2>1
<1> QED
  BY <1>1, <1>6

LEMMA HandleCloseKeeps == SessionInv /\ HandleClose => SessionInv'
<1> SUFFICES ASSUME SessionInv, HandleClose PROVE SessionInv'
  OBVIOUS
<1>1. Types /\ Ordered(queue) /\ Life /\ Work /\ Client /\ Request /\ Response
  BY DEF SessionInv
<1>2. /\ srv.added /\ srv.state = "connected" /\ c2s = <<>>
      /\ (CliGone \/ cli.state = "disconnecting")
      /\ srv' = [srv EXCEPT !.state = "disconnected", !.writing = FALSE]
      /\ CloseCallback
      /\ UNCHANGED <<io, task, sending, checked, cli, c2s, s2c, got, exit, ok>>
  BY DEF HandleClose
<1>3. /\ srv \in Conns /\ srv' \in Conns /\ srv'.state = "disconnected"
      /\ srv'.added = srv.added /\ ~srv'.writing /\ srv'.in = srv.in
      /\ srv'.out = srv.out
  BY <1>1, <1>2 DEF Types, Conns, States
<1>4. ~Removing /\ ~Destroying /\ connections /\ ~Establishing
  BY <1>1, <1>2 DEF Life
<1>5. Content(cli.out) = <<>>
  <2>1. CASE CliGone
    BY <1>1, <2>1 DEF Client
  <2>2. CASE cli.state = "disconnecting"
    <3>1. exit = "quit"
      BY <1>1, <2>2 DEF Client, CliGone, Types
    <3>2. got["response"] # <<>>
      BY <1>1, <3>1, StreamFrame, Sizes DEF Client
    <3>3. task = "done"
      BY <1>1, <3>2 DEF Response
    <3>4. got["request"] = Frame("request")
      BY <1>1, <3>3 DEF Work
    <3> QED
      BY <1>1, <3>4, AllArrived
  <2> QED
    BY <1>2, <2>1, <2>2
<1>6. /\ queue' \in Queues /\ Ordered(queue)' /\ connections' \in BOOLEAN
      /\ (Offloading' <=> Offloading) /\ (Completing' <=> Completing)
      /\ (Establishing' <=> Establishing) /\ (HeaderWaits' <=> HeaderWaits)
      /\ (BodyWaits' <=> BodyWaits)
      /\ \/ connections' = FALSE /\ Destroying' /\ ~Removing' /\ io = "base"
         \/ connections' = connections /\ ~Destroying' /\ Removing'
  <2>1. CASE io = "base"
    <3>1. connections' = FALSE /\ queue' = Queue(queue, "base", "connectDestroyed")
      BY <1>2, <2>1 DEF CloseCallback
    <3>2. /\ "connectDestroyed" \in Functors /\ "connectDestroyed" \in BaseFunctors
          /\ ~In("connectDestroyed", queue["base"])
      BY <1>4, <2>1 DEF Functors, BaseFunctors, Destroying
    <3>3. /\ queue' \in Queues /\ Ordered(queue)'
          /\ \A g : In(g, queue'["base"]) <=>
                     In(g, queue["base"]) \/ g = "connectDestroyed"
          /\ \A g : In(g, queue'[io']) <=>
                     In(g, queue[io]) \/ g = "connectDestroyed"
      BY <1>1, <1>2, <2>1, <3>1, <3>2, Pushed DEF Types
    <3> QED
      BY <1>4, <2>1, <3>1, <3>3 DEF Offloading, Completing, Removing, Establishing,
         HeaderWaits, BodyWaits, Destroying
  <2>2. CASE io # "base"
    <3>1. /\ connections' = connections
          /\ queue' = Queue(queue, "base", "removeConnection")
      BY <1>2, <2>2 DEF CloseCallback
    <3>2. /\ "removeConnection" \in Functors /\ "removeConnection" \in BaseFunctors
          /\ ~In("removeConnection", queue["base"])
      BY <1>4, <2>2 DEF Functors, BaseFunctors, Removing
    <3>3. /\ queue' \in Queues /\ Ordered(queue)'
          /\ \A g : In(g, queue'["base"]) <=>
                     In(g, queue["base"]) \/ g = "removeConnection"
          /\ \A g : In(g, queue'[io']) <=> In(g, queue[io])
      BY <1>1, <1>2, <2>2, <3>1, <3>2, Pushed DEF Types
    <3> QED
      BY <1>1, <1>4, <3>1, <3>3 DEF Offloading, Completing, Removing, Establishing,
         HeaderWaits, BodyWaits, Destroying, Types
  <2> QED
    BY <2>1, <2>2
<1>7. Inbound' = Inbound /\ Taken' = Taken
  BY <1>2, <1>3, InboundSame, TakenSame
<1>8. Types'
  BY <1>1, <1>2, <1>3, <1>6 DEF Types
<1>9. Life'
  BY <1>1, <1>2, <1>3, <1>4, <1>6 DEF Life, Kept
<1>10. Work'
  BY <1>1, <1>2, <1>3, <1>4, <1>6 DEF Work
<1>11. Client'
  BY <1>1, <1>2, <1>3 DEF Client, CliGone
<1>12. Request'
  BY <1>1, <1>2, <1>3, <1>5, <1>7 DEF Request
<1>13. Response'
  BY <1>1, <1>2, <1>3, <1>7 DEF Response
<1> QED
  BY <1>6, <1>8, <1>9, <1>10, <1>11, <1>12, <1>13 DEF SessionInv

LEMMA AcceptKeeps == SessionInv /\ Accept => SessionInv'
<1> SUFFICES ASSUME SessionInv, Accept PROVE SessionInv'
  OBVIOUS
<1>1. Types /\ Ordered(queue) /\ Life /\ Work /\ Client /\ Request /\ Response
  BY DEF SessionInv
<1>2. /\ srv.state = "none" /\ cli.state # "connecting" /\ connections' = TRUE
      /\ \/ /\ io = "base" /\ UNCHANGED queue
            /\ srv' = [NewConn EXCEPT !.state = "connected", !.added = TRUE]
         \/ /\ io # "base" /\ srv' = NewConn
            /\ queue' = Queue(queue, io, "connectEstablished")
      /\ UNCHANGED <<io, task, sending, checked, cli, c2s, s2c, got, exit, ok>>
  BY DEF Accept
<1>3. /\ srv' \in Conns /\ Content(srv'.in) = <<>> /\ Content(srv'.out) = <<>>
      /\ ~srv'.writing
      /\ \/ io = "base" /\ srv'.state = "connected" /\ srv'.added
         \/ io # "base" /\ srv'.state = "connecting" /\ ~srv'.added
  BY <1>2, NewConnEmpty DEF Conns, States
<1>4. /\ task = "none" /\ ~Offloading /\ got["request"] = <<>>
      /\ Content(srv.in) = <<>> /\ Content(srv.out) = <<>>
      /\ ~Removing /\ ~Destroying /\ ~Establishing
      /\ sending = <<>> /\ ~HeaderWaits /\ ~BodyWaits /\ ~checked
  BY <1>1, <1>2 DEF Life, Work, Response
<1>5. /\ queue' \in Queues /\ Ordered(queue)'
      /\ ~Offloading' /\ (Completing' <=> Completing) /\ ~Removing'
      /\ (Establishing' <=> io # "base") /\ ~HeaderWaits' /\ ~BodyWaits'
      /\ ~Destroying'
  <2>1. CASE io = "base"
    BY <1>1, <1>2, <1>4, <2>1, QueuesSame DEF Types
  <2>2. CASE io # "base"
    <3>1. queue' = Queue(queue, io, "connectEstablished") /\ io \in {"base", "io"}
      BY <1>1, <1>2, <2>2 DEF Types
    <3>2. /\ "connectEstablished" \in Functors /\ "connectEstablished" \in IoFunctors
          /\ ~In("connectEstablished", queue[io])
      BY <1>4, <2>2 DEF Functors, IoFunctors, Establishing
    <3>3. /\ queue' \in Queues /\ Ordered(queue)'
          /\ \A g : In(g, queue'["base"]) <=> In(g, queue["base"])
          /\ \A g : In(g, queue'[io']) <=>
                     In(g, queue[io]) \/ g = "connectEstablished"
      BY <1>1, <1>2, <2>2, <3>1, <3>2, Pushed DEF Types
    <3> QED
      BY <1>4, <2>2, <3>3 DEF Offloading, Completing, Removing, Establishing,
         HeaderWaits, BodyWaits, Destroying
  <2> QED
    BY <2>1, <2>2
<1>6. Inbound' = Inbound /\ Taken' = Taken /\ Outbound' = Outbound
  BY <1>2, <1>3, <1>4, InboundSame, TakenSame, OutboundSame
<1>7. Types'
  BY <1>1, <1>2, <1>3, <1>5 DEF Types
<1>8. Life'
  BY <1>2, <1>3, <1>4, <1>5 DEF Life, Kept
<1>9. Work'
  BY <1>1, <1>2, <1>3, <1>4, <1>5 DEF Work
<1>10. Client'
  BY <1>1, <1>2 DEF Client, CliGone
<1>11. Request'
  BY <1>1, <1>2, <1>3, <1>6 DEF Request
<1>12. Response'
  <2>1. Stream("response", Taken) /\ Outbound = Join(Taken, <<>>)
    BY <1>1, <1>4 DEF Response, Outbound
  <2>2. Stream("response", Outbound)
    BY <2>1, JoinEmpty DEF Stream
  <2> QED
    BY <1>1, <1>2, <1>3, <1>4, <1>6, <2>1, <2>2 DEF Response
<1> QED
  BY <1>5, <1>7, <1>8, <1>9, <1>10, <1>11, <1>12 DEF SessionInv

LEMMA HandleReadKeeps == SessionInv /\ HandleRead => SessionInv'
<1> SUFFICES ASSUME SessionInv, HandleRead PROVE SessionInv'
  OBVIOUS
<1>1. Types /\ Ordered(queue) /\ Life /\ Work /\ Client /\ Request /\ Response
  BY DEF SessionInv
<1>2. /\ srv.state = "connected"
      /\ UNCHANGED <<io, connections, sending, checked, cli, s2c, exit>>
  BY DEF HandleRead
<1>3. PICK n \in 1 .. Len(c2s) :
        /\ c2s' = SubSeq(c2s, n + 1, Len(c2s))
        /\ OnMessage(ReadSome(srv, c2s, n))
  BY DEF HandleRead
<1> DEFINE e == ReadSome(srv, c2s, n)
           u == SubSeq(c2s, 1, n)
           v == SubSeq(c2s, n + 1, Len(c2s))
<1>4. /\ c2s \in Seq(Byte) /\ n \in Nat /\ n <= Len(c2s) /\ n >= 1
      /\ Len(c2s) \in Nat /\ Len(c2s) <= PipeCap /\ PipeCap \in Nat
      /\ srv \in Conns /\ got \in [Msgs -> Seq(Byte)] /\ ok = TRUE
      /\ "response" \in Msgs /\ "request" \in Msgs
  BY <1>1, Sizes DEF Types
<1>5. got["request"] = <<>> /\ task = "none" /\ ~Offloading
  <2>1. c2s # <<>>
    BY <1>4
  <2>2. got["request"] # Frame("request")
    BY <1>1, <2>1, AllArrived
  <2> QED
    BY <1>1, <2>2 DEF Work
<1>6. u \in Seq(Byte) /\ v \in Seq(Byte) /\ Len(v) = Len(c2s) - n
  BY <1>4, Split
<1>7. /\ e \in Conns /\ e.state = srv.state /\ e.added = srv.added
      /\ e.writing = srv.writing /\ e.out = srv.out
      /\ Content(e.in) = Join(Content(srv.in), u)
  BY <1>4, ReadDoes
<1>8. Join(Join(<<>>, Join(Content(srv.in), u)), v)
        = Join(Join(<<>>, Content(srv.in)), c2s)
  <2> DEFINE i == Content(srv.in)
             a == <<>>
  <2>1. i \in Seq(Byte) /\ a \in Seq(Byte)
    BY <1>4, ConnParts
  <2>2. c2s \in Seq(Byte) /\ n \in Nat /\ n <= Len(c2s)
    BY <1>4
  <2> HIDE DEF i, a
  <2>3. Join(Join(a, Join(i, u)), v) = Join(Join(a, i), c2s)
    BY ONLY <2>1, <2>2, MoveIn
  <2> QED
    BY <2>3, Zenon DEF i, a
<1>9. c2s' = v /\ c2s' \in Seq(Byte) /\ Len(c2s') <= PipeCap
  BY <1>3, <1>4, <1>6
<1> HIDE DEF e, u, v
<1>10. Inbound = Join(Join(Join(<<>>, Content(e.in)), v), Content(cli.out))
  BY <1>5, <1>7, <1>8 DEF Inbound
<1>11. \/ /\ ~FrameReady(e.in) /\ srv' = e /\ UNCHANGED <<task, queue, got, ok>>
       \/ /\ FrameReady(e.in) /\ ok' = (ok /\ FrameAssertion(e.in))
          /\ srv' = [e EXCEPT !.in = AfterFrame(@)]
          /\ got' = [got EXCEPT !["request"] = Join(@, FrameOf(e.in))]
          /\ Parses(e.in, "request") =>
               \/ io = "base" /\ task' = "held" /\ UNCHANGED queue
               \/ /\ io # "base" /\ queue' = Queue(queue, "base", "offload")
                  /\ UNCHANGED task
  <2>1. OnMessage(e)
    BY <1>3 DEF e
  <2> QED
    BY <2>1 DEF OnMessage, Join
<1>12. /\ srv' \in Conns /\ srv'.state = "connected" /\ srv'.added = srv.added
       /\ srv'.writing = srv.writing /\ srv'.out = srv.out /\ ok' = TRUE
       /\ got' \in [Msgs -> Seq(Byte)] /\ got'["response"] = got["response"]
       /\ Join(got'["request"], Content(srv'.in)) = Join(<<>>, Content(e.in))
       /\ \/ got'["request"] = <<>> /\ UNCHANGED <<task, queue>>
          \/ /\ got'["request"] = Frame("request") /\ io = "base"
             /\ task' = "held" /\ UNCHANGED queue
          \/ /\ got'["request"] = Frame("request") /\ io # "base"
             /\ queue' = Queue(queue, "base", "offload") /\ UNCHANGED task
  <2>1. CASE ~FrameReady(e.in)
    <3>1. srv' = e /\ UNCHANGED <<task, queue, got, ok>>
      BY <1>11, <2>1
    <3> QED
      BY <1>2, <1>4, <1>5, <1>7, <3>1
  <2>2. CASE FrameReady(e.in)
    <3>1. /\ ok' = (ok /\ FrameAssertion(e.in))
          /\ srv' = [e EXCEPT !.in = AfterFrame(@)]
          /\ got' = [got EXCEPT !["request"] = Join(@, FrameOf(e.in))]
          /\ Parses(e.in, "request") =>
               \/ io = "base" /\ task' = "held" /\ UNCHANGED queue
               \/ /\ io # "base" /\ queue' = Queue(queue, "base", "offload")
                  /\ UNCHANGED task
      BY <1>11, <2>2
    <3>2. Stream("request", Join(<<>>, Content(e.in)))
      <4> DEFINE x == Join(<<>>, Content(e.in))
                 y == Join(x, v)
      <4>1. Stream("request", Join(y, Content(cli.out)))
        BY <1>1, <1>10 DEF Request
      <4>2. x \in Seq(Byte)
        BY <1>7, ConnParts, EmptyJoin, JoinParts
      <4> HIDE DEF x
      <4>3. y \in Seq(Byte) /\ Content(cli.out) \in Seq(Byte)
        BY <1>1, <1>6, <4>2, JoinParts, StreamParts
      <4>4. Stream("request", y)
        <5> HIDE DEF y
        <5> QED
          BY <1>4, <4>1, <4>3, StreamBegins
      <4>5. Stream("request", x)
        BY <1>4, <1>6, <4>2, <4>4, StreamBegins
      <4> QED
        BY <4>5 DEF x
    <3>3. IsBuffer(e.in)
      BY <1>7, ConnParts
    <3>4. /\ FrameOf(e.in) = Frame("request") /\ Parses(e.in, "request")
          /\ FrameAssertion(e.in) /\ IsBuffer(AfterFrame(e.in))
          /\ Join(Join(<<>>, FrameOf(e.in)), Content(AfterFrame(e.in)))
               = Join(<<>>, Content(e.in))
          /\ Join(<<>>, FrameOf(e.in)) = Frame("request")
      BY <1>4, <2>2, <3>2, <3>3, TakeFrame
    <3>5. AfterFrame(e.in) \in Buffers /\ Frame("request") \in Seq(Byte)
      BY <1>4, <3>4, BuffersAre, FrameBytes
    <3>7. /\ srv' \in Conns /\ srv'.out = e.out /\ srv'.in = AfterFrame(e.in)
          /\ srv'.state = e.state /\ srv'.added = e.added
          /\ srv'.writing = e.writing
      BY <1>7, <3>1, <3>5 DEF Conns
    <3>8. /\ got' \in [Msgs -> Seq(Byte)] /\ got'["response"] = got["response"]
          /\ got'["request"] = Frame("request")
      BY <1>4, <1>5, <3>1, <3>4, <3>5
    <3>9. Join(got'["request"], Content(srv'.in)) = Join(<<>>, Content(e.in))
      BY <3>4, <3>7, <3>8
    <3> QED
      BY <1>2, <1>4, <1>7, <3>1, <3>4, <3>7, <3>8, <3>9
  <2> QED
    BY <2>1, <2>2
<1>13. Inbound' = Inbound
  <2>1. Inbound' = Join(Join(Join(got'["request"], Content(srv'.in)), c2s'),
                        Content(cli'.out))
    BY Zenon DEF Inbound
  <2> QED
    BY <1>2, <1>9, <1>10, <1>12, <2>1
<1>14. Taken' = Taken /\ Outbound' = Outbound
  BY <1>2, <1>12 DEF Taken, Outbound
<1>15. /\ queue' \in Queues /\ Ordered(queue)' /\ (Completing' <=> Completing)
       /\ (Removing' <=> Removing) /\ (Establishing' <=> Establishing)
       /\ (HeaderWaits' <=> HeaderWaits) /\ (BodyWaits' <=> BodyWaits)
       /\ (Destroying' <=> Destroying)
       /\ \/ got'["request"] = <<>> /\ ~Offloading' /\ task' = "none"
          \/ got'["request"] = Frame("request") /\ ~Offloading' /\ task' = "held"
          \/ got'["request"] = Frame("request") /\ Offloading' /\ task' = "none"
  <2>1. CASE /\ UNCHANGED queue
             /\ \/ got'["request"] = <<>> /\ UNCHANGED task
                \/ got'["request"] = Frame("request") /\ task' = "held"
    <3>1. /\ Ordered(queue)' /\ (Offloading' <=> Offloading)
          /\ (Completing' <=> Completing) /\ (Removing' <=> Removing)
          /\ (Establishing' <=> Establishing) /\ (HeaderWaits' <=> HeaderWaits)
          /\ (BodyWaits' <=> BodyWaits) /\ (Destroying' <=> Destroying)
      BY <1>1, <1>2, <2>1, QueuesSame
    <3>2. queue' \in Queues
      BY <1>1, <2>1 DEF Types
    <3> QED
      BY <1>5, <2>1, <3>1, <3>2
  <2>2. CASE /\ got'["request"] = Frame("request") /\ io # "base"
             /\ queue' = Queue(queue, "base", "offload") /\ UNCHANGED task
    <3>1. /\ "offload" \in Functors /\ "offload" \in BaseFunctors
          /\ ~In("offload", queue["base"])
      BY <1>5, <2>2 DEF Functors, BaseFunctors, Offloading
    <3>2. /\ queue' \in Queues /\ Ordered(queue)'
          /\ \A g : In(g, queue'["base"]) <=> In(g, queue["base"]) \/ g = "offload"
          /\ \A g : In(g, queue'[io']) <=> In(g, queue[io])
      BY <1>1, <1>2, <2>2, <3>1, Pushed DEF Types
    <3> QED
      BY <1>5, <2>2, <3>2 DEF Offloading, Completing, Removing, Establishing,
         HeaderWaits, BodyWaits, Destroying
  <2> QED
    BY <1>12, <2>1, <2>2
<1>16. Types'
  BY <1>1, <1>2, <1>9, <1>12, <1>15 DEF Types
<1>17. Life'
  BY <1>1, <1>2, <1>12, <1>15 DEF Life, Kept
<1>18. Work'
  <2>1. Frame("request") # <<>>
    BY <1>4, StreamFrame
  <2> QED
    BY <1>1, <1>2, <1>5, <1>12, <1>15, <2>1 DEF Work
<1>19. Client'
  BY <1>1, <1>2, <1>12 DEF Client, CliGone
<1>20. Request'
  BY <1>1, <1>2, <1>12, <1>13 DEF Request, Client
<1>21. Response'
  <2>1. task' # "done" /\ task # "done"
    BY <1>5, <1>15
  <2> QED
    BY <1>1, <1>2, <1>12, <1>14, <2>1 DEF Response, CliGone
<1> QED
  BY <1>15, <1>16, <1>17, <1>18, <1>19, <1>20, <1>21 DEF SessionInv

-----------------------------------------------------------------------------
(* The functors. *)

\* Where a functor waits.
LEMMA FunctorLoop ==
  ASSUME SessionInv, NEW l \in {"base", "io"}, queue[l] # <<>>
  PROVE  LET f == Head(queue[l])
         IN /\ f \in Functors /\ In(f, queue[l])
            /\ f \in {"connectEstablished", "header", "body"} => l = io /\ io = "io"
            /\ f \in {"offload", "removeConnection"} => l = "base" /\ io = "io"
            /\ f = "completeTask" => l = "base"
            /\ f = "connectDestroyed" => l = io
            /\ f = "body" => ~HeaderWaits
            /\ f = "connectDestroyed" => ~HeaderWaits /\ ~BodyWaits
<1> DEFINE f == Head(queue[l])
<1>1. queue \in Queues /\ Ordered(queue) /\ io \in {"base", "io"}
  BY DEF SessionInv, Types
<1>2. /\ f \in IF l = "base" THEN BaseFunctors ELSE IoFunctors
      /\ f \in Functors /\ In(f, queue[l])
      /\ l = io /\ f = "body" => ~In("header", queue[io])
      /\ l = io /\ f = "connectDestroyed" =>
           ~In("header", queue[io]) /\ ~In("body", queue[io])
  <2>1. Popping(queue, l, [queue EXCEPT ![l] = Tail(@)], f)
    BY <1>1, PoppedFrom
  <2> QED
    BY <2>1 DEF Popping
<1> HIDE DEF f
<1>3. /\ f \in {"connectEstablished", "header", "body"} => l = io /\ io = "io"
      /\ f \in {"offload", "removeConnection"} => l = "base" /\ io = "io"
      /\ f = "completeTask" => l = "base"
      /\ f = "connectDestroyed" => l = io
  BY <1>1, <1>2 DEF BaseFunctors, IoFunctors
<1> QED
  BY <1>2, <1>3 DEF f, HeaderWaits, BodyWaits

\* The queues after it was taken.
LEMMA Popped ==
  ASSUME queue \in Queues, Ordered(queue), io \in {"base", "io"}, io' = io,
         NEW l \in {"base", "io"}, queue[l] # <<>>,
         queue' = [queue EXCEPT ![l] = Tail(@)]
  PROVE  LET f == Head(queue[l])
         IN /\ queue' \in Queues /\ Ordered(queue)'
            /\ \A g : In(g, queue'["base"]) <=>
                       In(g, queue["base"]) /\ ~(l = "base" /\ g = f)
            /\ \A g : In(g, queue'[io']) <=> In(g, queue[io]) /\ ~(l = io /\ g = f)
<1> DEFINE r == [queue EXCEPT ![l] = Tail(@)]
           f == Head(queue[l])
<1>1. /\ r \in Queues /\ Ordered(r)
      /\ \A g : In(g, r["base"]) <=> In(g, queue["base"]) /\ ~(l = "base" /\ g = f)
      /\ \A g : In(g, r[io]) <=> In(g, queue[io]) /\ ~(l = io /\ g = f)
  <2>1. Popping(queue, l, r, f)
    BY PoppedFrom
  <2> HIDE DEF r, f
  <2> QED
    BY <2>1 DEF Popping
<1>2. queue' = r
  OBVIOUS
<1> HIDE DEF r, f
<1>3. Ordered(queue)'
  BY <1>1, <1>2, OrderedNext
<1> QED
  BY <1>1, <1>2, <1>3 DEF f

\* What else RunFunctor leaves alone.
FunctorFrame ==
  UNCHANGED <<io, checked, cli, c2s, got, exit>>

LEMMA EstablishedKeeps ==
  ASSUME SessionInv, NEW l \in {"base", "io"}, queue[l] # <<>>,
         Head(queue[l]) = "connectEstablished",
         queue' = [queue EXCEPT ![l] = Tail(@)],
         srv' = [srv EXCEPT !.state = "connected", !.added = TRUE],
         ok' = (ok /\ srv.state = "connecting"),
         UNCHANGED <<connections, task, sending, s2c>>, FunctorFrame
  PROVE  SessionInv'
<1>1. Types /\ Ordered(queue) /\ Life /\ Work /\ Client /\ Request /\ Response
  BY DEF SessionInv
<1>2. UNCHANGED <<io, checked, cli, c2s, got, exit>>
  BY DEF FunctorFrame
<1>3. l = "io" /\ io = "io" /\ Establishing
  BY FunctorLoop DEF Establishing
<1>4. /\ queue' \in Queues /\ Ordered(queue)'
      /\ \A g : In(g, queue'["base"]) <=> In(g, queue["base"])
      /\ \A g : In(g, queue'[io']) <=> In(g, queue[io]) /\ g # "connectEstablished"
  <2>1. queue \in Queues /\ io \in {"base", "io"}
    BY <1>1 DEF Types
  <2> QED
    BY <1>1, <1>2, <1>3, <2>1, Popped
<1>5. /\ (Offloading' <=> Offloading) /\ (Completing' <=> Completing)
      /\ (Removing' <=> Removing) /\ ~Establishing'
      /\ (HeaderWaits' <=> HeaderWaits) /\ (BodyWaits' <=> BodyWaits)
      /\ (Destroying' <=> Destroying)
  BY <1>4 DEF Offloading, Completing, Removing, Establishing, HeaderWaits,
     BodyWaits, Destroying
<1>6. /\ srv.state = "connecting" /\ connections /\ task = "none" /\ ~Offloading
      /\ ~Removing /\ ~Destroying /\ srv \in Conns /\ ok = TRUE
  BY <1>1, <1>3 DEF Life, Types
<1>7. /\ srv' \in Conns /\ srv'.state = "connected" /\ srv'.added
      /\ srv'.in = srv.in /\ srv'.out = srv.out /\ srv'.writing = srv.writing
  BY <1>6 DEF Conns, States
<1>8. Inbound' = Inbound /\ Taken' = Taken /\ Outbound' = Outbound
  BY <1>2, <1>7, InboundSame, TakenSame, OutboundSame
<1>9. Types'
  BY <1>1, <1>2, <1>4, <1>6, <1>7 DEF Types
<1>10. Life'
  BY <1>1, <1>2, <1>5, <1>6, <1>7 DEF Life, Kept
<1>11. Work'
  BY <1>1, <1>2, <1>5, <1>6, <1>7 DEF Work
<1>12. Client'
  BY <1>1, <1>2, <1>6, <1>7 DEF Client, CliGone
<1>13. Request'
  BY <1>1, <1>2, <1>7, <1>8 DEF Request
<1>14. Response'
  <2>1. Outbound = <<>>
    <3>1. /\ got["response"] = <<>> /\ Content(cli.in) = <<>>
          /\ s2c = <<>> /\ Content(srv.out) = <<>>
      BY <1>1, <1>6 DEF Response
    <3> QED
      BY <3>1, EmptyJoin, Zenon DEF Outbound, Taken
  <2>2. Taken = <<>>
    <3>1. got["response"] = <<>> /\ Content(cli.in) = <<>> /\ s2c = <<>>
      BY <1>1, <1>6 DEF Response
    <3> QED
      BY <3>1, EmptyJoin, Zenon DEF Taken
  <2>3. Stream("response", Outbound)
    BY <1>1, <2>1, <2>2 DEF Response
  <2> QED
    BY <1>1, <1>2, <1>6, <1>7, <1>8, <2>3 DEF Response, CliGone
<1> QED
  BY <1>4, <1>9, <1>10, <1>11, <1>12, <1>13, <1>14 DEF SessionInv

LEMMA OffloadKeeps ==
  ASSUME SessionInv, NEW l \in {"base", "io"}, Free(l), queue[l] # <<>>,
         Head(queue[l]) = "offload", queue' = [queue EXCEPT ![l] = Tail(@)],
         task' = "held", UNCHANGED <<connections, sending, srv, s2c, ok>>,
         FunctorFrame
  PROVE  SessionInv'
<1>1. Types /\ Ordered(queue) /\ Life /\ Work /\ Client /\ Request /\ Response
  BY DEF SessionInv
<1>2. UNCHANGED <<io, checked, cli, c2s, got, exit>>
  BY DEF FunctorFrame
<1>3. l = "base" /\ io = "io" /\ Offloading
  BY FunctorLoop DEF Offloading
<1>4. /\ queue' \in Queues /\ Ordered(queue)'
      /\ \A g : In(g, queue'["base"]) <=> In(g, queue["base"]) /\ g # "offload"
      /\ \A g : In(g, queue'[io']) <=> In(g, queue[io])
  <2>1. queue \in Queues /\ io \in {"base", "io"}
    BY <1>1 DEF Types
  <2> QED
    BY <1>1, <1>2, <1>3, <2>1, Popped
<1>5. /\ ~Offloading' /\ (Completing' <=> Completing)
      /\ (Removing' <=> Removing) /\ (Establishing' <=> Establishing)
      /\ (HeaderWaits' <=> HeaderWaits) /\ (BodyWaits' <=> BodyWaits)
      /\ (Destroying' <=> Destroying)
  BY <1>4 DEF Offloading, Completing, Removing, Establishing, HeaderWaits,
     BodyWaits, Destroying
<1>6. /\ task = "none" /\ ~Completing /\ sending = <<>> /\ ~HeaderWaits
      /\ ~BodyWaits /\ got["request"] # <<>>
      /\ srv.state \notin {"none", "connecting", "freed"}
  BY <1>1, <1>3 DEF Work, Life, Kept
<1>7. Inbound' = Inbound /\ Taken' = Taken /\ Outbound' = Outbound
  BY <1>2, InboundSame, TakenSame, OutboundSame
<1>8. Types'
  BY <1>1, <1>2, <1>4 DEF Types
<1>9. Life'
  BY <1>1, <1>2, <1>3, <1>5, <1>6 DEF Life, Kept
<1>10. Work'
  BY <1>1, <1>2, <1>5, <1>6 DEF Work
<1>11. Client' /\ Request'
  BY <1>1, <1>2, <1>7 DEF Client, CliGone, Request
<1>12. Response'
  BY <1>1, <1>2, <1>6, <1>7 DEF Response, CliGone
<1> QED
  BY <1>4, <1>8, <1>9, <1>10, <1>11, <1>12 DEF SessionInv

LEMMA SendInLoopKeeps ==
  ASSUME SessionInv, NEW l \in {"base", "io"}, queue[l] # <<>>,
         Head(queue[l]) \in {"header", "body"},
         queue' = [queue EXCEPT ![l] = Tail(@)],
         SrvSendInLoop(Head(queue[l])),
         UNCHANGED <<connections, task, sending>>, FunctorFrame
  PROVE  SessionInv'
<1>1. Types /\ Ordered(queue) /\ Life /\ Work /\ Client /\ Request /\ Response
  BY DEF SessionInv
<1>2. UNCHANGED <<io, checked, cli, c2s, got, exit>>
  BY DEF FunctorFrame
<1> DEFINE p == Head(queue[l])
<1>3. /\ l = "io" /\ io = "io" /\ In(p, queue[io])
      /\ p = "body" => ~HeaderWaits
  BY FunctorLoop
<1>4. /\ queue' \in Queues /\ Ordered(queue)'
      /\ \A g : In(g, queue'["base"]) <=> In(g, queue["base"])
      /\ \A g : In(g, queue'[io']) <=> In(g, queue[io]) /\ g # p
  <2>1. queue \in Queues /\ io \in {"base", "io"}
    BY <1>1 DEF Types
  <2> QED
    BY <1>1, <1>2, <1>3, <2>1, Popped
<1>5. p \in {"header", "body"} /\ SrvSendInLoop(p)
  OBVIOUS
<1> HIDE DEF p
<1>6. /\ (Offloading' <=> Offloading) /\ (Completing' <=> Completing)
      /\ (Removing' <=> Removing) /\ (Establishing' <=> Establishing)
      /\ (HeaderWaits' <=> HeaderWaits /\ p # "header")
      /\ (BodyWaits' <=> BodyWaits /\ p # "body")
      /\ (Destroying' <=> Destroying)
      /\ (p = "header" => HeaderWaits) /\ (p = "body" => BodyWaits)
  BY <1>3, <1>4, <1>5 DEF Offloading, Completing, Removing, Establishing,
     HeaderWaits, BodyWaits, Destroying
<1>7. /\ task = "done" /\ srv.state \in {"connected", "disconnected"}
      /\ connections \/ Destroying
  <2>1. srv.state \in States
    BY <1>1, ConnParts DEF Types
  <2> QED
    BY <1>1, <1>5, <1>6, <2>1 DEF Work, Life, States
<1>8. <<"header", "body">> # <<>> /\ <<"body">> # <<>>
      /\ <<"header", "body">> # <<"body">>
  OBVIOUS
<1>9. /\ Given = IF p = "header" THEN 0 ELSE HeaderLen
      /\ srv.state = "connected" =>
           Given' = IF p = "header" THEN HeaderLen ELSE Size("response")
  <2>1. CASE p = "header"
    <3>1. HeaderWaits /\ sending # <<"header", "body">> /\ ~HeaderWaits'
          /\ (srv.state = "connected" => sending = <<"body">> \/ BodyWaits')
      BY <1>1, <1>6, <1>8, <2>1 DEF Work, Types
    <3> QED
      BY <2>1, <3>1 DEF Given
  <2>2. CASE p = "body"
    <3>1. BodyWaits /\ ~HeaderWaits /\ ~HeaderWaits' /\ ~BodyWaits' /\ sending = <<>>
      BY <1>1, <1>3, <1>6, <2>2 DEF Work
    <3> QED
      BY <1>8, <2>2, <3>1 DEF Given
  <2> QED
    BY <1>5, <2>1, <2>2
<1>10. srv.state = "connected" /\ ~CliGone =>
         Len(Outbound) = IF p = "header" THEN 0 ELSE HeaderLen
  BY <1>1, <1>7, <1>9 DEF Response
<1>11. /\ srv' \in Conns /\ srv'.state = srv.state /\ srv'.added = srv.added
       /\ srv'.in = srv.in /\ (srv'.writing => srv.state = "connected")
       /\ s2c' \in Seq(Byte) /\ Len(s2c') <= PipeCap /\ ok' = TRUE
       /\ Stream("response", Taken')
       /\ srv.state = "connected" /\ ~CliGone =>
            /\ Stream("response", Outbound')
            /\ Len(Outbound') = IF p = "header" THEN HeaderLen ELSE Size("response")
  <2>1. UNCHANGED <<cli, got, exit>>
    BY <1>2
  <2> QED
    BY ONLY SessionInv, <1>5, <1>7, <1>10, <2>1, SrvSends
<1>12. Inbound' = Inbound
  BY <1>2, <1>11, InboundSame
<1>13. Types'
  BY <1>1, <1>2, <1>4, <1>11 DEF Types
<1>14. Life' /\ Client'
  BY <1>1, <1>2, <1>6, <1>11 DEF Life, Kept, Client, CliGone
<1>15. Work'
  BY <1>1, <1>2, <1>3, <1>5, <1>6, <1>7, <1>11 DEF Work
<1>16. Request'
  BY <1>1, <1>2, <1>11, <1>12 DEF Request
<1>17. Response'
  BY <1>2, <1>7, <1>9, <1>11 DEF Response, CliGone
<1> QED
  BY <1>4, <1>13, <1>14, <1>15, <1>16, <1>17 DEF SessionInv

LEMMA RemoveKeeps ==
  ASSUME SessionInv, NEW l \in {"base", "io"}, Free(l), queue[l] # <<>>,
         Head(queue[l]) = "removeConnection", connections' = FALSE,
         queue' = Queue([queue EXCEPT ![l] = Tail(@)], io, "connectDestroyed"),
         ok' = (ok /\ connections), UNCHANGED <<task, sending, srv, s2c>>,
         FunctorFrame
  PROVE  SessionInv'
<1>1. Types /\ Ordered(queue) /\ Life /\ Work /\ Client /\ Request /\ Response
  BY DEF SessionInv
<1>2. UNCHANGED <<io, checked, cli, c2s, got, exit>>
  BY DEF FunctorFrame
<1>3. l = "base" /\ io = "io" /\ Removing
  BY FunctorLoop DEF Removing
<1>4. /\ connections /\ srv.state = "disconnected" /\ ~Destroying /\ ok = TRUE
      /\ queue \in Queues /\ sending = <<>> /\ ~checked
  BY <1>1, <1>3 DEF Life, Types, Work, Free
<1> DEFINE q == [queue EXCEPT ![l] = Tail(@)]
           r == Queue(q, "io", "connectDestroyed")
<1>5. /\ q \in Queues /\ Ordered(q)
      /\ \A g : In(g, q["base"]) <=> In(g, queue["base"]) /\ g # "removeConnection"
      /\ \A g : In(g, q[io]) <=> In(g, queue[io])
  <2>1. Popping(queue, l, q, "removeConnection")
    BY <1>1, <1>3, <1>4, PoppedFrom
  <2> HIDE DEF q
  <2> QED
    BY <1>3, <2>1 DEF Popping
<1>6. queue' = r
  BY <1>3
<1> HIDE DEF q
<1>7. /\ r \in Queues /\ Ordered(r)
      /\ \A g : In(g, r["base"]) <=> In(g, q["base"])
      /\ \A g : In(g, r[io]) <=> In(g, q[io]) \/ g = "connectDestroyed"
  <2>1. /\ "connectDestroyed" \in Functors /\ "connectDestroyed" \in IoFunctors
        /\ ~In("connectDestroyed", q["io"])
    BY <1>3, <1>4, <1>5 DEF Functors, IoFunctors, Destroying
  <2>2. Pushing(q, "io", r, "connectDestroyed")
    BY <1>3, <1>5, <2>1, PushedTo
  <2> HIDE DEF r
  <2> QED
    BY <1>3, <2>2 DEF Pushing
<1> HIDE DEF r
<1>8. queue' \in Queues /\ Ordered(queue)'
  BY <1>2, <1>6, <1>7, OrderedNext
<1>9. /\ (Offloading' <=> Offloading) /\ (Completing' <=> Completing)
      /\ ~Removing' /\ (Establishing' <=> Establishing)
      /\ (HeaderWaits' <=> HeaderWaits) /\ (BodyWaits' <=> BodyWaits)
      /\ Destroying'
  BY <1>2, <1>5, <1>6, <1>7 DEF Offloading, Completing, Removing, Establishing,
     HeaderWaits, BodyWaits, Destroying
<1>10. Inbound' = Inbound /\ Taken' = Taken /\ Outbound' = Outbound
  BY <1>2, InboundSame, TakenSame, OutboundSame
<1>11. Types'
  BY <1>1, <1>2, <1>4, <1>8 DEF Types
<1>12. Life'
  BY <1>1, <1>2, <1>3, <1>4, <1>9 DEF Life, Kept
<1>13. Work'
  BY <1>1, <1>2, <1>4, <1>9 DEF Work
<1>14. Client' /\ Request'
  BY <1>1, <1>2, <1>10 DEF Client, CliGone, Request
<1>15. Response'
  BY <1>1, <1>2, <1>4, <1>10 DEF Response, CliGone
<1> QED
  BY <1>8, <1>11, <1>12, <1>13, <1>14, <1>15 DEF SessionInv

\* Who holds the connection.
Holders == connections \/ Kept \/ Removing \/ Establishing \/ Destroying

LEMMA HeldBy ==
  io \in {"base", "io"} /\ queue \in Queues /\ Ordered(queue)
    => (Held(connections, task, queue) <=> Holders)
<1> SUFFICES ASSUME io \in {"base", "io"}, queue \in Queues, Ordered(queue)
             PROVE  Held(connections, task, queue) <=> Holders
  OBVIOUS
<1>1. /\ io \in {"base", "io"} /\ DOMAIN queue = {"base", "io"}
      /\ \A f : In(f, queue["base"]) => f \in BaseFunctors
      /\ \A f : In(f, queue["io"]) => f \in IoFunctors
  BY DEF Ordered, Queues
<1>2. (\E k \in DOMAIN queue : \E i \in DOMAIN queue[k] : queue[k][i] \in Holding)
        <=> \E f \in Holding : In(f, queue["base"]) \/ In(f, queue["io"])
  BY <1>1, Zenon DEF In
<1>3. (\E f \in Holding : In(f, queue["base"]) \/ In(f, queue["io"]))
        <=> Offloading \/ Removing \/ Establishing \/ Destroying
  <2>1. CASE io = "base"
    BY <1>1, <2>1 DEF BaseFunctors, IoFunctors, Holding, Offloading, Removing,
       Establishing, Destroying
  <2>2. CASE io = "io"
    BY <1>1, <2>2 DEF BaseFunctors, IoFunctors, Holding, Offloading, Removing,
       Establishing, Destroying
  <2> QED
    BY <1>1, <2>1, <2>2
<1> QED
  BY <1>2, <1>3 DEF Held, Holders, Kept

LEMMA HeldByNext ==
  ASSUME io' \in {"base", "io"}, queue' \in Queues, Ordered(queue)'
  PROVE  Held(connections, task, queue)' <=> Holders'
<1>1. (io \in {"base", "io"} /\ queue \in Queues /\ Ordered(queue)
         => (Held(connections, task, queue) <=> Holders))'
  BY HeldBy, PTL
<1> QED
  BY <1>1

\* The last one to let go of the connection destructs it.
LEMMA Released ==
  ASSUME SessionInv, srv.state \in {"connected", "disconnected"},
         NEW s \in Conns, s.state = srv.state, s.in = srv.in, s.out = srv.out,
         s.writing = srv.writing, Release(s), io' = io, queue' \in Queues,
         Ordered(queue)', UNCHANGED <<connections, cli, c2s, got>>,
         ~Holders' => ~s.added
  PROVE  /\ ok' = TRUE /\ srv' \in Conns /\ srv'.added = s.added
         /\ srv'.writing => srv'.state = "connected"
         /\ Stream("request", Inbound')
         /\ \/ /\ Holders' /\ srv'.state = srv.state
               /\ Content(srv'.out) = Content(srv.out)
            \/ /\ ~Holders' /\ srv'.state = "freed" /\ srv.state = "disconnected"
               /\ Content(srv'.out) = <<>>
<1>1. Types /\ Ordered(queue) /\ Life /\ Work /\ Client /\ Request /\ Response
  BY DEF SessionInv
<1>2. Held(connections, task, queue)' <=> Holders'
  <2>1. io' \in {"base", "io"}
    BY <1>1 DEF Types
  <2> QED
    BY <2>1, HeldByNext
<1>3. ok = TRUE /\ (srv.writing => srv.state = "connected") /\ c2s \in Seq(Byte)
  BY <1>1 DEF Types, Life
<1>4. CASE Holders'
  <2>1. srv' = s /\ ok' = ok
    BY <1>2, <1>4 DEF Release
  <2>2. Inbound' = Inbound
    BY <2>1, InboundSame
  <2> QED
    BY <1>1, <1>3, <1>4, <2>1, <2>2 DEF Request
<1>5. CASE ~Holders'
  <2>1. srv.state = "disconnected" /\ ~s.added
    BY <1>1, <1>5 DEF Holders, Life
  <2>2. /\ srv' = [s EXCEPT !.state = "freed", !.in = NewBuffer,
                            !.out = NewBuffer, !.writing = FALSE]
        /\ ok' = TRUE
    BY <1>2, <1>3, <1>5, <2>1 DEF Release
  <2>3. NewBuffer \in Buffers /\ Content(NewBuffer) = <<>>
    BY NewBufferEmpty, BuffersAre
  <2>4. /\ srv' \in Conns /\ srv'.state = "freed" /\ srv'.added = s.added
        /\ srv'.writing = FALSE /\ srv'.in = NewBuffer /\ srv'.out = NewBuffer
    BY <2>2, <2>3 DEF Conns, States
  <2>5. Content(srv'.in) = <<>> /\ Content(srv'.out) = <<>>
    BY <2>3, <2>4
  <2>6. Stream("request", Inbound')
    <3>1. /\ c2s' = <<>> /\ Content(cli'.out) = <<>> /\ got' = got
      BY <1>1, <2>1 DEF Request
    <3>2. got["request"] \in Seq(Byte) /\ "request" \in Msgs
      BY <1>1, Sizes DEF Types
    <3>3. Inbound' = Join(Join(Join(got["request"], <<>>), <<>>), <<>>)
      BY <2>5, <3>1, Zenon DEF Inbound
    <3>4. Inbound' = got["request"]
      BY <3>2, <3>3, JoinEmpty
    <3>5. Stream("request", got["request"])
      <4>1. CASE got["request"] = Frame("request")
        BY <3>2, <4>1, StreamFrame
      <4>2. CASE got["request"] = <<>>
        BY <3>2, <4>2, Sizes DEF Stream, At, Size
      <4> QED
        BY <1>1, <4>1, <4>2 DEF Work
    <3> QED
      BY <3>4, <3>5
  <2> QED
    BY <1>5, <2>1, <2>2, <2>4, <2>5, <2>6
<1> QED
  BY <1>4, <1>5

LEMMA CompleteTaskKeeps ==
  ASSUME SessionInv, NEW l \in {"base", "io"}, Free(l), queue[l] # <<>>,
         Head(queue[l]) = "completeTask",
         queue' = [queue EXCEPT ![l] = Tail(@)], task' = "done",
         sending' = <<"header", "body">>, UNCHANGED <<connections, s2c>>,
         Release(srv), FunctorFrame
  PROVE  SessionInv'
<1>1. Types /\ Ordered(queue) /\ Life /\ Work /\ Client /\ Request /\ Response
  BY DEF SessionInv
<1>2. UNCHANGED <<io, checked, cli, c2s, got, exit>>
  BY DEF FunctorFrame
<1>3. l = "base" /\ Completing
  BY FunctorLoop DEF Completing
<1>4. /\ queue' \in Queues /\ Ordered(queue)'
      /\ \A g : In(g, queue'["base"]) <=> In(g, queue["base"]) /\ g # "completeTask"
      /\ \A g : g # "completeTask" => (In(g, queue'[io']) <=> In(g, queue[io]))
  <2>1. queue \in Queues /\ io \in {"base", "io"}
    BY <1>1 DEF Types
  <2> QED
    BY <1>1, <1>2, <1>3, <2>1, Popped
<1>5. /\ (Offloading' <=> Offloading) /\ ~Completing'
      /\ (Removing' <=> Removing) /\ (Establishing' <=> Establishing)
      /\ (HeaderWaits' <=> HeaderWaits) /\ (BodyWaits' <=> BodyWaits)
      /\ (Destroying' <=> Destroying)
  BY <1>4 DEF Offloading, Completing, Removing, Establishing, HeaderWaits,
     BodyWaits, Destroying
<1>6. /\ task = "untarred" /\ ~Offloading /\ sending = <<>> /\ ~HeaderWaits
      /\ ~BodyWaits /\ ~checked /\ got["request"] # <<>>
  BY <1>1, <1>3 DEF Work, Free
<1>7. srv.state \in {"connected", "disconnected"} /\ srv \in Conns /\ ~Establishing
  <2>1. srv.state \in States /\ srv \in Conns
    BY <1>1, ConnParts DEF Types
  <2> QED
    BY <1>1, <1>6, <2>1 DEF Life, Kept, States
<1>8. ~Kept' /\ (Holders' <=> connections \/ Removing \/ Destroying)
  BY <1>5, <1>6, <1>7 DEF Kept, Holders
<1>9. ~Holders' => ~srv.added
  BY <1>1, <1>7, <1>8 DEF Life
<1>10. /\ ok' = TRUE /\ srv' \in Conns /\ srv'.added = srv.added
       /\ srv'.writing => srv'.state = "connected"
       /\ Stream("request", Inbound')
       /\ \/ /\ Holders' /\ srv'.state = srv.state
             /\ Content(srv'.out) = Content(srv.out)
          \/ /\ ~Holders' /\ srv'.state = "freed" /\ srv.state = "disconnected"
             /\ Content(srv'.out) = <<>>
  <2>1. UNCHANGED <<connections, cli, c2s, got>> /\ io' = io
    BY <1>2
  <2> QED
    BY ONLY SessionInv, Release(srv), <1>4, <1>7, <1>9, <2>1, Released
<1>11. Types'
  BY <1>1, <1>2, <1>4, <1>10 DEF Types
<1>12. Life'
  BY <1>1, <1>2, <1>5, <1>6, <1>7, <1>8, <1>10 DEF Life
<1>13. <<"header", "body">> # <<>>
  OBVIOUS
<1>14. Work'
  BY <1>1, <1>2, <1>5, <1>6, <1>13 DEF Work
<1>15. Client'
  BY <1>1, <1>2, <1>7, <1>10 DEF Client, CliGone
<1>16. Request'
  BY <1>1, <1>2, <1>7, <1>10 DEF Request
<1>17. Taken' = Taken
  BY <1>2, TakenSame
<1>18. Given' = 0
  BY DEF Given
<1>19. srv'.state = "connected" => Outbound' = Outbound /\ Len(Outbound) = 0
  <2>1. Content(srv'.out) = Content(srv.out) \/ srv'.state # "connected"
    BY <1>10
  <2>2. /\ got["response"] = <<>> /\ Content(cli.in) = <<>>
        /\ s2c = <<>> /\ Content(srv.out) = <<>>
    BY <1>1, <1>6 DEF Response
  <2>3. Outbound = <<>>
    BY <2>2, EmptyJoin, Zenon DEF Outbound, Taken
  <2> QED
    BY <1>17, <2>1, <2>3, OutboundSame
<1>20. Response'
  BY <1>1, <1>2, <1>10, <1>17, <1>18, <1>19 DEF Response, CliGone
<1> QED
  BY <1>4, <1>11, <1>12, <1>14, <1>15, <1>16, <1>20 DEF SessionInv

LEMMA DestroyedKeeps ==
  ASSUME SessionInv, NEW l \in {"base", "io"}, queue[l] # <<>>,
         Head(queue[l]) = "connectDestroyed",
         queue' = [queue EXCEPT ![l] = Tail(@)],
         UNCHANGED <<connections, task, sending, s2c>>,
         Release([srv EXCEPT !.added = FALSE]), FunctorFrame
  PROVE  SessionInv'
<1>1. Types /\ Ordered(queue) /\ Life /\ Work /\ Client /\ Request /\ Response
  BY DEF SessionInv
<1>2. UNCHANGED <<io, checked, cli, c2s, got, exit>>
  BY DEF FunctorFrame
<1>3. l = io /\ Destroying /\ ~HeaderWaits /\ ~BodyWaits
  BY FunctorLoop DEF Destroying
<1>4. /\ queue' \in Queues /\ Ordered(queue)'
      /\ \A g : g # "connectDestroyed" =>
                  (In(g, queue'["base"]) <=> In(g, queue["base"]))
      /\ \A g : In(g, queue'[io']) <=> In(g, queue[io]) /\ g # "connectDestroyed"
  <2>1. queue \in Queues /\ io \in {"base", "io"}
    BY <1>1 DEF Types
  <2> QED
    BY <1>1, <1>2, <1>3, <2>1, Popped
<1>5. /\ (Offloading' <=> Offloading) /\ (Completing' <=> Completing)
      /\ (Removing' <=> Removing) /\ (Establishing' <=> Establishing)
      /\ ~HeaderWaits' /\ ~BodyWaits' /\ ~Destroying'
  BY <1>3, <1>4 DEF Offloading, Completing, Removing, Establishing, HeaderWaits,
     BodyWaits, Destroying
<1>6. /\ srv.state = "disconnected" /\ ~connections /\ ~Removing /\ ~Establishing
      /\ ~checked /\ srv \in Conns
  BY <1>1, <1>3 DEF Life, Work, Types
<1> DEFINE s == [srv EXCEPT !.added = FALSE]
<1>7. /\ s \in Conns /\ s.state = srv.state /\ s.in = srv.in /\ s.out = srv.out
      /\ s.writing = srv.writing /\ s.added = FALSE
  BY <1>6 DEF Conns
<1>8. (Kept' <=> Kept) /\ (Holders' <=> Kept)
  BY <1>5, <1>6 DEF Kept, Holders
<1>9. Release(s)
  OBVIOUS
<1> HIDE DEF s
<1>10. /\ ok' = TRUE /\ srv' \in Conns /\ srv'.added = FALSE
       /\ srv'.writing => srv'.state = "connected"
       /\ Stream("request", Inbound')
       /\ \/ /\ Holders' /\ srv'.state = srv.state
             /\ Content(srv'.out) = Content(srv.out)
          \/ /\ ~Holders' /\ srv'.state = "freed" /\ srv.state = "disconnected"
             /\ Content(srv'.out) = <<>>
  <2>1. UNCHANGED <<connections, cli, c2s, got>> /\ io' = io
    BY <1>2
  <2>2. srv.state \in {"connected", "disconnected"}
    BY <1>6
  <2> QED
    BY ONLY SessionInv, <1>4, <1>7, <1>9, <2>1, <2>2, Released
<1>11. Types'
  BY <1>1, <1>2, <1>4, <1>10 DEF Types
<1>12. Life'
  BY <1>1, <1>2, <1>5, <1>6, <1>8, <1>10 DEF Life
<1>14. Work'
  BY <1>1, <1>2, <1>5, <1>6 DEF Work
<1>15. Client'
  BY <1>1, <1>2, <1>6, <1>10 DEF Client, CliGone
<1>16. Request'
  BY <1>1, <1>2, <1>6, <1>10 DEF Request
<1>17. Taken' = Taken
  BY <1>2, TakenSame
<1>20. Response'
  BY <1>1, <1>2, <1>6, <1>10, <1>17 DEF Response
<1> QED
  BY <1>4, <1>11, <1>12, <1>14, <1>15, <1>16, <1>20 DEF SessionInv

LEMMA RunFunctorKeeps ==
  ASSUME SessionInv, NEW l \in {"base", "io"}, RunFunctor(l)
  PROVE  SessionInv'
<1> DEFINE f == Head(queue[l])
<1>1. Free(l) /\ queue[l] # <<>> /\ FunctorFrame
  BY DEF RunFunctor, FunctorFrame
<1>2. CASE /\ f = "connectEstablished" /\ queue' = [queue EXCEPT ![l] = Tail(@)]
           /\ srv' = [srv EXCEPT !.state = "connected", !.added = TRUE]
           /\ ok' = (ok /\ srv.state = "connecting")
           /\ UNCHANGED <<connections, task, sending, s2c>>
  BY <1>1, <1>2, EstablishedKeeps
<1>3. CASE /\ f = "offload" /\ queue' = [queue EXCEPT ![l] = Tail(@)]
           /\ task' = "held" /\ UNCHANGED <<connections, sending, srv, s2c, ok>>
  BY <1>1, <1>3, OffloadKeeps
<1>4. CASE /\ f = "completeTask" /\ queue' = [queue EXCEPT ![l] = Tail(@)]
           /\ task' = "done" /\ sending' = <<"header", "body">>
           /\ UNCHANGED <<connections, s2c>> /\ Release(srv)
  BY <1>1, <1>4, CompleteTaskKeeps
<1>5. CASE /\ f \in {"header", "body"} /\ queue' = [queue EXCEPT ![l] = Tail(@)]
           /\ SrvSendInLoop(f) /\ UNCHANGED <<connections, task, sending>>
  BY <1>1, <1>5, SendInLoopKeeps
<1>6. CASE /\ f = "removeConnection" /\ connections' = FALSE
           /\ queue' = Queue([queue EXCEPT ![l] = Tail(@)], io, "connectDestroyed")
           /\ ok' = (ok /\ connections) /\ UNCHANGED <<task, sending, srv, s2c>>
  BY <1>1, <1>6, RemoveKeeps
<1>7. CASE /\ f = "connectDestroyed" /\ queue' = [queue EXCEPT ![l] = Tail(@)]
           /\ UNCHANGED <<connections, task, sending, s2c>>
           /\ Release([srv EXCEPT !.added = FALSE])
  BY <1>1, <1>7, DestroyedKeeps
<1> QED
  BY <1>2, <1>3, <1>4, <1>5, <1>6, <1>7, Zenon DEF RunFunctor

LEMMA NextKeeps == SessionInv /\ [Next]_vars => SessionInv'
<1> SUFFICES ASSUME SessionInv, [Next]_vars PROVE SessionInv'
  OBVIOUS
<1>7. CASE UNCHANGED <<io, queue, connections, task, sending, checked, srv, cli,
                       c2s, s2c, got, exit, ok>>
  <2>1. Types /\ Ordered(queue) /\ Life /\ Work /\ Client /\ Request /\ Response
    BY DEF SessionInv
  <2>3. /\ Ordered(queue)' /\ (Offloading' <=> Offloading)
        /\ (Completing' <=> Completing) /\ (Removing' <=> Removing)
        /\ (Establishing' <=> Establishing) /\ (HeaderWaits' <=> HeaderWaits)
        /\ (BodyWaits' <=> BodyWaits) /\ (Destroying' <=> Destroying)
    BY <2>1, <1>7, QueuesSame
  <2>4. Inbound' = Inbound /\ Taken' = Taken /\ Outbound' = Outbound
    BY <1>7, InboundSame, TakenSame, OutboundSame
  <2>5. Types' /\ Client'
    BY <2>1, <1>7 DEF Types, Client, CliGone
  <2>6. Life' /\ Work'
    BY <2>1, <1>7, <2>3 DEF Life, Kept, Work
  <2>7. Request' /\ Response'
    BY <2>1, <1>7, <2>3, <2>4 DEF Request, Response, CliGone, Given
  <2> QED
    BY <2>3, <2>5, <2>6, <2>7 DEF SessionInv
<1>1. CASE IoStep
  BY <1>1, HandleReadKeeps, HandleCloseKeeps, SrvHandleWriteKeeps DEF IoStep
<1>2. CASE BaseStep
  BY <1>2, <1>7, AcceptKeeps, SendKeepsInv, SendQueuesKeeps
  DEF BaseStep, SendCrashes
<1>3. CASE CliStep
  BY <1>3, OnConnectionKeeps, CliHandleWriteKeeps, CliHandleReadKeeps,
     CliExitKeeps DEF CliStep
<1>4. CASE Untarred
  BY <1>4, UntarredKeeps
<1>5. CASE CliKilled
  BY <1>5, CliKilledKeeps
<1>6. CASE \E l \in {"base", "io"} : RunFunctor(l)
  BY <1>6, RunFunctorKeeps
<1> QED
  BY <1>1, <1>2, <1>3, <1>4, <1>5, <1>6, <1>7 DEF Next, vars

\* The inductive invariant of one pull over its connection holds: for every
\* header and message size, every socket capacity and growth of the buffers,
\* however the streams are cut and whichever thread the connection lives in.
THEOREM SessionInvariance == Spec => []SessionInv
  BY InitInv, NextKeeps, PTL DEF Spec

-----------------------------------------------------------------------------
(* The properties follow. *)

LEMMA InvStreamIntact == SessionInv => StreamIntact
<1> SUFFICES ASSUME SessionInv PROVE StreamIntact
  OBVIOUS
<1>1. Types /\ Work /\ Request /\ Response
  BY DEF SessionInv
<1>2. "request" \in Msgs /\ "response" \in Msgs
  BY Sizes
<1>3. IsPrefixOf(Inbound, Frame("request"))
  BY <1>1, <1>2, StreamComplete DEF Request
<1>4. IsPrefixOf(Taken, Frame("response"))
  BY <1>1, <1>2, StreamComplete DEF Response
<1>5. ASSUME srv.state = "connected", ~CliGone
      PROVE  IsPrefixOf(Join(Outbound, Queued), Frame("response"))
  <2>1. /\ Stream("response", Outbound)
        /\ task = "done" => Len(Outbound) = Given
    BY <1>1, <1>5 DEF Response
  <2>2. Stream("response", Join(Outbound, Queued))
    <3>1. CASE HeaderWaits
      <4>1. task = "done" /\ Given = 0 /\ Queued = Frame("response")
        BY <1>1, <3>1 DEF Work, Given, Queued, HeaderWaits, In
      <4>2. Outbound = <<>>
        BY <1>2, <2>1, <4>1, StreamComplete
      <4>3. Stream("response", Frame("response")) /\ Frame("response") \in Seq(Byte)
        BY <1>2, StreamFrame, FrameBytes
      <4> QED
        BY <4>1, <4>2, <4>3, JoinEmpty
    <3>2. CASE ~HeaderWaits /\ BodyWaits
      <4>1. sending = <<>> /\ task = "done"
        BY <1>1, <3>2 DEF Work
      <4>2. Given = HeaderLen /\ Queued = Body("response")
        <5>1. <<"header", "body">> # <<>>
          OBVIOUS
        <5>2. Given = HeaderLen
          BY <3>2, <4>1, <5>1 DEF Given
        <5> QED
          BY <3>2, <5>2, Zenon DEF Queued, HeaderWaits, BodyWaits, In
      <4>3. /\ Body("response") \in Seq(Byte)
            /\ Len(Body("response")) = BodyLen["response"]
            /\ At(Body("response"), "response", HeaderLen)
        BY <1>2, FrameBytes
      <4>4. /\ Len(Outbound) = HeaderLen
            /\ HeaderLen + BodyLen["response"] <= Size("response")
        BY <2>1, <4>1, <4>2, Sizes DEF Size
      <4> QED
        BY <1>2, <2>1, <4>2, <4>3, <4>4, StreamGrows
    <3>3. CASE ~HeaderWaits /\ ~BodyWaits
      <4>1. Queued = <<>>
        BY <3>3, Zenon DEF Queued, HeaderWaits, BodyWaits, In
      <4> QED
        BY <2>1, <4>1, JoinEmpty DEF Stream
    <3> QED
      BY <3>1, <3>2, <3>3
  <2> HIDE DEF Queued
  <2> QED
    BY <1>2, <2>2, StreamComplete
<1> QED
  BY <1>3, <1>4, <1>5, Zenon DEF StreamIntact, Inbound, Taken, Outbound, Join

\* StreamIntact of every behaviour: no byte of the request or of the response
\* is lost, doubled or out of order.
THEOREM AlwaysStreamIntact == Spec => []StreamIntact
  BY SessionInvariance, InvStreamIntact, PTL

LEMMA InvWholeFrames == SessionInv => WholeFrames
<1> SUFFICES ASSUME SessionInv PROVE WholeFrames
  OBVIOUS
<1>1. Types /\ Work /\ Client
  BY DEF SessionInv
<1>2. got["response"] \in {<<>>, Frame("response")}
  BY <1>1 DEF Client, Types
<1>3. got["request"] \in {<<>>, Frame("request")}
      /\ (task # "none" => got["request"] = Frame("request"))
  BY <1>1 DEF Work
<1>4. \A m \in Msgs : got[m] \in {<<>>, Frame(m)}
  BY <1>2, <1>3, Zenon DEF Msgs
<1> QED
  BY <1>1, <1>3, <1>4 DEF WholeFrames, SessionAssertions, Types, Client

\* WholeFrames of every behaviour: every assertion holds, each message is taken
\* once and whole, and the CLI ends by itself with a whole response only.
THEOREM AlwaysWholeFrames == Spec => []WholeFrames
  BY SessionInvariance, InvWholeFrames, PTL

\* What is known of a connection that is over: the CLI has gone, or it has its
\* response, and then nothing is left to be sent.
Departed ==
  srv.state \in {"disconnected", "freed"} =>
    \/ CliGone
    \/ (exit = "quit" /\ task = "done" /\ sending = <<>>)

\* A CLI that quits has got all that was sent.
LEMMA QuitHasAll ==
  ASSUME SessionInv, srv.state = "connected", exit = "quit"
  PROVE  task = "done" /\ sending = <<>>
<1>1. Types /\ Work /\ Client /\ Response
  BY DEF SessionInv
<1>2. got["response"] = Frame("response") /\ ~CliGone
  BY <1>1 DEF Client, CliGone
<1>3. task = "done"
  <2>1. got["response"] # <<>>
    BY <1>2, StreamFrame, Sizes
  <2> QED
    BY <1>1, <2>1 DEF Response
<1>4. Stream("response", Outbound) /\ Len(Outbound) = Given
  BY <1>1, <1>2, <1>3 DEF Response
<1>5. Len(Outbound) >= Size("response")
  <2> DEFINE g == got["response"]
             t == Join(g, Content(cli.in))
  <2>1. /\ g \in Seq(Byte) /\ Content(cli.in) \in Seq(Byte)
        /\ s2c \in Seq(Byte) /\ Content(srv.out) \in Seq(Byte)
    BY <1>1, StreamParts, Sizes
  <2>2. Len(g) = Size("response") /\ Size("response") \in Nat
    BY <1>2, FrameBytes, Sizes
  <2> HIDE DEF g
  <2>3. t \in Seq(Byte) /\ Len(t) = Len(g) + Len(Content(cli.in))
    BY <2>1, JoinParts
  <2>4. Taken = Join(t, s2c)
    BY DEF Taken, g
  <2> HIDE DEF t
  <2>5. Taken \in Seq(Byte) /\ Len(Taken) = Len(t) + Len(s2c)
    BY <2>1, <2>3, <2>4, JoinParts
  <2>6. Len(Outbound) = Len(Taken) + Len(Content(srv.out))
    BY <2>1, <2>5, JoinParts DEF Outbound
  <2>7. /\ Len(Content(cli.in)) \in Nat /\ Len(s2c) \in Nat
        /\ Len(Content(srv.out)) \in Nat
    BY <2>1
  <2> QED
    BY <2>2, <2>3, <2>5, <2>6, <2>7
<1>6. Given = Size("response")
  <2>1. /\ Given \in {0, HeaderLen, Size("response")}
        /\ HeaderLen < Size("response") /\ 0 < Size("response")
        /\ HeaderLen \in Nat /\ Size("response") \in Nat
    BY Sizes, SessionAssumption DEF Given, Size, Msgs
  <2> QED
    BY <1>4, <1>5, <2>1
<1>7. sending = <<>>
  <2>1. HeaderLen # Size("response") /\ 0 # Size("response")
    BY Sizes, SessionAssumption DEF Size, Msgs
  <2>2. sending # <<"header", "body">> /\ sending # <<"body">>
    BY <1>6, <2>1 DEF Given
  <2> QED
    BY <1>1, <2>2 DEF Types
<1> QED
  BY <1>3, <1>7

\* Nothing makes a connection disconnected but its end, and a task that is done
\* sends nothing more.
LEMMA DepartedSame ==
  ASSUME Departed,
         srv'.state \in {"disconnected", "freed"} =>
           srv.state \in {"disconnected", "freed"},
         CliGone => CliGone',
         exit = "quit" => exit' = "quit" \/ CliGone',
         task = "done" => task' = "done",
         task = "done" /\ sending = <<>> => sending' = <<>>
  PROVE  Departed'
  BY DEF Departed

\* A functor does not either.
LEMMA DepartedFunctor ==
  ASSUME SessionInv, Departed, NEW l \in {"base", "io"}, RunFunctor(l)
  PROVE  Departed'
<1> DEFINE f == Head(queue[l])
<1>1. Types /\ Life /\ Work
  BY DEF SessionInv
<1>2. /\ exit' = exit /\ queue[l] # <<>>
      /\ CliGone' = CliGone
  BY DEF RunFunctor, CliGone
<1>3. /\ f \in Functors /\ In(f, queue[l])
      /\ f = "completeTask" => l = "base"
      /\ f = "connectDestroyed" => l = io
  BY <1>2, FunctorLoop
<1> HIDE DEF f
<1>4. /\ f = "completeTask" => task = "untarred"
      /\ f = "connectDestroyed" => srv.state = "disconnected"
  BY <1>1, <1>3 DEF Work, Life, Completing, Destroying
<1>5. CASE f = "connectEstablished"
  <2>1. srv' = [srv EXCEPT !.state = "connected", !.added = TRUE]
        /\ UNCHANGED <<task, sending>>
    BY <1>5 DEF RunFunctor, f
  <2>2. srv'.state = "connected"
    BY <1>1, <2>1 DEF Types, Conns
  <2> QED
    BY <1>2, <2>1, <2>2, DepartedSame
<1>6. CASE f = "offload"
  <2>1. task' = "held" /\ UNCHANGED <<sending, srv>>
    BY <1>6 DEF RunFunctor, f
  <2>2. task = "none"
    BY <1>1, <1>3, <1>6, FunctorLoop, <1>2 DEF Work, Offloading, f
  <2> QED
    BY <1>2, <2>1, <2>2, DepartedSame
<1>7. CASE f = "completeTask"
  <2>1. task' = "done" /\ Release(srv)
    BY <1>7 DEF RunFunctor, f
  <2>2. srv.state \in {"connected", "disconnected", "freed"}
    BY <1>1, <1>4, <1>7, ConnParts DEF Types, Life, States
  <2>3. srv' = srv \/ (srv'.state = "freed" /\ srv.state # "connected")
    <3>1. connections' = connections
      BY <1>7 DEF RunFunctor, f
    <3>2. ASSUME srv.state = "connected" PROVE srv' = srv
      <4>1. connections
        BY <1>1, <3>2 DEF Life
      <4>2. Held(connections, task, queue)'
        BY <3>1, <4>1, Zenon DEF Held
      <4> QED
        BY <2>1, <4>2 DEF Release
    <3>3. srv' = srv \/ srv'.state = "freed"
      <4>1. CASE srv' = [srv EXCEPT !.state = "freed", !.in = NewBuffer,
                           !.out = NewBuffer, !.writing = FALSE]
        <5>1. srv \in Conns
          BY <1>1 DEF Types
        <5> QED
          BY ONLY <4>1, <5>1 DEF Conns
      <4> QED
        BY <2>1, <4>1 DEF Release
    <3> QED
      BY <3>2, <3>3
  <2>4. srv'.state \in {"disconnected", "freed"} =>
          srv.state \in {"disconnected", "freed"}
    BY <2>2, <2>3
  <2> QED
    BY <1>2, <1>4, <1>7, <2>1, <2>4 DEF Departed
<1>8. CASE f \in {"header", "body"}
  <2>1. SrvSendInLoop(f) /\ UNCHANGED <<task, sending>>
    BY <1>8 DEF RunFunctor, f
  <2>2. srv'.state = srv.state
    BY <1>1, <2>1 DEF SrvSendInLoop, SendRest, Types, Conns
  <2> QED
    BY <1>2, <2>1, <2>2, DepartedSame
<1>9. CASE f = "removeConnection"
  <2>1. UNCHANGED <<task, sending, srv>>
    BY <1>9 DEF RunFunctor, f
  <2> QED
    BY <1>2, <2>1, DepartedSame
<1>10. CASE f = "connectDestroyed"
  <2>1. UNCHANGED <<task, sending>>
    BY <1>10 DEF RunFunctor, f
  <2> QED
    BY <1>2, <1>4, <1>10, <2>1, DepartedSame
<1> QED
  BY <1>3, <1>5, <1>6, <1>7, <1>8, <1>9, <1>10 DEF Functors

\* Every step keeps it.
LEMMA NextDeparted == SessionInv /\ Departed /\ [Next]_vars => Departed'
<1> SUFFICES ASSUME SessionInv, Departed, [Next]_vars PROVE Departed'
  OBVIOUS
<1>1. Types /\ Life /\ Work /\ Client
  BY DEF SessionInv
<1>2. CASE UNCHANGED <<srv, exit, task, sending>>
  BY <1>2, DepartedSame DEF CliGone
<1>3. CASE HandleClose
  <2>1. UNCHANGED <<task, sending, exit>> /\ srv.state = "connected"
    BY <1>3 DEF HandleClose
  <2>2. CliGone \/ exit = "quit"
    BY <1>1, <1>3 DEF HandleClose, Client, CliGone, Types
  <2>3. exit = "quit" => task = "done" /\ sending = <<>>
    BY <2>1, QuitHasAll
  <2> QED
    BY <2>1, <2>2, <2>3 DEF Departed, CliGone
<1>4. CASE HandleRead \/ SrvHandleWrite
  <2>1. srv.state = "connected" \/ srv.writing
    BY <1>4 DEF HandleRead, SrvHandleWrite
  <2>2. srv.state = "connected"
    BY <1>1, <2>1 DEF Life
  <2>3. srv'.state = "connected" /\ UNCHANGED <<sending, exit>>
    BY <1>1, <1>4, <2>2
    DEF HandleRead, OnMessage, ReadSome, SrvHandleWrite, HandleWrite, Types, Conns
  <2> QED
    BY <2>3 DEF Departed
<1>5. CASE Accept
  <2>1. srv' = [NewConn EXCEPT !.state = "connected", !.added = TRUE]
        \/ srv' = NewConn
    BY <1>5 DEF Accept
  <2>2. srv'.state \in {"connecting", "connected"}
    BY <2>1, NewConnEmpty DEF Conns
  <2> QED
    BY <2>2 DEF Departed
<1>6. CASE Send
  <2>1. /\ UNCHANGED <<task, exit>> /\ sending # <<>>
        /\ srv' = srv \/ SrvSendInLoop(Head(sending))
    BY <1>6 DEF Send
  <2>2. srv'.state = srv.state
    BY <1>1, <2>1 DEF SrvSendInLoop, SendRest, Types, Conns
  <2> QED
    BY <2>1, <2>2, DepartedSame DEF CliGone
<1>7. CASE SendQueues
  <2>1. sending # <<>> /\ UNCHANGED <<srv, task, exit>>
    BY <1>1, <1>7 DEF SendQueues, Work
  <2> QED
    BY <2>1, DepartedSame DEF CliGone
<1>8. CASE CliStep \/ CliKilled
  <2>1. /\ UNCHANGED <<srv, task, sending>>
        /\ \/ exit' = exit \/ exit = "no" \/ exit' \in {"done", "killed"}
    BY <1>8 DEF CliStep, CliKilled, CliExit, CliEnds, OnConnection,
       CliHandleWrite, CliHandleRead
  <2> QED
    BY <2>1, DepartedSame DEF CliGone
<1>9. CASE Untarred
  BY <1>9, DepartedSame DEF Untarred, CliGone
<1> QED
  BY <1>2, <1>3, <1>4, <1>5, <1>6, <1>7, <1>8, <1>9, DepartedFunctor
  DEF Next, IoStep, BaseStep, SendCrashes, vars

LEMMA InitDeparted == Init => Departed
  BY DEF Init, Departed, NewConn

LEMMA InvRawThisSafe == SessionInv /\ Departed => RawThisSafe
<1> SUFFICES ASSUME SessionInv, Departed PROVE RawThisSafe
  OBVIOUS
<1>1. Types /\ Life /\ Work
  BY DEF SessionInv
<1>2. ASSUME \/ checked
             \/ \E i \in DOMAIN queue[io] : queue[io][i] \in {"header", "body"}
      PROVE  Alive
  <2>1. checked \/ HeaderWaits \/ BodyWaits
    BY <1>2 DEF HeaderWaits, BodyWaits, In
  <2>2. connections \/ Destroying
    BY <1>1, <2>1 DEF Work
  <2> QED
    BY <1>1, <2>2 DEF Life, Alive
<1>3. ASSUME sending # <<>>, ~Alive PROVE CliGone
  <2>1. task = "done"
    BY <1>1, <1>3 DEF Work
  <2>2. srv.state = "freed"
    BY <1>1, <1>3, <2>1 DEF Life, Alive
  <2> QED
    BY <1>3, <2>2 DEF Departed
<1> QED
  BY <1>2, <1>3 DEF RawThisSafe

\* RawThisSafe of every behaviour: no functor that send() queued with a bare
\* `this` outlives the connection, and completeTask sends to a destructed one
\* only when the CLI has gone.
THEOREM AlwaysRawThisSafe == Spec => []RawThisSafe
<1>1. Spec => []Departed
  BY SessionInvariance, InitDeparted, NextDeparted, PTL DEF Spec
<1> QED
  BY <1>1, SessionInvariance, InvRawThisSafe, PTL
=============================================================================
