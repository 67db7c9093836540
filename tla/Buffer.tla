------------------------------- MODULE Buffer -------------------------------
(***************************************************************************)
(* tcp::Buffer, the input and output buffer of a TcpConnection: a vector   *)
(* that grows, with a reader and a writer index in it.  What is readable is*)
(* a queue of bytes (Content); the operators below are about indexes, and  *)
(* CommandSession_proofs shows what they do to the queue.  A buffer is a   *)
(* record [buf, reader, writer]; bytes outside the readable part are old.  *)
(***************************************************************************)
EXTENDS Integers, Sequences

CONSTANTS CheapPrepend, \* kCheapPrepend
          InitialSize,  \* kInitialSize
          Extra,        \* size of readFd's extrabuf
          Byte,         \* bytes
          Zero          \* the byte new elements of the vector have

ASSUME BufferAssumption ==
  CheapPrepend \in Nat /\ InitialSize \in Nat /\ Extra \in Nat /\ Zero \in Byte

Zeros(n) == [i \in 1 .. n |-> Zero]

BufferRec(v, r, w) == [buf |-> v, reader |-> r, writer |-> w]

NewBuffer ==
  BufferRec(Zeros(CheapPrepend + InitialSize), CheapPrepend, CheapPrepend)

ReadableBytes(b) == b.writer - b.reader
WritableBytes(b) == Len(b.buf) - b.writer
PrependableBytes(b) == b.reader

\* What peek() and readableBytes() show.
Content(b) == SubSeq(b.buf, b.reader + 1, b.writer)

\* What the picture above class Buffer says of the indexes.
IsBuffer(b) ==
  /\ b \in [buf : Seq(Byte), reader : Nat, writer : Nat]
  /\ CheapPrepend <= b.reader /\ b.reader <= b.writer /\ b.writer <= Len(b.buf)

\* retrieve; retrieveAll when nothing is left.
Retrieve(b, len) ==
  IF len < ReadableBytes(b)
    THEN BufferRec(b.buf, b.reader + len, b.writer)
    ELSE BufferRec(b.buf, CheapPrepend, CheapPrepend)

\* std::copy of s to the bytes behind position at.
CopyTo(buf, at, s) ==
  SubSeq(buf, 1, at) \o s \o SubSeq(buf, at + Len(s) + 1, Len(buf))

\* resize: new bytes at the end.
Grown(b, len) ==
  BufferRec(b.buf \o Zeros(b.writer + len - Len(b.buf)), b.reader, b.writer)

\* Mutant: the writer index stays where it was.
MovedForgetsWriter(b) ==
  BufferRec(CopyTo(b.buf, CheapPrepend, Content(b)), CheapPrepend, b.writer)

\* The readable bytes moved to the front.
Moved(b) ==
  BufferRec(CopyTo(b.buf, CheapPrepend, Content(b)), CheapPrepend,
            CheapPrepend + ReadableBytes(b))

\* makeSpace: grow, or make space inside.
MakeSpace(b, len) ==
  IF WritableBytes(b) + PrependableBytes(b) < len + CheapPrepend
    THEN Grown(b, len) ELSE Moved(b)

EnsureWritableBytes(b, len) ==
  IF WritableBytes(b) < len THEN MakeSpace(b, len) ELSE b

\* std::copy to beginWrite(), then hasWritten.
Written(b, s) ==
  BufferRec(CopyTo(b.buf, b.writer, s), b.reader, b.writer + Len(s))

AppendBytes(b, s) == Written(EnsureWritableBytes(b, Len(s)), s)

\* readFd, when readv returns s: what does not fit goes through extrabuf.
ReadFd(b, s) ==
  LET w == WritableBytes(b) IN
  IF Len(s) <= w THEN Written(b, s)
  ELSE AppendBytes(Written(b, SubSeq(s, 1, w)), SubSeq(s, w + 1, Len(s)))

\* The assertions of retrieve; of ensureWritableBytes, hasWritten and
\* makeSpace, for an append of len bytes.
RetrieveAssertion(b, len) == len <= ReadableBytes(b)

AppendAssertion(b, len) ==
  /\ WritableBytes(EnsureWritableBytes(b, len)) >= len
  /\ /\ WritableBytes(b) < len
     /\ WritableBytes(b) + PrependableBytes(b) >= len + CheapPrepend
     => CheapPrepend < b.reader
=============================================================================
