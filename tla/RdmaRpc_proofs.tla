--------------------------- MODULE RdmaRpc_proofs ---------------------------
(***************************************************************************)
(* Proofs about RDMA connections.  About RdmaRpc, for every mem_num and    *)
(* every bound: the inductive invariant IInv and the four safety           *)
(* properties it implies.  About RdmaHandshake, in the last part, for      *)
(* every length of an RdmaExchangeInfo and every number of failures: the   *)
(* inductive invariant HandshakeInv and the two it implies.                *)
(***************************************************************************)
EXTENDS RdmaRpc, RdmaHandshake, TLAPS

-----------------------------------------------------------------------------
(* Facts about the queues' operations, stated once. *)

\* What Head and Tail of a queue are.
LEMMA TailFacts ==
  ASSUME NEW S, NEW s \in Seq(S), s # <<>>
  PROVE  /\ Tail(s) \in Seq(S) /\ Head(s) \in S /\ Head(s) = s[1]
         /\ Len(s) \in Nat /\ Len(s) >= 1 /\ Len(Tail(s)) = Len(s) - 1
         /\ DOMAIN s = 1 .. Len(s) /\ DOMAIN Tail(s) = 1 .. (Len(s) - 1)
         /\ \A i \in 1 .. (Len(s) - 1) : Tail(s)[i] = s[i + 1]
  OBVIOUS

\* What Append does to a queue.
LEMMA AppendFacts ==
  ASSUME NEW S, NEW s \in Seq(S), NEW e \in S
  PROVE  /\ Append(s, e) \in Seq(S) /\ Append(s, e) # <<>>
         /\ Len(s) \in Nat /\ Len(Append(s, e)) = Len(s) + 1
         /\ DOMAIN s = 1 .. Len(s) /\ DOMAIN Append(s, e) = 1 .. (Len(s) + 1)
         /\ \A i \in 1 .. Len(s) : Append(s, e)[i] = s[i]
         /\ Append(s, e)[Len(s) + 1] = e
  OBVIOUS

\* Taking the head leaves a queue without duplicates and without the head.
LEMMA InjectiveTail ==
  ASSUME NEW S, NEW s \in Seq(S), s # <<>>, Injective(s)
  PROVE  /\ Injective(Tail(s))
         /\ \A i \in DOMAIN Tail(s) : Tail(s)[i] # Head(s)
  BY TailFacts DEF Injective

\* Appending a new element creates no duplicate.
LEMMA InjectiveAppend ==
  ASSUME NEW S, NEW s \in Seq(S), NEW e \in S, Injective(s),
         \A i \in DOMAIN s : s[i] # e
  PROVE  Injective(Append(s, e))
  BY AppendFacts DEF Injective

\* Moving the head of a queue with no duplicates to the tail of a disjoint
\* one keeps both free of duplicates and disjoint.
LEMMA MoveHead ==
  ASSUME NEW S, NEW s \in Seq(S), NEW t \in Seq(S), s # <<>>,
         Injective(s), Injective(t),
         \A i \in DOMAIN s, j \in DOMAIN t : s[i] # t[j]
  PROVE  /\ Injective(Tail(s)) /\ Injective(Append(t, Head(s)))
         /\ \A i \in DOMAIN Tail(s), j \in DOMAIN Append(t, Head(s)) :
               Tail(s)[i] # Append(t, Head(s))[j]
         /\ \A i \in DOMAIN Append(t, Head(s)), j \in DOMAIN Tail(s) :
               Append(t, Head(s))[i] # Tail(s)[j]
  <1>1. Injective(Tail(s)) /\ \A i \in DOMAIN Tail(s) : Tail(s)[i] # Head(s)
    BY InjectiveTail
  <1>2. \A j \in DOMAIN t : t[j] # Head(s)
    BY TailFacts
  <1>3. Injective(Append(t, Head(s)))
    BY <1>2, TailFacts, InjectiveAppend
  <1>4. ASSUME NEW i \in DOMAIN Tail(s), NEW j \in DOMAIN Append(t, Head(s))
        PROVE  Tail(s)[i] # Append(t, Head(s))[j]
    <2>1. CASE j \in DOMAIN t
      BY <2>1, TailFacts, AppendFacts
    <2>2. CASE j \notin DOMAIN t
      <3>1. j = Len(t) + 1 /\ Append(t, Head(s))[j] = Head(s)
        BY <2>2, TailFacts, AppendFacts
      <3>2. QED BY <3>1, <1>1
    <2>3. QED BY <2>1, <2>2
  <1>5. QED BY <1>1, <1>3, <1>4

\* Moving the head of one queue to the tail of another keeps the total
\* length, and the moved element is then the last.
LEMMA MoveHeadLen ==
  ASSUME NEW S, NEW s \in Seq(S), NEW t \in Seq(S), s # <<>>
  PROVE  /\ Len(Tail(s)) + Len(Append(t, Head(s))) = Len(t) + Len(s)
         /\ Len(Tail(s)) + Len(Append(t, Head(s))) = Len(s) + Len(t)
         /\ Len(Append(t, Head(s))) + Len(Tail(s)) = Len(t) + Len(s)
         /\ Append(t, Head(s)) # <<>>
         /\ Append(t, Head(s))[Len(Append(t, Head(s)))] = Head(s)
  <1>1. Head(s) \in S /\ Len(Tail(s)) = Len(s) - 1 /\ Len(s) \in Nat
    BY TailFacts
  <1>2. QED BY <1>1, AppendFacts

\* Taking the head of a queue of two or more leaves its last element.
LEMMA LastStays ==
  ASSUME NEW S, NEW s \in Seq(S), Len(s) >= 2
  PROVE  Tail(s) # <<>> /\ Tail(s)[Len(Tail(s))] = s[Len(s)]
  <1>1. s # <<>>
    OBVIOUS
  <1>2. Len(Tail(s)) = Len(s) - 1 /\ Len(s) - 1 \in 1 .. (Len(s) - 1)
    BY <1>1, TailFacts
  <1>3. Tail(s)[Len(s) - 1] = s[(Len(s) - 1) + 1]
    BY <1>1, <1>2, TailFacts
  <1>4. Tail(s) # <<>>
    <2>1. Len(s) - 1 # 0
      <3>1. Len(s) \in Nat
        OBVIOUS
      <3>2. QED BY <3>1
    <2>2. Len(<<>>) = 0
      OBVIOUS
    <2>3. QED BY <1>2, <2>1, <2>2
  <1>5. (Len(s) - 1) + 1 = Len(s)
    OBVIOUS
  <1>6. QED BY <1>2, <1>3, <1>4, <1>5

\* The tail end of a queue stays its tail end when both get the same element.
LEMMA NewestAppend ==
  ASSUME NEW S, NEW s \in Seq(S), NEW t \in Seq(S), NEW e \in S, Newest(s, t)
  PROVE  Newest(Append(s, e), Append(t, e))
  <1>1. Len(Append(s, e)) <= Len(Append(t, e))
    BY AppendFacts DEF Newest
  <1>2. ASSUME NEW i \in DOMAIN Append(s, e)
        PROVE  Append(s, e)[i] =
                 Append(t, e)[Len(Append(t, e)) - Len(Append(s, e)) + i]
    <2>1. /\ i \in 1 .. (Len(s) + 1) /\ Len(s) \in Nat /\ Len(t) \in Nat
          /\ Len(s) <= Len(t)
          /\ Len(Append(t, e)) - Len(Append(s, e)) + i = Len(t) - Len(s) + i
      BY AppendFacts DEF Newest
    <2>2. CASE i = Len(s) + 1
      <3>1. Len(t) - Len(s) + i = Len(t) + 1
        BY <2>1, <2>2
      <3>2. QED BY <2>1, <2>2, <3>1, AppendFacts
    <2>3. CASE i \in 1 .. Len(s)
      <3>1. Len(t) - Len(s) + i \in 1 .. Len(t)
        BY <2>1, <2>3
      <3>2. s[i] = t[Len(t) - Len(s) + i]
        BY <2>3, AppendFacts DEF Newest
      <3>3. QED BY <2>1, <2>3, <3>1, <3>2, AppendFacts
    <2>4. QED BY <2>1, <2>2, <2>3
  <1>3. QED BY <1>1, <1>2 DEF Newest

\* A tail end without its head is still a tail end.
LEMMA NewestTail ==
  ASSUME NEW S, NEW s \in Seq(S), NEW t \in Seq(S), s # <<>>, Newest(s, t)
  PROVE  Newest(Tail(s), t)
  BY TailFacts DEF Newest

\* A tail end that is shorter than the queue survives taking the queue's head.
LEMMA NewestOfTail ==
  ASSUME NEW S, NEW s \in Seq(S), NEW t \in Seq(S),
         Len(s) < Len(t), Newest(s, t)
  PROVE  t # <<>> /\ Newest(s, Tail(t))
  <1>1. t # <<>>
    OBVIOUS
  <1>2. QED BY <1>1, TailFacts DEF Newest

-----------------------------------------------------------------------------
(* Facts about the bytes behind a queue of buffers. *)

\* The bytes behind a queue of buffers, element by element.
LEMMA MemSeq ==
  ASSUME NEW B, NEW mem, NEW q \in Seq(B), \A x \in B : mem[x] \in Msg
  PROVE  /\ InMemory(mem, q) \in Seq(Msg) /\ Len(InMemory(mem, q)) = Len(q)
         /\ Len(q) \in Nat
         /\ \A i \in 1 .. Len(q) : InMemory(mem, q)[i] = mem[q[i]]
  BY DEF InMemory

\* Sequences with the same elements are the same.
LEMMA SameSeq ==
  ASSUME NEW s \in Seq(Msg), NEW t \in Seq(Msg), Len(s) = Len(t),
         \A i \in 1 .. Len(s) : s[i] = t[i]
  PROVE  s = t
  BY SMT

\* A buffer put at the end adds its bytes at the end.
LEMMA MemAppend ==
  ASSUME NEW B, NEW mem, NEW q \in Seq(B), NEW b \in B,
         \A x \in B : mem[x] \in Msg
  PROVE  InMemory(mem, Append(q, b)) = Append(InMemory(mem, q), mem[b])
  <1> DEFINE s == InMemory(mem, Append(q, b))
             u == InMemory(mem, q)
             t == Append(u, mem[b])
  <1>1. /\ Append(q, b) \in Seq(B) /\ Len(Append(q, b)) = Len(q) + 1
        /\ Len(q) \in Nat /\ \A i \in 1 .. Len(q) : Append(q, b)[i] = q[i]
        /\ Append(q, b)[Len(q) + 1] = b
    BY AppendFacts
  <1>2. /\ s \in Seq(Msg) /\ Len(s) = Len(q) + 1
        /\ \A i \in 1 .. Len(q) + 1 : s[i] = mem[Append(q, b)[i]]
    <2> DEFINE a == Append(q, b)
    <2>1. /\ InMemory(mem, a) \in Seq(Msg) /\ Len(InMemory(mem, a)) = Len(a)
          /\ \A i \in 1 .. Len(a) : InMemory(mem, a)[i] = mem[a[i]]
      <3>1. a \in Seq(B)
        BY <1>1
      <3> HIDE DEF a
      <3>2. QED BY <3>1 DEF InMemory
    <2>2. QED BY <1>1, <2>1, Zenon
  <1>3. /\ u \in Seq(Msg) /\ Len(u) = Len(q)
        /\ \A i \in 1 .. Len(q) : u[i] = mem[q[i]]
    BY DEF InMemory
  <1> HIDE DEF s, u
  <1>4. mem[b] \in Msg
    OBVIOUS
  <1>5. /\ t \in Seq(Msg) /\ Len(t) = Len(q) + 1 /\ t[Len(q) + 1] = mem[b]
        /\ \A i \in 1 .. Len(q) : t[i] = u[i]
    BY <1>3, <1>4, AppendFacts
  <1> HIDE DEF t
  <1>6. \A i \in 1 .. Len(q) : s[i] = t[i]
    BY <1>1, <1>2, <1>3, <1>5
  <1>7. s[Len(q) + 1] = t[Len(q) + 1]
    BY <1>1, <1>2, <1>5
  <1>8. \A i \in 1 .. Len(s) : s[i] = t[i]
    BY <1>1, <1>2, <1>6, <1>7
  <1>9. s = t
    BY <1>2, <1>5, <1>8, SameSeq
  <1>10. QED BY <1>9 DEF s, t, u

\* The bytes of the oldest buffer come first.
LEMMA MemHead ==
  ASSUME NEW B, NEW mem, NEW q \in Seq(B), q # <<>>,
         \A x \in B : mem[x] \in Msg
  PROVE  InMemory(mem, q) = <<mem[Head(q)]>> \o InMemory(mem, Tail(q))
  <1> DEFINE s == InMemory(mem, q)
             u == InMemory(mem, Tail(q))
             x == mem[Head(q)]
             t == <<x>> \o u
  <1>1. /\ Tail(q) \in Seq(B) /\ Head(q) \in B /\ Head(q) = q[1]
        /\ Len(q) \in Nat /\ Len(q) >= 1 /\ Len(Tail(q)) = Len(q) - 1
        /\ \A i \in 1 .. (Len(q) - 1) : Tail(q)[i] = q[i + 1]
    BY TailFacts
  <1>2. /\ s \in Seq(Msg) /\ Len(s) = Len(q)
        /\ \A i \in 1 .. Len(q) : s[i] = mem[q[i]]
    BY DEF InMemory
  <1>3. /\ u \in Seq(Msg) /\ Len(u) = Len(q) - 1
        /\ \A i \in 1 .. (Len(q) - 1) : u[i] = mem[Tail(q)[i]]
    <2> DEFINE a == Tail(q)
    <2>1. /\ InMemory(mem, a) \in Seq(Msg) /\ Len(InMemory(mem, a)) = Len(a)
          /\ \A i \in 1 .. Len(a) : InMemory(mem, a)[i] = mem[a[i]]
      <3>1. a \in Seq(B)
        BY <1>1
      <3> HIDE DEF a
      <3>2. QED BY <3>1 DEF InMemory
    <2>2. QED BY <1>1, <2>1, Zenon
  <1>4. x \in Msg /\ s[1] = x
    <2>1. 1 \in 1 .. Len(q)
      BY <1>1
    <2>2. x \in Msg /\ x = mem[q[1]]
      BY <1>1
    <2>3. QED BY <1>2, <2>1, <2>2, Zenon
  <1> HIDE DEF s, u, x
  <1>5. /\ t \in Seq(Msg) /\ Len(t) = Len(u) + 1 /\ t[1] = x
        /\ \A i \in 1 .. Len(u) : t[i + 1] = u[i]
    BY <1>3, <1>4, SMT
  <1> HIDE DEF t
  <1>6. ASSUME NEW i \in 1 .. (Len(q) - 1) PROVE s[i + 1] = t[i + 1]
    <2>1. i + 1 \in 1 .. Len(q)
      BY <1>1
    <2>2. s[i + 1] = mem[q[i + 1]]
      BY <1>2, <2>1, Zenon
    <2>3. t[i + 1] = u[i] /\ u[i] = mem[Tail(q)[i]] /\ Tail(q)[i] = q[i + 1]
      BY <1>1, <1>3, <1>5, Zenon
    <2>4. QED BY <2>2, <2>3
  <1>7. ASSUME NEW i \in 1 .. Len(s) PROVE s[i] = t[i]
    <2>1. CASE i = 1
      BY <1>4, <1>5, <2>1
    <2>2. CASE i # 1
      <3>1. i - 1 \in 1 .. (Len(q) - 1) /\ (i - 1) + 1 = i
        BY <1>1, <1>2, <1>7, <2>2
      <3>2. QED BY <1>6, <3>1
    <2>3. QED BY <2>1, <2>2
  <1>8. Len(s) = Len(t)
    BY <1>1, <1>2, <1>3, <1>5
  <1>9. s = t
    BY <1>2, <1>5, <1>7, <1>8, SameSeq
  <1>10. QED BY <1>9 DEF s, t, u, x

\* Memory that is the same where the queue points reads the same.
LEMMA MemSame ==
  ASSUME NEW B, NEW mem, NEW new, NEW q \in Seq(B),
         \A i \in DOMAIN q : new[q[i]] = mem[q[i]]
  PROVE  InMemory(new, q) = InMemory(mem, q)
  BY DEF InMemory

\* Concatenation is associative, and <<>> is its unit.
LEMMA CatAssoc ==
  ASSUME NEW s \in Seq(Msg), NEW t \in Seq(Msg), NEW u \in Seq(Msg)
  PROVE  (s \o t) \o u = s \o (t \o u)
  BY SMT

LEMMA CatEmpty ==
  ASSUME NEW s \in Seq(Msg)
  PROVE  <<>> \o s = s /\ s \o <<>> = s
  BY SMT

LEMMA CatType ==
  ASSUME NEW s \in Seq(Msg), NEW t \in Seq(Msg)
  PROVE  s \o t \in Seq(Msg) /\ Len(s \o t) = Len(s) + Len(t)
  BY SMT

LEMMA Cat3Type ==
  ASSUME NEW s \in Seq(Msg), NEW t \in Seq(Msg), NEW u \in Seq(Msg)
  PROVE  /\ (s \o t) \o u \in Seq(Msg)
         /\ Len((s \o t) \o u) = Len(s) + Len(t) + Len(u)
  <1> DEFINE v == s \o t
  <1>1. v \in Seq(Msg) /\ Len(v) = Len(s) + Len(t)
    BY CatType
  <1> HIDE DEF v
  <1>2. v \o u \in Seq(Msg) /\ Len(v \o u) = Len(v) + Len(u)
    BY <1>1, CatType
  <1>3. QED BY <1>1, <1>2 DEF v

\* A sequence of one, and Append as a concatenation.
LEMMA Single ==
  ASSUME NEW s \in Seq(Msg), NEW x \in Msg
  PROVE  /\ <<x>> \in Seq(Msg) /\ Len(<<x>>) = 1 /\ Append(s, x) = s \o <<x>>
  BY SMT

LEMMA HeadOfCat ==
  ASSUME NEW s \in Seq(Msg), NEW x \in Msg
  PROVE  <<x>> \o s # <<>> /\ Head(<<x>> \o s) = x /\ Tail(<<x>> \o s) = s
  <1>1. Head(<<x>> \o s) = x /\ <<x>> \o s # <<>>
    BY SMT
  <1>2. Tail(<<x>> \o s) = s
    BY SMT
  <1>3. QED BY <1>1, <1>2

\* Appending behind a concatenation.
LEMMA CatAppend ==
  ASSUME NEW s \in Seq(Msg), NEW t \in Seq(Msg), NEW u \in Seq(Msg), NEW x \in Msg
  PROVE  (s \o t) \o Append(u, x) = Append((s \o t) \o u, x)
  <1>1. /\ s \o t \in Seq(Msg) /\ <<x>> \in Seq(Msg)
        /\ Append(u, x) = u \o <<x>>
    BY CatType, Single
  <1>2. (s \o t) \o u \in Seq(Msg)
    BY <1>1, CatType
  <1>3. Append((s \o t) \o u, x) = ((s \o t) \o u) \o <<x>>
    BY <1>2, Single
  <1>4. ((s \o t) \o u) \o <<x>> = (s \o t) \o (u \o <<x>>)
    <2> DEFINE v == s \o t
               y == <<x>>
    <2>1. v \in Seq(Msg) /\ y \in Seq(Msg)
      BY <1>1
    <2> HIDE DEF v, y
    <2>2. (v \o u) \o y = v \o (u \o y)
      BY <2>1, SMTT(20)
    <2>3. QED BY <2>2 DEF v, y
  <1>5. QED BY <1>1, <1>3, <1>4

\* An element that goes from one part of a concatenation to the one before it.
LEMMA CatMove ==
  ASSUME NEW s \in Seq(Msg), NEW t \in Seq(Msg), NEW u \in Seq(Msg), NEW x \in Msg
  PROVE  (s \o Append(t, x)) \o u = (s \o t) \o (<<x>> \o u)
  <1>1. /\ s \o t \in Seq(Msg) /\ <<x>> \in Seq(Msg)
        /\ Append(t, x) = t \o <<x>>
    BY CatType, Single
  <1>2. s \o (t \o <<x>>) = (s \o t) \o <<x>>
    BY <1>1, CatAssoc
  <1>3. ((s \o t) \o <<x>>) \o u = (s \o t) \o (<<x>> \o u)
    BY <1>1, CatAssoc
  <1>4. QED BY <1>1, <1>2, <1>3

\* A first element that leaves a concatenation.
LEMMA CatHead ==
  ASSUME NEW t \in Seq(Msg), NEW u \in Seq(Msg), NEW x \in Msg
  PROVE  /\ (<<x>> \o t) \o u # <<>>
         /\ Head((<<x>> \o t) \o u) = x
         /\ Tail((<<x>> \o t) \o u) = (<<>> \o t) \o u
         /\ (<<>> \o (<<x>> \o t)) \o u = (<<x>> \o t) \o u
  <1>1. /\ t \o u \in Seq(Msg) /\ <<x>> \in Seq(Msg) /\ <<x>> \o t \in Seq(Msg)
    BY CatType, Single
  <1>2. (<<x>> \o t) \o u = <<x>> \o (t \o u)
    BY <1>1, CatAssoc
  <1>3. /\ <<x>> \o (t \o u) # <<>>
        /\ Head(<<x>> \o (t \o u)) = x /\ Tail(<<x>> \o (t \o u)) = t \o u
    BY <1>1, HeadOfCat, Zenon
  <1>4. <<>> \o t = t /\ <<>> \o (<<x>> \o t) = <<x>> \o t
    BY <1>1, CatEmpty
  <1>5. QED BY <1>2, <1>3, <1>4

-----------------------------------------------------------------------------
(* The inductive invariant. *)

USE NcAssumption, NsAssumption, WindowAssumption, BoundsAssumption
USE DEF FillRq, ReleaseSendBuf, AcquireFreeSendBuf, PostSend, PostRecv

\* The constructors and fillRq establish the invariant.
LEMMA InitIInv == Init => IInv
  <1> SUFFICES ASSUME Init PROVE IInv
    OBVIOUS
  <1>1. /\ InOrder(Nc) \in Seq(CBuf) /\ Len(InOrder(Nc)) = Nc
        /\ InOrder(Ns) \in Seq(SBuf) /\ Len(InOrder(Ns)) = Ns
        /\ Injective(InOrder(Nc)) /\ Injective(InOrder(Ns))
    BY DEF InOrder, CBuf, SBuf, Injective
  <1>2. TypeOK
    BY <1>1 DEF Init, TypeOK, Msg, CBuf, SBuf
  <1>3. ClientBufsPartition
    BY <1>1 DEF Init, ClientBufsPartition, Injective
  <1>4. RecvQueues
    BY <1>1 DEF Init, RecvQueues, Injective
  <1>5. UndeliveredAreNewest
    BY <1>1 DEF Init, UndeliveredAreNewest, Newest
  <1>6. WindowBoundsTraffic
    BY <1>1 DEF Init, WindowBoundsTraffic, One
  <1>7. QED BY <1>2, <1>3, <1>4, <1>5, <1>6 DEF IInv

\* What the invariant says of the lengths of the queues: what is on its way to
\* a side and in it fits into the window, and a callback takes a place of it.
Traffic ==
  /\ Len(c2s) \in Nat /\ Len(s2c) \in Nat /\ Len(scq) \in Nat
  /\ Len(ccq) \in Nat /\ Len(srq) \in Nat /\ Len(crq) \in Nat
  /\ Len(inflight) \in Nat /\ Len(cfree) \in Nat /\ Len(sfree) \in Nat
  /\ Len(crq) + Len(ccq) = Nc /\ Len(srq) + Len(scq) = Ns
  /\ Len(inflight) <= Nc
  /\ Len(c2s) + Len(scq) <= Len(inflight)
  /\ Len(s2c) + Len(ccq) <= Len(inflight)
  /\ cpc = "recv" => /\ Len(s2c) + Len(ccq) < Len(inflight)
                     /\ Len(c2s) < Len(inflight)
  /\ spc = "recv" => /\ Len(c2s) + Len(scq) < Len(inflight)
                     /\ Len(s2c) < Len(sfree)

LEMMA TrafficFacts == IInv => Traffic
  <1> SUFFICES ASSUME IInv PROVE Traffic
    OBVIOUS
  <1>1. /\ Len(c2s) \in Nat /\ Len(s2c) \in Nat /\ Len(scq) \in Nat
        /\ Len(ccq) \in Nat /\ Len(srq) \in Nat /\ Len(crq) \in Nat
        /\ Len(inflight) \in Nat /\ Len(cfree) \in Nat /\ Len(sfree) \in Nat
    BY DEF IInv, TypeOK
  <1>2. /\ Len(crq) + Len(ccq) = Nc /\ Len(srq) + Len(scq) = Ns
        /\ Len(cfree) + Len(inflight) = Nc
    BY DEF IInv, RecvQueues, ClientBufsPartition
  <1> DEFINE s == IF spc = "recv" THEN 1 ELSE 0
             c == IF cpc = "recv" THEN 1 ELSE 0
  <1>3. /\ s \in Nat /\ c \in Nat
        /\ spc = "recv" => s = 1
        /\ cpc = "recv" => c = 1
    OBVIOUS
  <1>4. /\ Len(sfree) <= Ns
        /\ Len(c2s) + Len(scq) + s + Len(s2c) + Len(ccq) + c
             + (Ns - Len(sfree)) <= Len(inflight)
    BY DEF IInv, WindowBoundsTraffic, One
  <1> HIDE DEF s, c
  <1>5. Len(inflight) <= Nc
    BY <1>1, <1>2
  <1>6. /\ Len(c2s) + Len(scq) + s <= Len(inflight)
        /\ Len(s2c) + Len(ccq) + c <= Len(inflight)
        /\ Len(c2s) + c <= Len(inflight)
        /\ Len(s2c) + s <= Len(sfree)
    BY <1>1, <1>3, <1>4, <1>5
  <1>7. /\ Len(c2s) + Len(scq) <= Len(inflight)
        /\ Len(s2c) + Len(ccq) <= Len(inflight)
    BY <1>1, <1>3, <1>6
  <1>8. ASSUME cpc = "recv"
        PROVE  Len(s2c) + Len(ccq) < Len(inflight) /\ Len(c2s) < Len(inflight)
    BY <1>1, <1>3, <1>6, <1>8
  <1>9. ASSUME spc = "recv"
        PROVE  Len(c2s) + Len(scq) < Len(inflight) /\ Len(s2c) < Len(sfree)
    BY <1>1, <1>3, <1>6, <1>9
  <1>10. QED BY <1>1, <1>2, <1>5, <1>7, <1>8, <1>9, Zenon DEF Traffic

\* A queue that is not empty has a length above zero, and the other way round.
LEMMA NonEmpty ==
  ASSUME NEW S, NEW s \in Seq(S)
  PROVE  (s # <<>>) <=> (Len(s) >= 1)
  OBVIOUS

\* Every step keeps the types.
LEMMA NextTypeOK == IInv /\ [Next]_vars => TypeOK'
  <1> SUFFICES ASSUME TypeOK, [Next]_vars PROVE TypeOK'
    BY DEF IInv
  <1> USE DEF TypeOK
  <1>1. CASE Fetch
    <2>1. nreq + 1 \in Msg /\ nreq' \in 0 .. MaxReq
      BY <1>1 DEF Fetch, Msg
    <2>2. QED BY <1>1, <2>1, AppendFacts DEF Fetch, svars
  <1>2. CASE SendRequest
    BY <1>2, TailFacts, AppendFacts DEF SendRequest, cvars, svars, Msg
  <1>3. CASE SendDone
    BY <1>3 DEF SendDone, svars
  <1>4. CASE ClientPoll
    BY <1>4, TailFacts, AppendFacts DEF ClientPoll, cvars, svars, Msg
  <1>5. CASE ClientRecv
    BY <1>5, TailFacts, AppendFacts DEF ClientRecv, cvars, svars, Msg
  <1>6. CASE ServerPoll
    BY <1>6, TailFacts, AppendFacts DEF ServerPoll, cvars, svars, Msg
  <1>7. CASE ServerReply
    <2>1. Head(sfree) \in SBuf /\ Tail(sfree) \in Seq(SBuf)
      BY <1>7, TailFacts DEF ServerReply
    <2>2. sfree' \in Seq(SBuf) /\ s2c' \in Seq(SBuf)
      BY <1>7, <2>1, AppendFacts DEF ServerReply
    <2>3. ssend' \in [SBuf -> Msg]
      BY <1>7, <2>1 DEF ServerReply
    <2>4. QED BY <1>7, <2>2, <2>3 DEF ServerReply, cvars
  <1>8. CASE ServerDrop
    BY <1>8 DEF ServerDrop, cvars
  <1>9. CASE ServerLeak
    <2>1. sfree' \in Seq(SBuf) /\ nlost' \in 0 .. MaxLost
      BY <1>9, TailFacts DEF ServerLeak
    <2>2. ssend' \in [SBuf -> Msg]
      BY <1>9, TailFacts DEF ServerLeak
    <2>3. QED BY <1>9, <2>1, <2>2 DEF ServerLeak, cvars
  <1>10. CASE DeliverToServer
    BY <1>10, TailFacts, AppendFacts DEF DeliverToServer, cvars, svars, Msg
  <1>11. CASE DeliverToClient
    BY <1>11, TailFacts, AppendFacts DEF DeliverToClient, cvars, svars, Msg
  <1>12. CASE UNCHANGED vars
    BY <1>12 DEF vars, cvars, svars
  <1>13. QED
    BY <1>1, <1>2, <1>3, <1>4, <1>5, <1>6, <1>7, <1>8, <1>9, <1>10, <1>11,
       <1>12 DEF Next

\* sendRequest and onRecvSuccess only move buffers between free_bufpairs_ and
\* inflight_sends_; no other step touches them.
LEMMA NextClientBufsPartition == IInv /\ [Next]_vars => ClientBufsPartition'
  <1> SUFFICES ASSUME IInv, [Next]_vars PROVE ClientBufsPartition'
    OBVIOUS
  <1> USE DEF IInv
  <1>1. CASE SendRequest
    <2>1. cfree \in Seq(CBuf) /\ inflight \in Seq(CBuf) /\ cfree # <<>>
      BY <1>1 DEF SendRequest, TypeOK
    <2>2. cfree' = Tail(cfree) /\ inflight' = Append(inflight, Head(cfree))
      BY <1>1 DEF SendRequest
    <2>3. Len(cfree') + Len(inflight') = Nc
      BY <2>1, <2>2, TailFacts, AppendFacts DEF ClientBufsPartition
    <2>4. QED
      BY <2>1, <2>2, <2>3, MoveHead DEF ClientBufsPartition
  <1>2. CASE ClientRecv
    <2>1. cfree \in Seq(CBuf) /\ inflight \in Seq(CBuf) /\ inflight # <<>>
      BY <1>2 DEF ClientRecv, TypeOK
    <2>2. inflight' = Tail(inflight) /\ cfree' = Append(cfree, Head(inflight))
      BY <1>2 DEF ClientRecv
    <2>3. Len(cfree') + Len(inflight') = Nc
      BY <2>1, <2>2, TailFacts, AppendFacts DEF ClientBufsPartition
    <2>4. \A i \in DOMAIN inflight, j \in DOMAIN cfree : inflight[i] # cfree[j]
      BY DEF ClientBufsPartition
    <2>5. QED
      BY <2>1, <2>2, <2>3, <2>4, MoveHead DEF ClientBufsPartition
  <1>3. CASE UNCHANGED <<cfree, inflight>>
    BY <1>3 DEF ClientBufsPartition
  <1>4. QED
    BY <1>1, <1>2, <1>3 DEF Next, vars, cvars, Fetch, SendDone, ClientPoll,
       ServerPoll, ServerReply, ServerDrop, ServerLeak, DeliverToServer,
       DeliverToClient

\* The NIC and handleRead only move receive buffers between the receive queue
\* and the completions, and a repost puts the buffer at the queue's end.
LEMMA NextRecvQueues == IInv /\ [Next]_vars => RecvQueues'
  <1> SUFFICES ASSUME IInv, [Next]_vars PROVE RecvQueues'
    OBVIOUS
  <1>t. Traffic
    BY TrafficFacts
  <1> USE DEF IInv
  <1>0. /\ crq \in Seq(CBuf) /\ ccq \in Seq(CBuf)
        /\ srq \in Seq(SBuf) /\ scq \in Seq(SBuf)
        /\ c2s \in Seq(CBuf) /\ s2c \in Seq(SBuf)
        /\ Len(inflight) \in Nat /\ Len(inflight) <= Nc
        /\ Len(sfree) \in Nat
    BY DEF TypeOK, ClientBufsPartition
  <1>a. /\ Len(crq) + Len(ccq) = Nc /\ Len(srq) + Len(scq) = Ns
        /\ cpc = "recv" => chandled = crq[Len(crq)]
        /\ spc = "recv" => shandled = srq[Len(srq)]
    BY DEF RecvQueues
  <1>b. /\ Injective(crq) /\ Injective(ccq) /\ Injective(srq) /\ Injective(scq)
        /\ \A i \in DOMAIN crq, j \in DOMAIN ccq : crq[i] # ccq[j]
        /\ \A i \in DOMAIN srq, j \in DOMAIN scq : srq[i] # scq[j]
    BY DEF RecvQueues
  <1>1. CASE ClientPoll
    <2>1. /\ ccq # <<>> /\ ccq' = Tail(ccq) /\ crq' = Append(crq, Head(ccq))
          /\ chandled' = Head(ccq) /\ UNCHANGED <<srq, scq, spc, shandled>>
      BY <1>1 DEF ClientPoll, svars
    <2>2. /\ Len(crq') + Len(ccq') = Nc /\ crq' # <<>>
          /\ chandled' = crq'[Len(crq')]
      BY <1>0, <1>a, <2>1, MoveHeadLen
    <2>3. \A i \in DOMAIN ccq, j \in DOMAIN crq : ccq[i] # crq[j]
      BY DEF RecvQueues
    <2>4. /\ Injective(crq') /\ Injective(ccq')
          /\ \A i \in DOMAIN crq', j \in DOMAIN ccq' : crq'[i] # ccq'[j]
      <3> DEFINE t == Tail(ccq)
                 u == Append(crq, Head(ccq))
      <3>1. /\ Injective(t) /\ Injective(u)
            /\ \A i \in DOMAIN u, j \in DOMAIN t : u[i] # t[j]
        BY <1>0, <1>b, <2>1, <2>3, MoveHead, Zenon
      <3>2. ccq' = t /\ crq' = u
        BY <2>1
      <3> HIDE DEF t, u
      <3>3. QED BY <3>1, <3>2
    <2>5. QED BY <2>1, <2>2, <2>4 DEF RecvQueues
  <1>2. CASE ServerPoll
    <2>1. /\ scq # <<>> /\ scq' = Tail(scq) /\ srq' = Append(srq, Head(scq))
          /\ shandled' = Head(scq) /\ UNCHANGED <<crq, ccq, cpc, chandled>>
      BY <1>2 DEF ServerPoll, cvars
    <2>2. /\ Len(srq') + Len(scq') = Ns /\ srq' # <<>>
          /\ shandled' = srq'[Len(srq')]
      BY <1>0, <1>a, <2>1, MoveHeadLen
    <2>3. \A i \in DOMAIN scq, j \in DOMAIN srq : scq[i] # srq[j]
      BY DEF RecvQueues
    <2>4. /\ Injective(srq') /\ Injective(scq')
          /\ \A i \in DOMAIN srq', j \in DOMAIN scq' : srq'[i] # scq'[j]
      <3> DEFINE t == Tail(scq)
                 u == Append(srq, Head(scq))
      <3>1. /\ Injective(t) /\ Injective(u)
            /\ \A i \in DOMAIN u, j \in DOMAIN t : u[i] # t[j]
        BY <1>0, <1>b, <2>1, <2>3, MoveHead, Zenon
      <3>2. scq' = t /\ srq' = u
        BY <2>1
      <3> HIDE DEF t, u
      <3>3. QED BY <3>1, <3>2
    <2>5. QED BY <2>1, <2>2, <2>4 DEF RecvQueues
  <1>3. CASE DeliverToServer
    <2>1. /\ c2s # <<>> /\ srq # <<>>
          /\ srq' = Tail(srq) /\ scq' = Append(scq, Head(srq))
          /\ UNCHANGED <<crq, ccq, cpc, chandled, spc, shandled>>
      BY <1>3 DEF DeliverToServer, cvars
    <2>2. Len(srq') + Len(scq') = Ns
      BY <1>0, <1>a, <2>1, MoveHeadLen
    <2>3. /\ Injective(srq') /\ Injective(scq')
          /\ \A i \in DOMAIN srq', j \in DOMAIN scq' : srq'[i] # scq'[j]
      <3> DEFINE t == Tail(srq)
                 u == Append(scq, Head(srq))
      <3>1. /\ Injective(t) /\ Injective(u)
            /\ \A i \in DOMAIN t, j \in DOMAIN u : t[i] # u[j]
        BY <1>0, <1>b, <2>1, MoveHead, Zenon
      <3>2. srq' = t /\ scq' = u
        BY <2>1
      <3> HIDE DEF t, u
      <3>3. QED BY <3>1, <3>2
    <2>4. ASSUME spc = "recv" PROVE srq' # <<>> /\ shandled = srq'[Len(srq')]
      <3>1. Len(c2s) >= 1
        BY <1>0, <2>1, NonEmpty
      <3>3. Len(srq) >= 2
        BY <1>t, <2>4, <3>1, SMTT(30) DEF Traffic
      <3>2. QED BY <1>0, <1>a, <2>1, <2>4, <3>3, LastStays
    <2>5. QED BY <2>1, <2>2, <2>3, <2>4 DEF RecvQueues
  <1>4. CASE DeliverToClient
    <2>1. /\ s2c # <<>> /\ crq # <<>>
          /\ crq' = Tail(crq) /\ ccq' = Append(ccq, Head(crq))
          /\ UNCHANGED <<srq, scq, spc, shandled, cpc, chandled>>
      BY <1>4 DEF DeliverToClient, svars
    <2>2. Len(crq') + Len(ccq') = Nc
      BY <1>0, <1>a, <2>1, MoveHeadLen
    <2>3. /\ Injective(crq') /\ Injective(ccq')
          /\ \A i \in DOMAIN crq', j \in DOMAIN ccq' : crq'[i] # ccq'[j]
      <3> DEFINE t == Tail(crq)
                 u == Append(ccq, Head(crq))
      <3>1. /\ Injective(t) /\ Injective(u)
            /\ \A i \in DOMAIN t, j \in DOMAIN u : t[i] # u[j]
        BY <1>0, <1>b, <2>1, MoveHead, Zenon
      <3>2. crq' = t /\ ccq' = u
        BY <2>1
      <3> HIDE DEF t, u
      <3>3. QED BY <3>1, <3>2
    <2>4. ASSUME cpc = "recv" PROVE crq' # <<>> /\ chandled = crq'[Len(crq')]
      <3>1. Len(s2c) >= 1
        BY <1>0, <2>1, NonEmpty
      <3>3. Len(crq) >= 2
        BY <1>t, <2>4, <3>1, SMTT(30) DEF Traffic
      <3>2. QED BY <1>0, <1>a, <2>1, <2>4, <3>3, LastStays
    <2>5. QED BY <2>1, <2>2, <2>3, <2>4 DEF RecvQueues
  <1>5. CASE /\ UNCHANGED <<crq, ccq, srq, scq, chandled, shandled>>
             /\ cpc' = "recv" => cpc = "recv"
             /\ spc' = "recv" => spc = "recv"
    BY <1>5 DEF RecvQueues
  <1>6. QED
    BY <1>1, <1>2, <1>3, <1>4, <1>5 DEF Next, vars, cvars, svars, Fetch,
       SendRequest, SendDone, ClientRecv, ServerReply, ServerDrop, ServerLeak

\* Posts append to the newest end, deliveries take from the oldest, and a
\* buffer leaves inflight_sends_ or free_bufpairs_ at the oldest end.
LEMMA NextUndeliveredAreNewest == IInv /\ [Next]_vars => UndeliveredAreNewest'
  <1> SUFFICES ASSUME IInv, [Next]_vars PROVE UndeliveredAreNewest'
    OBVIOUS
  <1>t. Traffic
    BY TrafficFacts
  <1> USE DEF IInv
  <1>0. /\ c2s \in Seq(CBuf) /\ inflight \in Seq(CBuf) /\ cfree \in Seq(CBuf)
        /\ s2c \in Seq(SBuf) /\ sfree \in Seq(SBuf)
        /\ Len(inflight) <= Nc
    BY DEF TypeOK, ClientBufsPartition
  <1>1. CASE SendRequest
    BY <1>0, <1>1, NewestAppend, TailFacts
       DEF SendRequest, svars, UndeliveredAreNewest
  <1>2. CASE ClientRecv
    <2>1. Len(c2s) < Len(inflight)
      <3>1. cpc = "recv"
        BY <1>2 DEF ClientRecv
      <3>2. QED BY <1>t, <3>1 DEF Traffic
    <2>2. QED
      BY <1>0, <1>2, <2>1, NewestOfTail
         DEF ClientRecv, svars, UndeliveredAreNewest
  <1>3. CASE DeliverToServer
    BY <1>0, <1>3, NewestTail DEF DeliverToServer, cvars, UndeliveredAreNewest
  <1>4. CASE ServerReply \/ ServerLeak
    <2>1. Len(s2c) < Len(sfree) /\ sfree # <<>>
      <3>1. spc = "recv" /\ sfree # <<>>
        BY <1>4 DEF ServerReply, ServerLeak
      <3>2. QED BY <1>t, <3>1 DEF Traffic
    <2>2. /\ Newest(s2c, Tail(sfree)) /\ Injective(Tail(sfree))
          /\ \A i \in DOMAIN Tail(sfree) : Tail(sfree)[i] # Head(sfree)
          /\ Tail(sfree) \in Seq(SBuf) /\ Head(sfree) \in SBuf
      BY <1>0, <2>1, NewestOfTail, InjectiveTail, TailFacts
         DEF UndeliveredAreNewest
    <2>3. CASE ServerReply
      <3>1. Newest(Append(s2c, Head(sfree)), Append(Tail(sfree), Head(sfree)))
        BY <1>0, <2>2, NewestAppend
      <3>2. Injective(Append(Tail(sfree), Head(sfree)))
        BY <2>2, InjectiveAppend
      <3>3. QED
        BY <2>3, <3>1, <3>2 DEF ServerReply, cvars, UndeliveredAreNewest
    <2>4. CASE ServerLeak
      BY <2>2, <2>4 DEF ServerLeak, cvars, UndeliveredAreNewest
    <2>5. QED BY <1>4, <2>3, <2>4
  <1>5. CASE DeliverToClient
    BY <1>0, <1>5, NewestTail DEF DeliverToClient, svars, UndeliveredAreNewest
  <1>6. CASE UNCHANGED <<c2s, inflight, s2c, sfree>>
    BY <1>6 DEF UndeliveredAreNewest
  <1>7. QED
    BY <1>1, <1>2, <1>3, <1>4, <1>5, <1>6 DEF Next, vars, cvars, svars, Fetch,
       SendDone, ClientPoll, ServerPoll, ServerDrop

\* Only sendRequest adds a message, with a buffer in flight; only the client's
\* onRecvSuccess takes one out of flight, with its message.
LEMMA NextWindowBoundsTraffic == IInv /\ [Next]_vars => WindowBoundsTraffic'
  <1> SUFFICES ASSUME IInv, [Next]_vars PROVE WindowBoundsTraffic'
    OBVIOUS
  <1> USE DEF IInv, WindowBoundsTraffic, One
  <1>0. /\ c2s \in Seq(CBuf) /\ inflight \in Seq(CBuf) /\ cfree \in Seq(CBuf)
        /\ s2c \in Seq(SBuf) /\ sfree \in Seq(SBuf)
        /\ scq \in Seq(SBuf) /\ ccq \in Seq(CBuf)
        /\ srq \in Seq(SBuf) /\ crq \in Seq(CBuf)
    BY DEF TypeOK
  <1>1. CASE Fetch
    BY <1>0, <1>1 DEF Fetch, svars
  <1>2. CASE SendRequest
    BY <1>0, <1>2, TailFacts, AppendFacts DEF SendRequest, svars
  <1>3. CASE SendDone
    BY <1>0, <1>3 DEF SendDone, svars
  <1>4. CASE ClientPoll
    BY <1>0, <1>4, TailFacts DEF ClientPoll, svars
  <1>5. CASE ClientRecv
    BY <1>0, <1>5, TailFacts DEF ClientRecv, svars
  <1>6. CASE ServerPoll
    BY <1>0, <1>6, TailFacts DEF ServerPoll, cvars
  <1>7. CASE ServerReply
    <2>1. Len(sfree') = Len(sfree) /\ Len(s2c') = Len(s2c) + 1
      BY <1>0, <1>7, TailFacts, AppendFacts DEF ServerReply
    <2>2. QED BY <1>0, <1>7, <2>1 DEF ServerReply, cvars
  <1>8. CASE ServerDrop
    BY <1>0, <1>8 DEF ServerDrop, cvars
  <1>9. CASE ServerLeak
    BY <1>0, <1>9, TailFacts DEF ServerLeak, cvars
  <1>10. CASE DeliverToServer
    BY <1>0, <1>10, TailFacts, AppendFacts DEF DeliverToServer, cvars
  <1>11. CASE DeliverToClient
    BY <1>0, <1>11, TailFacts, AppendFacts DEF DeliverToClient, svars
  <1>12. CASE UNCHANGED vars
    BY <1>12 DEF vars, cvars, svars
  <1>13. QED
    BY <1>1, <1>2, <1>3, <1>4, <1>5, <1>6, <1>7, <1>8, <1>9, <1>10, <1>11,
       <1>12 DEF Next

\* The safety properties rest on this: IInv holds in every reachable state.
THEOREM Invariance == Spec => []IInv
  <1>1. Init => IInv
    BY InitIInv
  <1>2. IInv /\ [Next]_vars => IInv'
    BY NextTypeOK, NextClientBufsPartition, NextRecvQueues,
       NextUndeliveredAreNewest, NextWindowBoundsTraffic DEF IInv
  <1>3. QED BY <1>1, <1>2, PTL DEF Spec

\* Type correctness, for every mem_num and every bound.
THEOREM TypeCorrect == Spec => []TypeOK
  <1>1. IInv => TypeOK
    BY DEF IInv
  <1>2. QED BY <1>1, Invariance, PTL

-----------------------------------------------------------------------------
(* Receivers are ready and the callbacks' unchecked accesses are defined. *)

\* No message arrives at an empty receive queue.
THEOREM ReceiversAlwaysReady == Spec => []ReceiversReady
  <1>1. IInv => ReceiversReady
    <2> SUFFICES ASSUME IInv PROVE ReceiversReady
      OBVIOUS
    <2>1. /\ c2s # <<>> => Len(c2s) >= 1
          /\ s2c # <<>> => Len(s2c) >= 1
      BY NonEmpty DEF IInv, TypeOK
    <2>2. /\ Len(c2s) >= 1 => Len(srq) >= 1
          /\ Len(s2c) >= 1 => Len(crq) >= 1
      BY TrafficFacts DEF Traffic
    <2>3. /\ Len(srq) >= 1 => srq # <<>>
          /\ Len(crq) >= 1 => crq # <<>>
      BY NonEmpty DEF IInv, TypeOK
    <2>4. QED BY <2>1, <2>2, <2>3 DEF ReceiversReady
  <1>2. QED BY <1>1, Invariance, PTL

\* Neither callback dereferences what is not there.
THEOREM CallbacksAlwaysSafe == Spec => []CallbacksSafe
  <1>1. IInv => CallbacksSafe
    <2> SUFFICES ASSUME IInv PROVE CallbacksSafe
      OBVIOUS
    <2>1. Traffic
      BY TrafficFacts
    <2>2. /\ spc = "recv" => Len(sfree) >= 1
          /\ cpc = "recv" => Len(inflight) >= 1
      BY <2>1 DEF Traffic
    <2>3. QED BY <2>2, NonEmpty DEF CallbacksSafe, IInv, TypeOK
  <1>2. QED BY <1>1, Invariance, PTL

-----------------------------------------------------------------------------
(* The buffers' memory. *)

\* No step writes to a send buffer that is still to be delivered.
LEMMA SendBufsStep ==
  ASSUME IInv, [Next]_vars
  PROVE  /\ \A i \in DOMAIN c2s : csend'[c2s[i]] = csend[c2s[i]]
         /\ \A i \in DOMAIN s2c : ssend'[s2c[i]] = ssend[s2c[i]]
  <1> DEFINE Stable == /\ \A i \in DOMAIN c2s : csend'[c2s[i]] = csend[c2s[i]]
                       /\ \A i \in DOMAIN s2c : ssend'[s2c[i]] = ssend[s2c[i]]
  <1>1. ASSUME IInv, [Next]_vars PROVE Stable
    <2>t. Traffic
      BY <1>1, TrafficFacts
    <2>0. /\ c2s \in Seq(CBuf) /\ inflight \in Seq(CBuf) /\ cfree \in Seq(CBuf)
          /\ s2c \in Seq(SBuf) /\ sfree \in Seq(SBuf)
          /\ csend \in [CBuf -> Msg] /\ ssend \in [SBuf -> Msg]
          /\ Len(scq) \in Nat /\ Len(ccq) \in Nat
      BY <1>1 DEF IInv, TypeOK
    <2>1. CASE SendRequest
      <3>1. \A i \in DOMAIN c2s : c2s[i] # Head(cfree)
        <4> SUFFICES ASSUME NEW i \in DOMAIN c2s PROVE c2s[i] # Head(cfree)
          OBVIOUS
        <4>0. c2s[i] = inflight[Len(inflight) - Len(c2s) + i]
              /\ Len(c2s) <= Len(inflight)
          BY <1>1 DEF IInv, UndeliveredAreNewest, Newest
        <4>1. PICK j \in DOMAIN inflight : c2s[i] = inflight[j]
          <5>1. Len(inflight) - Len(c2s) + i \in 1 .. Len(inflight)
            BY <2>0, <4>0
          <5>2. DOMAIN inflight = 1 .. Len(inflight)
            BY <2>0
          <5>3. QED BY <4>0, <5>1, <5>2
        <4>2. 1 \in DOMAIN cfree /\ Head(cfree) = cfree[1]
          BY <2>0, <2>1, TailFacts DEF SendRequest
        <4>3. QED BY <1>1, <4>1, <4>2 DEF IInv, ClientBufsPartition
      <3>2. \A i \in DOMAIN c2s : c2s[i] \in CBuf
        BY <2>0
      <3>3. QED BY <2>0, <2>1, <3>1, <3>2 DEF SendRequest, svars
    <2>2. CASE ServerReply \/ ServerLeak
      <3>1. Len(s2c) < Len(sfree) /\ sfree # <<>>
        <4>1. spc = "recv" /\ sfree # <<>>
          BY <2>2 DEF ServerReply, ServerLeak
        <4>2. QED BY <2>t, <4>1 DEF Traffic
      <3>2. \A i \in DOMAIN s2c : s2c[i] # Head(sfree)
        <4> SUFFICES ASSUME NEW i \in DOMAIN s2c PROVE s2c[i] # Head(sfree)
          OBVIOUS
        <4>0. s2c[i] = sfree[Len(sfree) - Len(s2c) + i]
          BY <1>1 DEF IInv, UndeliveredAreNewest, Newest
        <4>1. PICK j \in DOMAIN sfree : j > 1 /\ s2c[i] = sfree[j]
          <5>1. /\ Len(sfree) - Len(s2c) + i \in 1 .. Len(sfree)
                /\ Len(sfree) - Len(s2c) + i > 1
            BY <2>0, <3>1
          <5>2. DOMAIN sfree = 1 .. Len(sfree)
            BY <2>0
          <5>3. QED BY <4>0, <5>1, <5>2
        <4>2. 1 \in DOMAIN sfree /\ Head(sfree) = sfree[1]
          BY <2>0, <3>1, TailFacts
        <4>3. QED BY <1>1, <4>1, <4>2 DEF IInv, UndeliveredAreNewest, Injective
      <3>3. \A i \in DOMAIN s2c : s2c[i] \in SBuf
        BY <2>0
      <3>4. QED BY <2>0, <2>2, <3>2, <3>3 DEF ServerReply, ServerLeak, cvars
    <2>3. CASE UNCHANGED <<csend, ssend>>
      BY <2>3
    <2>4. QED
      BY <1>1, <2>1, <2>2, <2>3 DEF Next, vars, cvars, svars, Fetch, SendDone,
         ClientPoll, ClientRecv, ServerPoll, ServerDrop, DeliverToServer,
         DeliverToClient
  <1>2. QED BY <1>1

\* The memory behind an undelivered send never changes.
THEOREM SendBufsAlwaysStable == Spec => SendBufsStable
  <1> DEFINE Stable == /\ \A i \in DOMAIN c2s : csend'[c2s[i]] = csend[c2s[i]]
                       /\ \A i \in DOMAIN s2c : ssend'[s2c[i]] = ssend[s2c[i]]
  <1>1. IInv /\ [Next]_vars => [Stable]_vars
    BY SendBufsStep
  <1>2. QED BY <1>1, Invariance, PTL DEF Spec, SendBufsStable

\* No step writes to a receive buffer that is still to be read.
LEMMA RecvBufsStep ==
  ASSUME IInv, [Next]_vars
  PROVE  /\ \A i \in DOMAIN scq : srecv'[scq[i]] = srecv[scq[i]]
         /\ \A i \in DOMAIN ccq : crecv'[ccq[i]] = crecv[ccq[i]]
         /\ spc = "recv" => srecv'[shandled] = srecv[shandled]
         /\ cpc = "recv" => crecv'[chandled] = crecv[chandled]
  <1> DEFINE Stable ==
        /\ \A i \in DOMAIN scq : srecv'[scq[i]] = srecv[scq[i]]
        /\ \A i \in DOMAIN ccq : crecv'[ccq[i]] = crecv[ccq[i]]
        /\ spc = "recv" => srecv'[shandled] = srecv[shandled]
        /\ cpc = "recv" => crecv'[chandled] = crecv[chandled]
  <1>1. ASSUME IInv, [Next]_vars PROVE Stable
    <2>t. Traffic
      BY <1>1, TrafficFacts
    <2>0. /\ crq \in Seq(CBuf) /\ ccq \in Seq(CBuf) /\ chandled \in CBuf
          /\ srq \in Seq(SBuf) /\ scq \in Seq(SBuf) /\ shandled \in SBuf
          /\ crecv \in [CBuf -> Msg] /\ srecv \in [SBuf -> Msg]
          /\ Len(c2s) \in Nat /\ Len(s2c) \in Nat /\ Len(sfree) \in Nat
          /\ Len(inflight) \in Nat /\ Len(cfree) \in Nat
      BY <1>1 DEF IInv, TypeOK
    <2>a. /\ Len(crq) + Len(ccq) = Nc /\ Len(srq) + Len(scq) = Ns
          /\ Len(inflight) <= Nc
          /\ cpc = "recv" => chandled = crq[Len(crq)]
          /\ spc = "recv" => shandled = srq[Len(srq)]
      BY <1>1, <2>0 DEF IInv, RecvQueues, ClientBufsPartition
    <2>1. CASE DeliverToServer
      <3>1. 1 \in DOMAIN srq /\ Head(srq) = srq[1]
        BY <2>0, <2>1, TailFacts DEF DeliverToServer
      <3>2. \A i \in DOMAIN scq : scq[i] # Head(srq) /\ scq[i] \in SBuf
        BY <1>1, <2>0, <3>1 DEF IInv, RecvQueues
      <3>3. ASSUME spc = "recv" PROVE shandled # Head(srq)
        <4>1. Len(c2s) >= 1
          BY <1>1, <2>1, NonEmpty DEF DeliverToServer, IInv, TypeOK
        <4>2. Len(srq) >= 2
          BY <2>t, <3>3, <4>1, SMTT(30) DEF Traffic
        <4>3. Len(srq) \in DOMAIN srq
          BY <2>0, <4>2
        <4>4. QED BY <1>1, <2>a, <3>1, <3>3, <4>2, <4>3
                  DEF IInv, RecvQueues, Injective
      <3>4. QED BY <2>0, <2>1, <3>2, <3>3 DEF DeliverToServer, cvars
    <2>2. CASE DeliverToClient
      <3>1. 1 \in DOMAIN crq /\ Head(crq) = crq[1]
        BY <2>0, <2>2, TailFacts DEF DeliverToClient
      <3>2. \A i \in DOMAIN ccq : ccq[i] # Head(crq) /\ ccq[i] \in CBuf
        BY <1>1, <2>0, <3>1 DEF IInv, RecvQueues
      <3>3. ASSUME cpc = "recv" PROVE chandled # Head(crq)
        <4>1. Len(s2c) >= 1
          BY <1>1, <2>2, NonEmpty DEF DeliverToClient, IInv, TypeOK
        <4>2. Len(crq) >= 2
          BY <2>t, <3>3, <4>1, SMTT(30) DEF Traffic
        <4>3. Len(crq) \in DOMAIN crq
          BY <2>0, <4>2
        <4>4. QED BY <1>1, <2>a, <3>1, <3>3, <4>2, <4>3
                  DEF IInv, RecvQueues, Injective
      <3>4. QED BY <2>0, <2>2, <3>2, <3>3 DEF DeliverToClient, svars
    <2>3. CASE UNCHANGED <<crecv, srecv>>
      BY <2>3
    <2>4. QED
      BY <1>1, <2>1, <2>2, <2>3 DEF Next, vars, cvars, svars, Fetch, SendDone,
         SendRequest, ClientPoll, ClientRecv, ServerPoll, ServerReply,
         ServerDrop, ServerLeak
  <1>2. QED BY <1>1

\* A received message stays readable until its callback has read it.
THEOREM RecvBufsAlwaysStable == Spec => RecvBufsStable
  <1> DEFINE Stable ==
        /\ \A i \in DOMAIN scq : srecv'[scq[i]] = srecv[scq[i]]
        /\ \A i \in DOMAIN ccq : crecv'[ccq[i]] = crecv[ccq[i]]
        /\ spc = "recv" => srecv'[shandled] = srecv[shandled]
        /\ cpc = "recv" => crecv'[chandled] = crecv[chandled]
  <1>1. IInv /\ [Next]_vars => [Stable]_vars
    BY RecvBufsStep
  <1>2. QED BY <1>1, Invariance, PTL DEF Spec, RecvBufsStable

-----------------------------------------------------------------------------
(* The exchange implements RpcChannel. *)

\* The requests that wait in unsend_reqs_ are the newest ones, in order.
UnsentInOrder ==
  /\ Len(unsent) <= nreq
  /\ \A i \in 1 .. Len(unsent) : unsent[i] = nreq - Len(unsent) + i

\* fetch() appends the next request, sendRequest takes the oldest.
LEMMA NextUnsentInOrder == TypeOK /\ UnsentInOrder /\ [Next]_vars => UnsentInOrder'
  <1> SUFFICES ASSUME TypeOK, UnsentInOrder, [Next]_vars PROVE UnsentInOrder'
    OBVIOUS
  <1>0. unsent \in Seq(Msg) /\ nreq \in Nat /\ Len(unsent) \in Nat
    BY DEF TypeOK
  <1>1. CASE Fetch
    <2>1. /\ nreq' = nreq + 1 /\ unsent' = Append(unsent, nreq + 1)
          /\ nreq + 1 \in Msg
      BY <1>0, <1>1 DEF Fetch, Msg
    <2>2. /\ Len(unsent') = Len(unsent) + 1 /\ unsent'[Len(unsent) + 1] = nreq + 1
          /\ \A i \in 1 .. Len(unsent) : unsent'[i] = unsent[i]
      BY <1>0, <2>1, AppendFacts
    <2>3. QED BY <1>0, <2>1, <2>2 DEF UnsentInOrder
  <1>2. CASE SendRequest
    <2>1. nreq' = nreq /\ unsent' = Tail(unsent) /\ unsent # <<>>
      BY <1>2 DEF SendRequest
    <2>2. /\ Len(unsent') = Len(unsent) - 1 /\ Len(unsent) >= 1
          /\ \A i \in 1 .. (Len(unsent) - 1) : unsent'[i] = unsent[i + 1]
      BY <1>0, <2>1, TailFacts
    <2>3. QED BY <1>0, <2>1, <2>2 DEF UnsentInOrder
  <1>3. CASE UNCHANGED <<unsent, nreq>>
    BY <1>3 DEF UnsentInOrder
  <1>4. QED
    BY <1>1, <1>2, <1>3 DEF Next, vars, cvars, SendDone, ClientPoll, ClientRecv,
       ServerPoll, ServerReply, ServerDrop, ServerLeak, DeliverToServer,
       DeliverToClient

\* What both sides have in memory is a sequence of messages, as long as the
\* queues that point to it.
LEMMA InMemoryFacts ==
  ASSUME IInv
  PROVE  /\ InMemory(srecv, scq) \in Seq(Msg) /\ InMemory(csend, c2s) \in Seq(Msg)
         /\ InMemory(crecv, ccq) \in Seq(Msg) /\ InMemory(ssend, s2c) \in Seq(Msg)
         /\ Len(InMemory(srecv, scq)) = Len(scq)
         /\ Len(InMemory(csend, c2s)) = Len(c2s)
         /\ Len(InMemory(crecv, ccq)) = Len(ccq)
         /\ Len(InMemory(ssend, s2c)) = Len(s2c)
         /\ srecv[shandled] \in Msg /\ crecv[chandled] \in Msg
  <1>1. /\ scq \in Seq(SBuf) /\ c2s \in Seq(CBuf)
        /\ ccq \in Seq(CBuf) /\ s2c \in Seq(SBuf)
        /\ csend \in [CBuf -> Msg] /\ crecv \in [CBuf -> Msg]
        /\ ssend \in [SBuf -> Msg] /\ srecv \in [SBuf -> Msg]
        /\ shandled \in SBuf /\ chandled \in CBuf
    BY DEF IInv, TypeOK
  <1>2. InMemory(srecv, scq) \in Seq(Msg) /\ Len(InMemory(srecv, scq)) = Len(scq)
    BY <1>1, MemSeq
  <1>3. InMemory(csend, c2s) \in Seq(Msg) /\ Len(InMemory(csend, c2s)) = Len(c2s)
    BY <1>1, MemSeq
  <1>4. InMemory(crecv, ccq) \in Seq(Msg) /\ Len(InMemory(crecv, ccq)) = Len(ccq)
    BY <1>1, MemSeq
  <1>5. InMemory(ssend, s2c) \in Seq(Msg) /\ Len(InMemory(ssend, s2c)) = Len(s2c)
    BY <1>1, MemSeq
  <1>6. QED BY <1>1, <1>2, <1>3, <1>4, <1>5

\* What is in memory is a sequence of messages, no more than the window holds.
LEMMA MemoryFacts ==
  ASSUME IInv
  PROVE  /\ RequestsInMemory \in Seq(Msg) /\ RepliesInMemory \in Seq(Msg)
         /\ Len(RequestsInMemory) \in Nat /\ Len(RepliesInMemory) \in Nat
         /\ Len(RequestsInMemory) + Len(RepliesInMemory) <= Len(inflight)
  <1> DEFINE h == IF spc = "recv" THEN <<srecv[shandled]>> ELSE <<>>
             g == IF cpc = "recv" THEN <<crecv[chandled]>> ELSE <<>>
             p == InMemory(srecv, scq)
             q == InMemory(csend, c2s)
             s == InMemory(crecv, ccq)
             t == InMemory(ssend, s2c)
  <1>1. /\ p \in Seq(Msg) /\ q \in Seq(Msg) /\ s \in Seq(Msg) /\ t \in Seq(Msg)
        /\ Len(p) = Len(scq) /\ Len(q) = Len(c2s)
        /\ Len(s) = Len(ccq) /\ Len(t) = Len(s2c)
    BY InMemoryFacts
  <1>2. /\ h \in Seq(Msg) /\ Len(h) = (IF spc = "recv" THEN 1 ELSE 0)
        /\ g \in Seq(Msg) /\ Len(g) = (IF cpc = "recv" THEN 1 ELSE 0)
    BY InMemoryFacts
  <1>3. RequestsInMemory = (h \o p) \o q /\ RepliesInMemory = (g \o s) \o t
    BY DEF RequestsInMemory, RepliesInMemory
  <1>4. /\ Len(sfree) \in Nat /\ Len(inflight) \in Nat /\ Len(sfree) <= Ns
        /\ Len(c2s) + Len(scq) + Len(h) + Len(s2c) + Len(ccq) + Len(g)
             + (Ns - Len(sfree)) <= Len(inflight)
    BY <1>2 DEF IInv, TypeOK, WindowBoundsTraffic, One
  <1> HIDE DEF h, g, p, q, s, t
  <1>5. /\ (h \o p) \o q \in Seq(Msg)
        /\ Len((h \o p) \o q) = Len(h) + Len(p) + Len(q)
    <2>1. h \in Seq(Msg) /\ p \in Seq(Msg) /\ q \in Seq(Msg)
      BY <1>1, <1>2
    <2>2. QED BY <2>1, Cat3Type
  <1>6. /\ (g \o s) \o t \in Seq(Msg)
        /\ Len((g \o s) \o t) = Len(g) + Len(s) + Len(t)
    <2>1. g \in Seq(Msg) /\ s \in Seq(Msg) /\ t \in Seq(Msg)
      BY <1>1, <1>2
    <2>2. QED BY <2>1, Cat3Type
  <1>7. /\ Len(h) \in Nat /\ Len(p) \in Nat /\ Len(q) \in Nat
        /\ Len(g) \in Nat /\ Len(s) \in Nat /\ Len(t) \in Nat
    BY <1>1, <1>2
  <1>8. /\ Len(RequestsInMemory) = Len(h) + Len(scq) + Len(c2s)
        /\ Len(RepliesInMemory) = Len(g) + Len(ccq) + Len(s2c)
    BY <1>1, <1>3, <1>5, <1>6
  <1>9. QED BY <1>1, <1>3, <1>4, <1>5, <1>6, <1>7, <1>8

\* sendRequest is Issue: the request's bytes are in memory behind those of the
\* requests under way, and the window has room for it.
LEMMA SendRequestIssues ==
  ASSUME IInv, UnsentInOrder, [Next]_vars, SendRequest
  PROVE  Channel!Issue
  <1> DEFINE b == Head(cfree)
             h == IF spc = "recv" THEN <<srecv[shandled]>> ELSE <<>>
             p == InMemory(srecv, scq)
             q == InMemory(csend, c2s)
  <1>1. /\ cfree \in Seq(CBuf) /\ cfree # <<>> /\ c2s \in Seq(CBuf)
        /\ csend \in [CBuf -> Msg] /\ unsent \in Seq(Msg) /\ unsent # <<>>
        /\ nreq \in Nat
    BY DEF IInv, TypeOK, SendRequest
  <1>2. b \in CBuf /\ Len(cfree) >= 1 /\ Head(unsent) = unsent[1] /\ Head(unsent) \in Msg
        /\ Len(unsent) \in Nat /\ Len(unsent) >= 1 /\ Len(Tail(unsent)) = Len(unsent) - 1
    BY <1>1, TailFacts
  <1>3. Head(unsent) = nreq - Len(unsent) + 1
    BY <1>1, <1>2 DEF UnsentInOrder
  <1>4. csend' \in [CBuf -> Msg] /\ csend'[b] = Head(unsent) /\ c2s' = Append(c2s, b)
    BY <1>1, <1>2 DEF SendRequest
  <1>5. InMemory(csend', c2s') = Append(InMemory(csend, c2s), Head(unsent))
    <2>1. InMemory(csend', Append(c2s, b)) = Append(InMemory(csend', c2s), csend'[b])
      BY <1>1, <1>2, <1>4, MemAppend
    <2>2. InMemory(csend', c2s) = InMemory(csend, c2s)
      BY <1>1, SendBufsStep, MemSame
    <2>3. QED BY <1>4, <2>1, <2>2
  <1>6. h \in Seq(Msg) /\ p \in Seq(Msg) /\ q \in Seq(Msg)
    BY InMemoryFacts
  <1>7. /\ RequestsInMemory = (h \o p) \o q
        /\ RequestsInMemory' = (h \o p) \o InMemory(csend', c2s')
    BY DEF RequestsInMemory, SendRequest, svars
  <1>8. RequestsInMemory' = Append(RequestsInMemory, Head(unsent))
    <2> HIDE DEF h, p, q
    <2>1. (h \o p) \o Append(q, Head(unsent)) = Append((h \o p) \o q, Head(unsent))
      BY <1>2, <1>6, CatAppend
    <2>2. QED BY <1>5, <1>7, <2>1 DEF q
  <1>9. RepliesInMemory' = RepliesInMemory /\ delivered' = delivered
    BY DEF RepliesInMemory, SendRequest, svars
  <1>10. (nreq - Len(unsent))' = (nreq - Len(unsent)) + 1
    BY <1>1, <1>2 DEF SendRequest
  <1>11. Len(RequestsInMemory) + Len(RepliesInMemory) < Nc
    <2>1. Len(cfree) + Len(inflight) = Nc /\ Len(inflight) \in Nat
      BY DEF IInv, TypeOK, ClientBufsPartition
    <2>2. Len(cfree) \in Nat
      BY <1>1
    <2>3. QED BY <1>2, <2>1, <2>2, MemoryFacts
  <1>12. QED BY <1>3, <1>8, <1>9, <1>10, <1>11 DEF Channel!Issue

\* A handled request is the oldest one in memory.
LEMMA OldestRequest ==
  ASSUME IInv, spc = "recv"
  PROVE  /\ RequestsInMemory # <<>> /\ Head(RequestsInMemory) = srecv[shandled]
         /\ Tail(RequestsInMemory)
              = (<<>> \o InMemory(srecv, scq)) \o InMemory(csend, c2s)
  <1> DEFINE x == srecv[shandled]
             p == InMemory(srecv, scq)
             q == InMemory(csend, c2s)
  <1>1. x \in Msg /\ p \in Seq(Msg) /\ q \in Seq(Msg)
    BY InMemoryFacts
  <1>2. RequestsInMemory = (<<x>> \o p) \o q
    BY DEF RequestsInMemory
  <1> HIDE DEF x, p, q
  <1>3. /\ (<<x>> \o p) \o q # <<>> /\ Head((<<x>> \o p) \o q) = x
        /\ Tail((<<x>> \o p) \o q) = (<<>> \o p) \o q
    BY <1>1, CatHead
  <1>4. QED BY <1>2, <1>3 DEF x, p, q

\* The server's callback is Serve: it answers the oldest request, and the bytes
\* of the answer are in memory behind those of the answers before it.
LEMMA ServerReplyServes ==
  ASSUME IInv, [Next]_vars, ServerReply
  PROVE  Channel!Serve
  <1> DEFINE b == Head(sfree)
             x == srecv[shandled]
             h == IF cpc = "recv" THEN <<crecv[chandled]>> ELSE <<>>
             p == InMemory(crecv, ccq)
             q == InMemory(ssend, s2c)
  <1>1. /\ sfree \in Seq(SBuf) /\ sfree # <<>> /\ s2c \in Seq(SBuf)
        /\ ssend \in [SBuf -> Msg] /\ spc = "recv"
    BY DEF IInv, TypeOK, ServerReply
  <1>2. b \in SBuf /\ x \in Msg
    BY <1>1, TailFacts, InMemoryFacts
  <1>3. ssend' \in [SBuf -> Msg] /\ ssend'[b] = x /\ s2c' = Append(s2c, b)
    BY <1>1, <1>2 DEF ServerReply
  <1>4. InMemory(ssend', s2c') = Append(q, x)
    <2>1. InMemory(ssend', Append(s2c, b)) = Append(InMemory(ssend', s2c), ssend'[b])
      BY <1>1, <1>2, <1>3, MemAppend
    <2>2. InMemory(ssend', s2c) = InMemory(ssend, s2c)
      BY <1>1, SendBufsStep, MemSame
    <2>3. QED BY <1>3, <2>1, <2>2
  <1>5. h \in Seq(Msg) /\ p \in Seq(Msg) /\ q \in Seq(Msg)
    BY InMemoryFacts
  <1>6. /\ RepliesInMemory = (h \o p) \o q
        /\ RepliesInMemory' = (h \o p) \o InMemory(ssend', s2c')
    BY DEF RepliesInMemory, ServerReply, cvars
  <1>7. RepliesInMemory' = Append(RepliesInMemory, x)
    <2> HIDE DEF h, p, q, x
    <2>1. (h \o p) \o Append(q, x) = Append((h \o p) \o q, x)
      BY <1>2, <1>5, CatAppend
    <2>2. QED BY <1>4, <1>6, <2>1
  <1>8. RequestsInMemory' = (<<>> \o InMemory(srecv, scq)) \o InMemory(csend, c2s)
    BY DEF RequestsInMemory, ServerReply, cvars
  <1>9. UNCHANGED <<nreq, unsent, delivered>>
    BY DEF ServerReply, cvars
  <1>10. QED BY <1>1, <1>7, <1>8, <1>9, OldestRequest DEF Channel!Serve

\* A request without an answer is Ignore, also when a send buffer was written
\* to and leaked: no answer under way points to it.
LEMMA ServerDropIgnores ==
  ASSUME IInv, [Next]_vars, ServerDrop \/ ServerLeak
  PROVE  Channel!Ignore
  <1>1. spc = "recv" /\ s2c \in Seq(SBuf)
    BY DEF IInv, TypeOK, ServerDrop, ServerLeak
  <1>2. RequestsInMemory' = (<<>> \o InMemory(srecv, scq)) \o InMemory(csend, c2s)
    BY DEF RequestsInMemory, ServerDrop, ServerLeak, cvars
  <1>3. InMemory(ssend', s2c) = InMemory(ssend, s2c)
    BY <1>1, SendBufsStep, MemSame
  <1>4. RepliesInMemory' = RepliesInMemory
    BY <1>3 DEF RepliesInMemory, ServerDrop, ServerLeak, cvars
  <1>5. UNCHANGED <<nreq, unsent, delivered>>
    BY DEF ServerDrop, ServerLeak, cvars
  <1>6. QED BY <1>1, <1>2, <1>4, <1>5, OldestRequest DEF Channel!Ignore

\* The client's callback is HandOver: it reads the oldest answer.
LEMMA ClientRecvHandsOver ==
  ASSUME IInv, [Next]_vars, ClientRecv
  PROVE  Channel!HandOver
  <1> DEFINE x == crecv[chandled]
             p == InMemory(crecv, ccq)
             q == InMemory(ssend, s2c)
  <1>1. x \in Msg /\ p \in Seq(Msg) /\ q \in Seq(Msg)
    BY InMemoryFacts
  <1>2. RepliesInMemory = (<<x>> \o p) \o q /\ RepliesInMemory' = (<<>> \o p) \o q
    BY DEF RepliesInMemory, ClientRecv, svars
  <1>3. /\ RequestsInMemory' = RequestsInMemory /\ UNCHANGED <<nreq, unsent>>
        /\ delivered' = Append(delivered, x)
    BY DEF RequestsInMemory, ClientRecv, svars
  <1> HIDE DEF x, p, q
  <1>4. /\ (<<x>> \o p) \o q # <<>> /\ Head((<<x>> \o p) \o q) = x
        /\ Tail((<<x>> \o p) \o q) = (<<>> \o p) \o q
    BY <1>1, CatHead
  <1>5. QED BY <1>2, <1>3, <1>4 DEF Channel!HandOver

\* A completion that is taken up stays where it is in the order.
LEMMA PollsStutter ==
  ASSUME IInv, ClientPoll \/ ServerPoll
  PROVE  UNCHANGED Channel!vars
  <1>1. /\ scq \in Seq(SBuf) /\ ccq \in Seq(CBuf)
        /\ srecv \in [SBuf -> Msg] /\ crecv \in [CBuf -> Msg]
    BY DEF IInv, TypeOK
  <1>2. CASE ClientPoll
    <2> DEFINE x == crecv[Head(ccq)]
               t == InMemory(crecv, Tail(ccq))
               u == InMemory(ssend, s2c)
    <2>1. InMemory(crecv, ccq) = <<x>> \o t
      BY <1>1, <1>2, MemHead DEF ClientPoll
    <2>2. Head(ccq) \in CBuf /\ Tail(ccq) \in Seq(CBuf)
      BY <1>1, <1>2, TailFacts DEF ClientPoll
    <2>3. x \in Msg /\ t \in Seq(Msg) /\ u \in Seq(Msg)
      BY <1>1, <2>2, MemSeq, InMemoryFacts
    <2>4. /\ RepliesInMemory = (<<>> \o (<<x>> \o t)) \o u
          /\ RepliesInMemory' = (<<x>> \o t) \o u
      BY <1>2, <2>1 DEF RepliesInMemory, ClientPoll, svars
    <2>5. UNCHANGED <<RequestsInMemory, nreq, unsent, delivered>>
      BY <1>2 DEF RequestsInMemory, ClientPoll, svars
    <2> HIDE DEF x, t, u
    <2>6. (<<>> \o (<<x>> \o t)) \o u = (<<x>> \o t) \o u
      BY <2>3, CatHead
    <2>7. QED BY <2>4, <2>5, <2>6 DEF Channel!vars
  <1>3. CASE ServerPoll
    <2> DEFINE x == srecv[Head(scq)]
               t == InMemory(srecv, Tail(scq))
               u == InMemory(csend, c2s)
    <2>1. InMemory(srecv, scq) = <<x>> \o t
      BY <1>1, <1>3, MemHead DEF ServerPoll
    <2>2. Head(scq) \in SBuf /\ Tail(scq) \in Seq(SBuf)
      BY <1>1, <1>3, TailFacts DEF ServerPoll
    <2>3. x \in Msg /\ t \in Seq(Msg) /\ u \in Seq(Msg)
      BY <1>1, <2>2, MemSeq, InMemoryFacts
    <2>4. /\ RequestsInMemory = (<<>> \o (<<x>> \o t)) \o u
          /\ RequestsInMemory' = (<<x>> \o t) \o u
      BY <1>3, <2>1 DEF RequestsInMemory, ServerPoll, cvars
    <2>5. UNCHANGED <<RepliesInMemory, nreq, unsent, delivered>>
      BY <1>3 DEF RepliesInMemory, ServerPoll, cvars
    <2> HIDE DEF x, t, u
    <2>6. (<<>> \o (<<x>> \o t)) \o u = (<<x>> \o t) \o u
      BY <2>3, CatHead
    <2>7. QED BY <2>4, <2>5, <2>6 DEF Channel!vars
  <1>4. QED BY <1>2, <1>3

\* A delivery copies the oldest undelivered message behind the completed ones,
\* and overwrites none of them.
LEMMA DeliveriesStutter ==
  ASSUME IInv, [Next]_vars, DeliverToServer \/ DeliverToClient
  PROVE  UNCHANGED Channel!vars
  <1>1. /\ scq \in Seq(SBuf) /\ c2s \in Seq(CBuf) /\ srq \in Seq(SBuf)
        /\ ccq \in Seq(CBuf) /\ s2c \in Seq(SBuf) /\ crq \in Seq(CBuf)
        /\ csend \in [CBuf -> Msg] /\ crecv \in [CBuf -> Msg]
        /\ ssend \in [SBuf -> Msg] /\ srecv \in [SBuf -> Msg]
    BY DEF IInv, TypeOK
  <1>2. CASE DeliverToServer
    <2> DEFINE b == Head(srq)
               x == csend[Head(c2s)]
               h == IF spc = "recv" THEN <<srecv[shandled]>> ELSE <<>>
               p == InMemory(srecv, scq)
               t == InMemory(csend, Tail(c2s))
    <2>1. /\ b \in SBuf /\ Head(c2s) \in CBuf /\ Tail(c2s) \in Seq(CBuf)
      BY <1>1, <1>2, TailFacts DEF DeliverToServer
    <2>2. /\ h \in Seq(Msg) /\ p \in Seq(Msg) /\ t \in Seq(Msg) /\ x \in Msg
      <3>1. \A c \in CBuf : csend[c] \in Msg
        BY <1>1
      <3>2. x \in Msg
        BY <2>1, <3>1
      <3>3. t \in Seq(Msg)
        BY <2>1, <3>1, MemSeq, Zenon
      <3>4. h \in Seq(Msg) /\ p \in Seq(Msg)
        BY InMemoryFacts
      <3>5. QED BY <3>2, <3>3, <3>4
    <2>3. InMemory(csend, c2s) = <<x>> \o t
      <3>1. c2s # <<>> /\ \A c \in CBuf : csend[c] \in Msg
        BY <1>1, <1>2 DEF DeliverToServer
      <3>2. QED BY <1>1, <3>1, MemHead, Zenon
    <2>4. /\ srecv' \in [SBuf -> Msg] /\ srecv'[b] = x
          /\ scq' = Append(scq, b) /\ c2s' = Tail(c2s)
      BY <1>1, <2>1, <2>2, <1>2 DEF DeliverToServer
    <2>5. InMemory(srecv', scq') = Append(p, x)
      <3>1. InMemory(srecv', Append(scq, b))
              = Append(InMemory(srecv', scq), srecv'[b])
        <4>1. \A c \in SBuf : srecv'[c] \in Msg
          BY <2>4
        <4>2. scq \in Seq(SBuf) /\ b \in SBuf
          BY <1>1, <2>1
        <4> HIDE DEF b
        <4>3. QED BY <4>1, <4>2, MemAppend
      <3>2. InMemory(srecv', scq) = p
        BY <1>1, RecvBufsStep, MemSame
      <3>3. QED BY <2>4, <3>1, <3>2
    <2>6. h = IF spc' = "recv" THEN <<srecv'[shandled']>> ELSE <<>>
      BY <1>2, RecvBufsStep DEF DeliverToServer
    <2>7. /\ RequestsInMemory = (h \o p) \o (<<x>> \o t)
          /\ RequestsInMemory' = (h \o Append(p, x)) \o t
      <3>1. InMemory(csend', c2s') = t
        BY <1>2, <2>4 DEF DeliverToServer, cvars
      <3>2. RequestsInMemory = (h \o p) \o InMemory(csend, c2s)
        BY DEF RequestsInMemory
      <3>3. RequestsInMemory' = (h \o InMemory(srecv', scq')) \o InMemory(csend', c2s')
        BY <2>6 DEF RequestsInMemory
      <3>4. QED BY <2>3, <2>5, <3>1, <3>2, <3>3
    <2>8. UNCHANGED <<RepliesInMemory, nreq, unsent, delivered>>
      BY <1>2 DEF RepliesInMemory, DeliverToServer, cvars
    <2> HIDE DEF x, h, p, t
    <2>9. (h \o Append(p, x)) \o t = (h \o p) \o (<<x>> \o t)
      BY <2>2, CatMove, ZenonT(40)
    <2>10. QED BY <2>7, <2>8, <2>9 DEF Channel!vars
  <1>3. CASE DeliverToClient
    <2> DEFINE b == Head(crq)
               x == ssend[Head(s2c)]
               h == IF cpc = "recv" THEN <<crecv[chandled]>> ELSE <<>>
               p == InMemory(crecv, ccq)
               t == InMemory(ssend, Tail(s2c))
    <2>1. /\ b \in CBuf /\ Head(s2c) \in SBuf /\ Tail(s2c) \in Seq(SBuf)
      BY <1>1, <1>3, TailFacts DEF DeliverToClient
    <2>2. /\ h \in Seq(Msg) /\ p \in Seq(Msg) /\ t \in Seq(Msg) /\ x \in Msg
      <3>1. \A c \in SBuf : ssend[c] \in Msg
        BY <1>1
      <3>2. x \in Msg
        BY <2>1, <3>1
      <3>3. t \in Seq(Msg)
        BY <2>1, <3>1, MemSeq, Zenon
      <3>4. h \in Seq(Msg) /\ p \in Seq(Msg)
        BY InMemoryFacts
      <3>5. QED BY <3>2, <3>3, <3>4
    <2>3. InMemory(ssend, s2c) = <<x>> \o t
      <3>1. s2c # <<>> /\ \A c \in SBuf : ssend[c] \in Msg
        BY <1>1, <1>3 DEF DeliverToClient
      <3>2. QED BY <1>1, <3>1, MemHead, Zenon
    <2>4. /\ crecv' \in [CBuf -> Msg] /\ crecv'[b] = x
          /\ ccq' = Append(ccq, b) /\ s2c' = Tail(s2c)
      BY <1>1, <2>1, <2>2, <1>3 DEF DeliverToClient
    <2>5. InMemory(crecv', ccq') = Append(p, x)
      <3>1. InMemory(crecv', Append(ccq, b))
              = Append(InMemory(crecv', ccq), crecv'[b])
        <4>1. \A c \in CBuf : crecv'[c] \in Msg
          BY <2>4
        <4>2. ccq \in Seq(CBuf) /\ b \in CBuf
          BY <1>1, <2>1
        <4> HIDE DEF b
        <4>3. QED BY <4>1, <4>2, MemAppend
      <3>2. InMemory(crecv', ccq) = p
        BY <1>1, RecvBufsStep, MemSame
      <3>3. QED BY <2>4, <3>1, <3>2
    <2>6. h = IF cpc' = "recv" THEN <<crecv'[chandled']>> ELSE <<>>
      BY <1>3, RecvBufsStep DEF DeliverToClient
    <2>7. /\ RepliesInMemory = (h \o p) \o (<<x>> \o t)
          /\ RepliesInMemory' = (h \o Append(p, x)) \o t
      <3>1. InMemory(ssend', s2c') = t
        BY <1>3, <2>4 DEF DeliverToClient, svars
      <3>2. RepliesInMemory = (h \o p) \o InMemory(ssend, s2c)
        BY DEF RepliesInMemory
      <3>3. RepliesInMemory' = (h \o InMemory(crecv', ccq')) \o InMemory(ssend', s2c')
        BY <2>6 DEF RepliesInMemory
      <3>4. QED BY <2>3, <2>5, <3>1, <3>2, <3>3
    <2>8. UNCHANGED <<RequestsInMemory, nreq, unsent, delivered>>
      BY <1>3 DEF RequestsInMemory, DeliverToClient, svars
    <2> HIDE DEF x, h, p, t
    <2>9. (h \o Append(p, x)) \o t = (h \o p) \o (<<x>> \o t)
      BY <2>2, CatMove, ZenonT(40)
    <2>10. QED BY <2>7, <2>8, <2>9 DEF Channel!vars
  <1>4. QED BY <1>2, <1>3

\* fetch() and the end of trySendRequests change nothing that was sent.
LEMMA LoopStepsStutter ==
  ASSUME IInv, Fetch \/ SendDone
  PROVE  UNCHANGED Channel!vars
  <1>1. unsent \in Seq(Msg) /\ nreq \in Nat /\ Len(unsent) \in Nat
    BY DEF IInv, TypeOK
  <1>2. (nreq - Len(unsent))' = nreq - Len(unsent)
    <2>1. CASE Fetch
      <3>1. Len(unsent') = Len(unsent) + 1 /\ nreq' = nreq + 1
        <4>1. nreq + 1 \in Msg
          BY <1>1, <2>1 DEF Fetch, Msg
        <4>2. QED BY <1>1, <2>1, <4>1, AppendFacts DEF Fetch
      <3>2. QED BY <1>1, <3>1
    <2>2. CASE SendDone
      BY <2>2 DEF SendDone
    <2>3. QED BY <2>1, <2>2
  <1>3. UNCHANGED <<RequestsInMemory, RepliesInMemory, delivered>>
    BY DEF RequestsInMemory, RepliesInMemory, Fetch, SendDone, svars
  <1>4. QED BY <1>2, <1>3 DEF Channel!vars

\* The exchange implements RpcChannel, for every mem_num and every bound: read
\* through the memory of the buffers, which is never read late or overwritten
\* early, requests and answers are FIFO and each is handed over once.
THEOREM Refinement == Spec => ImplementsRpcChannel
  <1>1. Init => UnsentInOrder /\ Channel!Init
    <2> SUFFICES ASSUME Init PROVE UnsentInOrder /\ Channel!Init
      OBVIOUS
    <2>1. UnsentInOrder
      BY DEF Init, UnsentInOrder
    <2>2. RequestsInMemory = <<>> /\ RepliesInMemory = <<>>
      <3>1. /\ spc # "recv" /\ cpc # "recv"
            /\ scq = <<>> /\ c2s = <<>> /\ ccq = <<>> /\ s2c = <<>>
        BY DEF Init
      <3>2. /\ InMemory(srecv, <<>>) = <<>> /\ InMemory(csend, <<>>) = <<>>
            /\ InMemory(crecv, <<>>) = <<>> /\ InMemory(ssend, <<>>) = <<>>
        BY DEF InMemory
      <3>3. (<<>> \o <<>>) \o <<>> = <<>>
        <4>1. <<>> \in Seq(Msg)
          OBVIOUS
        <4>2. QED BY <4>1, CatEmpty
      <3>4. QED BY <3>1, <3>2, <3>3 DEF RequestsInMemory, RepliesInMemory
    <2>3. nreq - Len(unsent) = 0 /\ delivered = <<>>
      <3>1. nreq = 0 /\ unsent = <<>> /\ delivered = <<>>
        BY DEF Init
      <3>2. nreq = 0 /\ Len(unsent) = 0
        BY <3>1
      <3>3. nreq - Len(unsent) = 0
        BY <3>2
      <3>4. QED BY <3>1, <3>3
    <2>4. QED BY <2>1, <2>2, <2>3 DEF Channel!Init
  <1>2. IInv /\ UnsentInOrder /\ [Next]_vars => UnsentInOrder'
    BY NextUnsentInOrder DEF IInv
  <1>3. IInv /\ UnsentInOrder /\ [Next]_vars => [Channel!Next]_(Channel!vars)
    <2> SUFFICES ASSUME IInv, UnsentInOrder, [Next]_vars
                 PROVE  [Channel!Next]_(Channel!vars)
      OBVIOUS
    <2>1. CASE SendRequest
      BY <2>1, SendRequestIssues DEF Channel!Next
    <2>2. CASE ServerReply
      BY <2>2, ServerReplyServes DEF Channel!Next
    <2>3. CASE ServerDrop \/ ServerLeak
      BY <2>3, ServerDropIgnores DEF Channel!Next
    <2>4. CASE ClientRecv
      BY <2>4, ClientRecvHandsOver DEF Channel!Next
    <2>5. CASE ClientPoll \/ ServerPoll
      BY <2>5, PollsStutter
    <2>6. CASE DeliverToServer \/ DeliverToClient
      BY <2>6, DeliveriesStutter
    <2>7. CASE Fetch \/ SendDone
      BY <2>7, LoopStepsStutter
    <2>8. CASE UNCHANGED vars
      BY <2>8 DEF vars, cvars, svars, Channel!vars, RequestsInMemory,
         RepliesInMemory
    <2>9. QED
      BY <2>1, <2>2, <2>3, <2>4, <2>5, <2>6, <2>7, <2>8 DEF Next
  <1>4. QED
    BY <1>1, <1>2, <1>3, Invariance, PTL DEF Spec, ImplementsRpcChannel,
       Channel!Spec

-----------------------------------------------------------------------------
(* Before the traffic: the handshake that makes the connection.                *)

\* What travels over TCP.
Units == {"i", "k", "eof"}

Has(x, q) == \E i \in 1 .. Len(q) : q[i] = x

\* A unit of a stream may be at position p: an RdmaExchangeInfo first, and
\* kHandshakeCompleteMsg behind it.
Fits(p, x) == (x = "i" => p <= InfoLen) /\ (x = "k" => p > InfoLen)

\* q is in its place behind the first a units of a stream.
Placed(a, q) == \A i \in 1 .. Len(q) : Fits(a + i, q[i])

\* Nothing is behind the end of the stream.
EofLast(q) == \A i \in 1 .. Len(q) : q[i] = "eof" => i = Len(q)

\* What a concatenation holds.
CatOf(q, r, c) ==
  /\ c \in Seq(Units) /\ Len(c) = Len(q) + Len(r)
  /\ \A x : Has(x, c) <=> Has(x, q) \/ Has(x, r)
  /\ \A a \in Nat : Placed(a, c) <=> Placed(a, q) /\ Placed(a + Len(q), r)
  /\ EofLast(c) => EofLast(r)
  /\ ~Has("eof", q) /\ EofLast(r) => EofLast(c)

LEMMA CatUnits ==
  ASSUME NEW q \in Seq(Units), NEW r \in Seq(Units)
  PROVE  CatOf(q, r, q \o r)
<1> DEFINE c == q \o r
<1>1. /\ c \in Seq(Units) /\ Len(c) = Len(q) + Len(r)
      /\ \A i \in 1 .. Len(q) : c[i] = q[i]
      /\ \A i \in 1 .. Len(r) : c[Len(q) + i] = r[i]
      /\ Len(q) \in Nat /\ Len(r) \in Nat
  OBVIOUS
<1> HIDE DEF c
<1>0. ASSUME NEW i \in 1 .. Len(c), ~(i \in 1 .. Len(q))
      PROVE  /\ i - Len(q) \in 1 .. Len(r) /\ Len(q) + (i - Len(q)) = i
             /\ c[i] = r[i - Len(q)]
  <2>1. i - Len(q) \in 1 .. Len(r) /\ Len(q) + (i - Len(q)) = i
    BY <1>0, <1>1
  <2>2. c[Len(q) + (i - Len(q))] = r[i - Len(q)]
    BY <1>1, <2>1
  <2> QED
    BY <2>1, <2>2
<1>9. /\ \A i \in 1 .. Len(q) : i \in 1 .. Len(c)
      /\ \A i \in 1 .. Len(r) : Len(q) + i \in 1 .. Len(c)
  BY <1>1
<1>2. ASSUME NEW x PROVE Has(x, c) <=> Has(x, q) \/ Has(x, r)
  <2>1. ASSUME Has(x, c) PROVE Has(x, q) \/ Has(x, r)
    <3>1. PICK i \in 1 .. Len(c) : c[i] = x
      BY <2>1 DEF Has
    <3>2. CASE i \in 1 .. Len(q)
      BY <1>1, <3>1, <3>2 DEF Has
    <3>3. CASE ~(i \in 1 .. Len(q))
      <4>1. i - Len(q) \in 1 .. Len(r) /\ r[i - Len(q)] = x
        BY <1>0, <3>1, <3>3
      <4> QED
        BY <4>1, Zenon DEF Has
    <3> QED
      BY <3>2, <3>3
  <2>2. ASSUME Has(x, q) PROVE Has(x, c)
    BY <1>1, <1>9, <2>2, Zenon DEF Has
  <2>3. ASSUME Has(x, r) PROVE Has(x, c)
    BY <1>1, <1>9, <2>3, Zenon DEF Has
  <2> QED
    BY <2>1, <2>2, <2>3
<1>3. ASSUME NEW a \in Nat
      PROVE  Placed(a, c) <=> Placed(a, q) /\ Placed(a + Len(q), r)
  <2>1. ASSUME Placed(a, c) PROVE Placed(a, q)
    BY <1>1, <1>9, <2>1, Zenon DEF Placed
  <2>2. ASSUME Placed(a, c) PROVE Placed(a + Len(q), r)
    <3> SUFFICES ASSUME NEW i \in 1 .. Len(r) PROVE Fits(a + Len(q) + i, r[i])
      BY DEF Placed
    <3>1. Fits(a + (Len(q) + i), c[Len(q) + i])
      BY <1>9, <2>2 DEF Placed
    <3>2. a + (Len(q) + i) = a + Len(q) + i /\ c[Len(q) + i] = r[i]
      BY <1>1
    <3> QED
      BY <3>1, <3>2
  <2>3. ASSUME Placed(a, q), Placed(a + Len(q), r) PROVE Placed(a, c)
    <3> SUFFICES ASSUME NEW i \in 1 .. Len(c) PROVE Fits(a + i, c[i])
      BY DEF Placed
    <3>1. CASE i \in 1 .. Len(q)
      <4>1. c[i] = q[i] /\ Fits(a + i, q[i])
        BY <1>1, <2>3, <3>1 DEF Placed
      <4> QED
        BY <4>1
    <3>2. CASE ~(i \in 1 .. Len(q))
      <4> DEFINE j == i - Len(q)
      <4>1. j \in 1 .. Len(r) /\ Len(q) + j = i /\ c[i] = r[j]
        BY <1>0, <3>2
      <4>3. a + Len(q) + j = a + i
        BY <1>1, <4>1
      <4> HIDE DEF j
      <4>2. Fits(a + Len(q) + j, r[j])
        BY <2>3, <4>1, Zenon DEF Placed
      <4> QED
        BY <4>1, <4>2, <4>3
    <3> QED
      BY <3>1, <3>2
  <2> QED
    BY <2>1, <2>2, <2>3
<1>4. ASSUME EofLast(c) PROVE EofLast(r)
  <2> SUFFICES ASSUME NEW i \in 1 .. Len(r), r[i] = "eof" PROVE i = Len(r)
    BY DEF EofLast
  <2>1. Len(q) + i \in 1 .. Len(c) /\ c[Len(q) + i] = "eof"
    BY <1>1, <1>9
  <2>2. Len(q) + i = Len(c)
    BY <1>4, <2>1, Zenon DEF EofLast
  <2> QED
    BY <1>1, <2>2
<1>5. ASSUME ~Has("eof", q), EofLast(r) PROVE EofLast(c)
  <2> SUFFICES ASSUME NEW i \in 1 .. Len(c), c[i] = "eof" PROVE i = Len(c)
    BY DEF EofLast
  <2>1. ~(i \in 1 .. Len(q))
    BY <1>1, <1>5 DEF Has
  <2>2. i - Len(q) \in 1 .. Len(r) /\ r[i - Len(q)] = "eof"
    BY <1>0, <2>1
  <2>3. i - Len(q) = Len(r)
    BY <1>5, <2>2, Zenon DEF EofLast
  <2> QED
    BY <1>1, <2>3
<1> QED
  BY <1>1, <1>2, <1>3, <1>4, <1>5 DEF CatOf, c

\* The first n units of q are u, the others v.
CutOf(q, n, u, v) ==
  /\ u \in Seq(Units) /\ v \in Seq(Units) /\ Len(u) = n /\ Len(v) = Len(q) - n
  /\ \A x : Has(x, q) <=> Has(x, u) \/ Has(x, v)
  /\ \A a \in Nat : Placed(a, q) <=> Placed(a, u) /\ Placed(a + n, v)
  /\ EofLast(q) => EofLast(v)

LEMMA CutUnits ==
  ASSUME NEW q \in Seq(Units), NEW n \in Nat, n <= Len(q)
  PROVE  CutOf(q, n, SubSeq(q, 1, n), SubSeq(q, n + 1, Len(q)))
<1> DEFINE u == SubSeq(q, 1, n)
           v == SubSeq(q, n + 1, Len(q))
<1>1. Len(q) \in Nat /\ \A i \in 1 .. Len(q) : q[i] \in Units
  OBVIOUS
<1>2. u \in Seq(Units) /\ Len(u) = n /\ \A i \in 1 .. n : u[i] = q[i]
  OBVIOUS
<1>3. /\ v \in Seq(Units) /\ Len(v) = Len(q) - n
      /\ \A i \in 1 .. Len(q) - n : v[i] = q[n + i]
  BY <1>1
<1> HIDE DEF u, v
<1>4. CatOf(u, v, u \o v)
  BY <1>2, <1>3, CatUnits
<1>5. u \o v = q
  <2> DEFINE c == u \o v
  <2>1. /\ c \in Seq(Units) /\ Len(c) = Len(q)
        /\ \A i \in 1 .. n : c[i] = u[i]
        /\ \A i \in 1 .. Len(q) - n : c[n + i] = v[i]
    BY <1>1, <1>2, <1>3
  <2> HIDE DEF c
  <2>2. ASSUME NEW i \in 1 .. Len(q) PROVE c[i] = q[i]
    <3>1. CASE i <= n
      BY <1>1, <1>2, <2>1, <3>1
    <3>2. CASE i > n
      <4> DEFINE j == i - n
      <4>1. j \in 1 .. Len(q) - n /\ n + j = i
        BY <1>1, <3>2
      <4> HIDE DEF j
      <4>2. c[n + j] = v[j] /\ v[j] = q[n + j]
        BY <1>3, <2>1, <4>1
      <4> QED
        BY <4>1, <4>2
    <3> QED
      BY <1>1, <3>1, <3>2
  <2>3. c = q
    BY <2>1, <2>2
  <2> QED
    BY <2>3 DEF c
<1> QED
  BY <1>2, <1>3, <1>4, <1>5 DEF u, v, CatOf, CutOf

\* Nothing, a single unit, and a whole RdmaExchangeInfo.
LEMMA FewUnits ==
  /\ <<>> \in Seq(Units) /\ Len(<<>>) = 0 /\ EofLast(<<>>)
  /\ \A x : ~Has(x, <<>>)
  /\ \A a \in Nat : Placed(a, <<>>)
  /\ <<"eof">> \in Seq(Units) /\ Len(<<"eof">>) = 1 /\ EofLast(<<"eof">>)
  /\ \A x : Has(x, <<"eof">>) <=> x = "eof"
  /\ \A a \in Nat : Placed(a, <<"eof">>)
  /\ <<"k">> \in Seq(Units) /\ Len(<<"k">>) = 1
  /\ \A x : Has(x, <<"k">>) <=> x = "k"
  /\ \A a \in Nat : InfoLen \in Nat => (Placed(a, <<"k">>) <=> a + 1 > InfoLen)
<1>1. /\ <<>> \in Seq(Units) /\ Len(<<>>) = 0 /\ EofLast(<<>>)
      /\ \A x : ~Has(x, <<>>)
      /\ \A a \in Nat : Placed(a, <<>>)
  BY DEF Has, Placed, EofLast
<1>2. ASSUME NEW y \in Units
      PROVE  /\ <<y>> \in Seq(Units) /\ Len(<<y>>) = 1 /\ <<y>>[1] = y
             /\ \A i \in 1 .. Len(<<y>>) : i = 1
             /\ EofLast(<<y>>)
             /\ \A x : Has(x, <<y>>) <=> x = y
             /\ \A a \in Nat : Placed(a, <<y>>) <=> Fits(a + 1, y)
  <2> DEFINE q == <<y>>
  <2>1. q \in Seq(Units) /\ Len(q) = 1 /\ q[1] = y /\ 1 .. Len(q) = {1}
    OBVIOUS
  <2> HIDE DEF q
  <2>2. EofLast(q) /\ (\A x : Has(x, q) <=> x = y)
    BY <2>1 DEF EofLast, Has
  <2>3. \A a \in Nat : Placed(a, q) <=> Fits(a + 1, y)
    BY <2>1, Zenon DEF Placed
  <2> QED
    BY <2>1, <2>2, <2>3 DEF q
<1>3. "eof" \in Units /\ "k" \in Units
  BY DEF Units
<1>4. \A a \in Nat : Fits(a + 1, "eof")
  BY DEF Fits
<1>5. \A a \in Nat : Fits(a + 1, "k") <=> a + 1 > InfoLen
  BY DEF Fits
<1> HIDE <1>2
<1>6. /\ <<"eof">> \in Seq(Units) /\ Len(<<"eof">>) = 1 /\ EofLast(<<"eof">>)
      /\ \A x : Has(x, <<"eof">>) <=> x = "eof"
      /\ \A a \in Nat : Placed(a, <<"eof">>)
  BY <1>2, <1>3, <1>4, Zenon
<1>7. /\ <<"k">> \in Seq(Units) /\ Len(<<"k">>) = 1
      /\ \A x : Has(x, <<"k">>) <=> x = "k"
      /\ \A a \in Nat : Placed(a, <<"k">>) <=> a + 1 > InfoLen
  BY <1>2, <1>3, <1>5, Zenon
<1> QED
  BY <1>1, <1>6, <1>7

LEMMA InfoUnits ==
  ASSUME InfoLen \in Nat
  PROVE  /\ Info \in Seq(Units) /\ Len(Info) = InfoLen /\ Placed(0, Info)
         /\ \A x : Has(x, Info) => x = "i"
<1>1. "i" \in Units
  BY DEF Units
<1>2. /\ Info \in Seq(Units) /\ Len(Info) = InfoLen
      /\ \A i \in 1 .. InfoLen : Info[i] = "i"
  BY <1>1 DEF Info
<1>3. Placed(0, Info)
  BY <1>2 DEF Placed, Fits
<1> QED
  BY <1>2, <1>3, Zenon DEF Has

\* The end of the stream comes next and nothing is behind it.
LEMMA EofNext ==
  ASSUME NEW q \in Seq(Units), q # <<>>, Head(q) = "eof"
  PROVE  Has("eof", q) /\ (EofLast(q) => Len(q) = 1)
<1>1. Len(q) \in Nat /\ Len(q) >= 1 /\ q[1] = "eof" /\ 1 \in 1 .. Len(q)
  OBVIOUS
<1> QED
  BY <1>1 DEF Has, EofLast

\* A sequence without an end of the stream.
LEMMA NoEofLast ==
  ASSUME NEW q, ~Has("eof", q)
  PROVE  EofLast(q)
  BY DEF Has, EofLast

HandshakeTypes ==
  /\ tcp \in [Side -> {"none", "connected", "disconnecting", "disconnected",
                         "destroyed"}]
  /\ state \in [Side -> {"notInit", "init", "rts", "connected"}]
  /\ qp \in [Side -> {"none", "init", "rts", "up"}]
  /\ pc \in [Side -> {"loop", "message", "register", "send"}]
  /\ wire \in [Side -> Seq(Units)] /\ input \in [Side -> Seq(Units)]
  /\ output \in [Side -> Seq(Units)]
  /\ called \in [Side -> Nat] /\ nfault \in Nat

\* TcpConnector and Acceptor make one connection on each side.
Network ==
  /\ connector \in {"idle", "disconnected", "failed"} => sock = "none"
  /\ connector = "connecting" => sock \in {"syn", "refused", "established"}
  /\ tcp["client"] = "none" <=> connector # "connected"
  /\ sock # "established" => ~backlog /\ tcp["server"] = "none"
  /\ backlog => tcp["server"] = "none"

\* How far a side is: a loop that is not in handshakeQp has used up what it
\* was sent.
Control(s) ==
  /\ pc[s] # "loop" => tcp[s] = "connected"
  /\ pc[s] \in {"register", "send"} => state[s] = "rts"
  /\ pc[s] # "register" /\ state[s] = "rts" => qp[s] = "up"
  /\ state[s] = "connected" => qp[s] = "up"
  /\ state[s] \in {"notInit", "init"} => qp[s] # "up"
  /\ tcp[s] \in {"disconnected", "destroyed"} => output[s] = <<>>
  /\ tcp[s] = "none" =>
       state[s] = "notInit" /\ input[s] = <<>> /\ output[s] = <<>>
  /\ tcp[s] = "connected" => state[s] \in {"init", "rts"}
  /\ called[s] = IF state[s] = "connected" THEN 1 ELSE 0
  /\ tcp[s] = "connected" /\ pc[s] = "loop" =>
       /\ state[s] = "init" => Len(input[s]) < InfoLen
       /\ state[s] = "rts" => input[s] = <<>>
  /\ ~Has("eof", input[s]) /\ ~Has("eof", output[s])

\* A side that may still go on with the handshake.
Open(s) == tcp[s] \in {"none", "connected"}

\* Units a side has taken out of its input buffer.
Used(s) ==
  IF state[s] = "connected" THEN InfoLen + 1
  ELSE IF state[s] = "rts" THEN InfoLen ELSE 0

\* Units of the stream from s to o that are used or still somewhere.
Length(s, o) == Used(o) + Len(input[o]) + Len(wire[o]) + Len(output[s])

\* Units a connected side has given to send().
SentBy(s) ==
  IF state[s] = "rts" /\ pc[s] \notin {"register", "send"} THEN InfoLen + 1
  ELSE InfoLen

\* The stream from s to o: its units are in their places, nothing is lost
\* before s shuts down, and kHandshakeCompleteMsg says that s is up.
Sends(s, o) ==
  /\ Open(o) =>
       /\ Placed(Used(o), input[o]) /\ Placed(Used(o) + Len(input[o]), wire[o])
       /\ Placed(Used(o) + Len(input[o]) + Len(wire[o]), output[s])
  /\ Has("k", input[o]) \/ Has("k", wire[o]) \/ Has("k", output[s])
       \/ state[o] = "connected" => qp[s] = "up"
  /\ tcp[s] = "none" => input[o] = <<>> /\ wire[o] = <<>> /\ Used(o) = 0
  /\ tcp[s] = "connected" =>
       /\ ~Has("eof", wire[o])
       /\ Open(o) => Length(s, o) = SentBy(s)

\* Without a failure a side only shuts down when it is done, and the other
\* side then has, or gets, all it needs.
Faultless(s, o) ==
  nfault = 0 =>
    /\ ~Open(s) => state[s] = "connected"
    /\ tcp[s] \in {"disconnected", "destroyed"} => state[o] = "connected"
    /\ ~Open(s) /\ Open(o) =>
         /\ Length(s, o) = InfoLen + 1 + (IF output[s] = <<>> THEN 1 ELSE 0)
         /\ output[s] # <<>> => ~Has("eof", wire[o])
         /\ EofLast(wire[o])

SideInv(s, o) == Control(s) /\ Sends(s, o) /\ Faultless(s, o)

HandshakeInv ==
  /\ HandshakeTypes /\ Network
  /\ \A s \in Side : SideInv(s, Other(s))

LEMMA TwoSides ==
  ASSUME NEW s \in Side
  PROVE  /\ Other(s) \in Side /\ Other(s) # s /\ Other(Other(s)) = s
         /\ \A x \in Side : x = s \/ x = Other(s)
         /\ s \in {"client", "server"}
  BY DEF Side, Other

\* What a side has.
Has1(s) ==
  /\ tcp[s] \in {"none", "connected", "disconnecting", "disconnected", "destroyed"}
  /\ state[s] \in {"notInit", "init", "rts", "connected"}
  /\ qp[s] \in {"none", "init", "rts", "up"}
  /\ pc[s] \in {"loop", "message", "register", "send"}
  /\ wire[s] \in Seq(Units) /\ input[s] \in Seq(Units) /\ output[s] \in Seq(Units)
  /\ Len(wire[s]) \in Nat /\ Len(input[s]) \in Nat /\ Len(output[s]) \in Nat
  /\ called[s] \in Nat /\ Used(s) \in Nat

LEMMA InvParts ==
  ASSUME HandshakeInv, NEW s \in Side
  PROVE  /\ InfoLen \in Nat \ {0} /\ MaxFault \in Nat /\ HandshakeTypes /\ Network
         /\ SideInv(s, Other(s)) /\ SideInv(Other(s), s)
         /\ Has1(s) /\ Has1(Other(s)) /\ nfault \in Nat
<1>1. /\ Other(s) \in Side /\ Other(Other(s)) = s
  BY TwoSides
<1>2. /\ InfoLen \in Nat \ {0} /\ MaxFault \in Nat /\ HandshakeTypes /\ Network
      /\ nfault \in Nat
  BY HandshakeAssumption DEF HandshakeInv, HandshakeTypes
<1>3. SideInv(s, Other(s)) /\ SideInv(Other(s), s)
  <2>1. SideInv(Other(s), Other(Other(s)))
    BY <1>1 DEF HandshakeInv
  <2> QED
    BY <1>1, <2>1 DEF HandshakeInv
<1>4. \A x \in Side : Has1(x)
  <2> SUFFICES ASSUME NEW x \in Side PROVE Has1(x)
    OBVIOUS
  <2>1. wire[x] \in Seq(Units) /\ input[x] \in Seq(Units) /\ output[x] \in Seq(Units)
    BY <1>2 DEF HandshakeTypes
  <2>2. Len(wire[x]) \in Nat /\ Len(input[x]) \in Nat /\ Len(output[x]) \in Nat
    BY <2>1
  <2> QED
    BY <1>2, <2>1, <2>2 DEF HandshakeTypes, Has1, Used
<1> QED
  BY <1>1, <1>2, <1>3, <1>4

LEMMA InvNext ==
  ASSUME NEW s \in Side, HandshakeTypes', Network',
         SideInv(s, Other(s))', SideInv(Other(s), s)'
  PROVE  HandshakeInv'
<1>1. ASSUME NEW x \in Side PROVE SideInv(x, Other(x))'
  <2>1. x = s \/ (x = Other(s) /\ Other(x) = s)
    BY TwoSides
  <2> QED
    BY <2>1
<1> QED
  BY <1>1 DEF HandshakeInv

LEMMA HandshakeStarts == HsInit => HandshakeInv
<1> SUFFICES ASSUME HsInit PROVE HandshakeInv
  OBVIOUS
<1>1. InfoLen \in Nat \ {0}
  BY HandshakeAssumption
<1>2. HandshakeTypes
  BY FewUnits DEF HandshakeTypes, HsInit
<1>3. Network
  BY DEF Network, HsInit, Side
<1>4. ASSUME NEW s \in Side PROVE SideInv(s, Other(s))
  <2> DEFINE o == Other(s)
  <2>1. o \in Side
    BY TwoSides
  <2> HIDE DEF o
  <2>2. \A x \in Side : /\ tcp[x] = "none" /\ state[x] = "notInit" /\ pc[x] = "loop"
                          /\ wire[x] = <<>> /\ input[x] = <<>> /\ output[x] = <<>>
                          /\ called[x] = 0 /\ Used(x) = 0 /\ qp[x] = "none"
    BY DEF HsInit, Used
  <2>3. /\ Len(<<>>) = 0 /\ (\A x : ~Has(x, <<>>)) /\ Placed(0, <<>>)
        /\ 0 + 0 = 0 /\ 0 + 0 + 0 = 0
    BY FewUnits
  <2>4. Control(s)
    BY <2>2, <2>3 DEF Control
  <2>5. Sends(s, o)
    BY <2>1, <2>2, <2>3 DEF Sends
  <2>6. Faultless(s, o)
    BY <2>2 DEF Faultless, Open
  <2> QED
    BY <2>4, <2>5, <2>6 DEF SideInv, o
<1> QED
  BY <1>2, <1>3, <1>4 DEF HandshakeInv

-----------------------------------------------------------------------------
(* The steps of the handshake, one by one. *)

\* Nothing but the network, or a failure.
LEMMA NetworkKeeps ==
  ASSUME HandshakeInv, Network', nfault' \in Nat, nfault' = 0 => nfault = 0,
         UNCHANGED <<tcp, state, qp, wire, input, output, pc, called>>
  PROVE  HandshakeInv'
<1>1. ASSUME NEW s \in Side PROVE SideInv(s, Other(s))'
  <2>1. SideInv(s, Other(s))
    BY DEF HandshakeInv
  <2>2. Control(s)'
    BY <2>1 DEF SideInv, Control
  <2>3. Sends(s, Other(s))'
    BY <2>1 DEF SideInv, Sends, Open, Used, Length, SentBy
  <2>4. Faultless(s, Other(s))'
    BY <2>1 DEF SideInv, Faultless, Open, Used, Length
  <2> QED
    BY <2>2, <2>3, <2>4 DEF SideInv
<1>2. HandshakeTypes'
  BY DEF HandshakeInv, HandshakeTypes
<1> QED
  BY <1>1, <1>2 DEF HandshakeInv

LEMMA ListenKeeps ==
  ASSUME HandshakeInv, Listen PROVE HandshakeInv'
<1>1. UNCHANGED <<connector, sock, backlog, tcp, state, qp, wire, input, output,
                  pc, called, nfault>>
  BY DEF Listen
<1>2. Network' /\ nfault' \in Nat
  BY <1>1 DEF HandshakeInv, Network, HandshakeTypes
<1> QED
  BY <1>1, <1>2, NetworkKeeps

LEMMA StartKeeps ==
  ASSUME HandshakeInv, StartInLoop PROVE HandshakeInv'
<1>1. /\ UNCHANGED <<backlog, tcp, state, qp, wire, input, output, pc, called>>
      /\ connector \in {"idle", "disconnected"}
      /\ \/ connector' = "connecting" /\ sock' = "syn"
         \/ connector' \in {"disconnected", "failed"} /\ sock' = sock
      /\ nfault' = nfault \/ nfault' = nfault + 1
  BY DEF StartInLoop, Retry
<1>2. Network' /\ nfault' \in Nat /\ (nfault' = 0 => nfault = 0)
  BY <1>1 DEF HandshakeInv, Network, HandshakeTypes
<1> QED
  BY <1>1, <1>2, NetworkKeeps

LEMMA KernelKeeps ==
  ASSUME HandshakeInv, KernelAnswer PROVE HandshakeInv'
<1>1. /\ UNCHANGED <<connector, tcp, state, qp, wire, input, output, pc, called,
                     nfault>>
      /\ sock = "syn"
      /\ \/ sock' = "established"
         \/ sock' = "refused" /\ backlog' = backlog
  BY DEF KernelAnswer
<1>2. Network' /\ nfault' \in Nat
  BY <1>1 DEF HandshakeInv, Network, HandshakeTypes
<1> QED
  BY <1>1, <1>2, NetworkKeeps

\* connectEstablished and initialRdmaResource.
LEMMA ResourceKeeps ==
  ASSUME HandshakeInv, NEW s \in Side, tcp[s] = "none",
         InitialRdmaResource(s), UNCHANGED <<input, pc, called>>, Network'
  PROVE  HandshakeInv'
<1> DEFINE o == Other(s)
<1>0. o \in Side /\ o # s /\ s # o
  BY TwoSides
<1>1. /\ InfoLen \in Nat \ {0} /\ HandshakeTypes /\ SideInv(s, o) /\ SideInv(o, s)
      /\ Has1(s) /\ Has1(o) /\ nfault \in Nat
  BY InvParts DEF HandshakeInv
<1>2. /\ state[s] = "notInit" /\ input[s] = <<>> /\ output[s] = <<>> /\ pc[s] = "loop"
      /\ input[o] = <<>> /\ wire[o] = <<>> /\ Used(o) = 0 /\ state[o] # "connected"
  <2>1. /\ state[s] = "notInit" /\ input[s] = <<>> /\ output[s] = <<>> /\ pc[s] = "loop"
        /\ input[o] = <<>> /\ wire[o] = <<>> /\ Used(o) = 0
    BY <1>1 DEF SideInv, Control, Sends, Has1
  <2> QED
    BY <1>1, <2>1 DEF Used
<1>3. /\ nfault' \in Nat /\ (nfault' = 0 => nfault = 0)
      /\ qp' \in [Side -> {"none", "init", "rts", "up"}] /\ qp'[o] = qp[o]
      /\ qp'[s] # "init" => nfault' # 0
      /\ qp'[s] # "up"
  <2>0. qp[s] # "up"
    BY <1>1, <1>2 DEF SideInv, Control
  <2>1. \/ qp' = [qp EXCEPT ![s] = "init"] /\ nfault' = nfault
        \/ nfault' = nfault + 1 /\ qp' = qp
    BY DEF InitialRdmaResource, Create
  <2>2. qp \in [Side -> {"none", "init", "rts", "up"}]
    BY <1>1 DEF HandshakeTypes
  <2> QED
    BY <1>0, <1>1, <2>0, <2>1, <2>2
<1>4. tcp' \in [Side -> {"none", "connected", "disconnecting", "disconnected",
                           "destroyed"}] /\ tcp'[o] = tcp[o]
  <2>1. tcp' = [tcp EXCEPT ![s] = "connected"]
          \/ tcp' = [tcp EXCEPT ![s] = "disconnecting"]
    BY DEF InitialRdmaResource, Shutdown
  <2> QED
    BY <1>0, <1>1, <2>1 DEF HandshakeTypes
<1>8. /\ Len(<<>>) = 0 /\ (\A x : ~Has(x, <<>>)) /\ Placed(0, <<>>)
      /\ <<>> \in Seq(Units)
  BY FewUnits
<1>5. CASE qp'[s] = "init"
  <2>1. /\ tcp' = [tcp EXCEPT ![s] = "connected"]
        /\ state' = [state EXCEPT ![s] = "init"]
        /\ \E n \in 0 .. Len(Info) :
             /\ wire' = [wire EXCEPT ![o] = @ \o SubSeq(Info, 1, n)]
             /\ output' = [output EXCEPT ![s] = SubSeq(Info, n + 1, Len(Info))]
    BY <1>2, <1>5 DEF InitialRdmaResource, SendInLoop
  <2>2. PICK n \in 0 .. Len(Info) :
             /\ wire' = [wire EXCEPT ![o] = @ \o SubSeq(Info, 1, n)]
             /\ output' = [output EXCEPT ![s] = SubSeq(Info, n + 1, Len(Info))]
    BY <2>1
  <2> DEFINE u == SubSeq(Info, 1, n)
             v == SubSeq(Info, n + 1, Len(Info))
  <2>3. /\ Info \in Seq(Units) /\ Len(Info) = InfoLen /\ Placed(0, Info)
        /\ \A x : Has(x, Info) => x = "i"
    BY <1>1, InfoUnits
  <2>4. CutOf(Info, n, u, v)
    BY <2>3, CutUnits
  <2>5. /\ wire' = [wire EXCEPT ![o] = @ \o u] /\ output' = [output EXCEPT ![s] = v]
    BY <2>2
  <2> HIDE DEF u, v, o
  <2>6. /\ u \in Seq(Units) /\ v \in Seq(Units) /\ Len(u) + Len(v) = InfoLen
        /\ Len(u) = n /\ n \in Nat
        /\ Placed(0, u) /\ Placed(n, v)
        /\ ~Has("eof", u) /\ ~Has("eof", v) /\ ~Has("k", u) /\ ~Has("k", v)
    <3>1. Placed(0 + n, v) /\ Placed(0, u)
      BY <2>3, <2>4 DEF CutOf
    <3>2. 0 + n = n /\ n \in Nat
      BY <1>1, <2>3
    <3>3. u \in Seq(Units) /\ v \in Seq(Units) /\ Len(u) = n /\ Len(v) = InfoLen - n
      BY <2>3, <2>4 DEF CutOf
    <3>4. \A x : Has(x, u) \/ Has(x, v) => x = "i"
      BY <2>3, <2>4 DEF CutOf
    <3>5. Len(u) + Len(v) = InfoLen
      BY <1>1, <3>2, <3>3
    <3> QED
      BY <3>1, <3>2, <3>3, <3>4, <3>5
  <2>7. /\ wire'[o] = u /\ wire'[s] = wire[s] /\ output'[s] = v /\ output'[o] = output[o]
        /\ tcp'[s] = "connected" /\ state'[s] = "init" /\ state'[o] = state[o]
        /\ input' = input /\ pc' = pc /\ called' = called
        /\ wire' \in [Side -> Seq(Units)] /\ output' \in [Side -> Seq(Units)]
        /\ state' \in [Side -> {"notInit", "init", "rts", "connected"}]
    <3>1. <<>> \o u = u
      BY <2>6
    <3>2. wire \in [Side -> Seq(Units)] /\ output \in [Side -> Seq(Units)]
          /\ state \in [Side -> {"notInit", "init", "rts", "connected"}]
          /\ tcp \in [Side -> {"none", "connected", "disconnecting",
                                 "disconnected", "destroyed"}]
      BY <1>1 DEF HandshakeTypes
    <3>3. wire' = [wire EXCEPT ![o] = u]
      BY <1>2, <2>5, <3>1
    <3>4. /\ wire'[o] = u /\ wire'[s] = wire[s] /\ output'[s] = v
          /\ output'[o] = output[o]
          /\ wire' \in [Side -> Seq(Units)] /\ output' \in [Side -> Seq(Units)]
      BY <1>0, <2>5, <2>6, <3>2, <3>3
    <3>5. /\ tcp'[s] = "connected" /\ state'[s] = "init" /\ state'[o] = state[o]
          /\ state' \in [Side -> {"notInit", "init", "rts", "connected"}]
      BY <1>0, <2>1, <3>2
    <3> QED
      BY <3>4, <3>5
  <2>8. HandshakeTypes'
    BY <1>1, <1>3, <1>4, <2>7 DEF HandshakeTypes
  <2>9. Used(s)' = 0 /\ Used(s) = 0 /\ Used(o)' = 0 /\ Used(o)' = Used(o)
    BY <1>2, <2>7 DEF Used
  <2>10. Control(s)'
    BY <1>1, <1>2, <1>3, <1>8, <2>6, <2>7 DEF SideInv, Control
  <2>11. Sends(s, o)'
    <3>1. 0 + 0 = 0 /\ 0 + 0 + n = n /\ 0 + 0 + Len(u) + Len(v) = InfoLen
      BY <2>6
    <3> QED
      BY <1>2, <1>8, <2>6, <2>7, <2>9, <3>1 DEF Sends, Length, SentBy
  <2>12. Faultless(s, o)'
    BY <2>7 DEF Faultless, Open
  <2>13. Control(o)'
    BY <1>1, <1>3, <1>4, <2>7 DEF SideInv, Control
  <2>14. Sends(o, s)'
    <3>1. Open(s) /\ Open(s)' /\ state[s] # "connected" /\ state'[s] # "connected"
      BY <1>2, <2>7 DEF Open
    <3>2. Length(o, s)' = Length(o, s) /\ SentBy(o)' = SentBy(o)
      BY <2>7, <2>9 DEF Length, SentBy
    <3> QED
      BY <1>1, <1>3, <1>4, <2>7, <2>9, <3>1, <3>2 DEF SideInv, Sends
  <2>15. Faultless(o, s)'
    BY <1>1, <1>2, <1>3, <1>4, <2>7, <2>9 DEF SideInv, Faultless, Open, Length
  <2> QED
    BY <1>1, <2>8, <2>10, <2>11, <2>12, <2>13, <2>14, <2>15, InvNext DEF SideInv, o
<1>6. CASE qp'[s] # "init"
  <2>1. /\ tcp' = [tcp EXCEPT ![s] = "disconnecting"]
        /\ state' = state /\ output' = output
        /\ wire' = [wire EXCEPT ![o] = Append(@, "eof")]
    BY <1>2, <1>6 DEF InitialRdmaResource, Shutdown, ShutdownInLoop
  <2> HIDE DEF o
  <2>7. /\ wire'[o] = <<"eof">> /\ wire'[s] = wire[s]
        /\ tcp'[s] = "disconnecting"
        /\ input' = input /\ pc' = pc /\ called' = called
        /\ wire' \in [Side -> Seq(Units)]
    BY <1>0, <1>1, <1>2, <2>1, FewUnits DEF HandshakeTypes
  <2>8. HandshakeTypes'
    BY <1>1, <1>3, <1>4, <2>1, <2>7 DEF HandshakeTypes
  <2>9. Used(s)' = Used(s) /\ Used(o)' = 0
    BY <1>2, <2>1 DEF Used
  <2>10. Control(s)'
    BY <1>1, <1>2, <1>3, <1>8, <2>1, <2>7 DEF SideInv, Control
  <2>11. Sends(s, o)'
    <3>1. /\ Placed(0, <<"eof">>) /\ Placed(1, <<>>) /\ Len(<<"eof">>) = 1
          /\ ~Has("k", <<"eof">>) /\ 0 + 0 = 0 /\ 0 + 0 + 1 = 1
      BY FewUnits
    <3>2. /\ output'[s] = <<>> /\ input'[o] = <<>> /\ state'[o] # "connected"
      BY <1>2, <2>1, <2>7
    <3> QED
      BY <1>8, <2>7, <2>9, <3>1, <3>2 DEF Sends
  <2>12. Faultless(s, o)' /\ Faultless(o, s)'
    BY <1>3, <1>6 DEF Faultless
  <2>13. Control(o)'
    BY <1>1, <1>3, <1>4, <2>1, <2>7 DEF SideInv, Control
  <2>14. Sends(o, s)'
    BY <1>1, <1>2, <1>3, <1>4, <2>1, <2>7, <2>9 DEF SideInv, Sends, Open
  <2> QED
    BY <1>1, <2>8, <2>10, <2>11, <2>12, <2>13, <2>14, InvNext DEF SideInv, o
<1> QED
  BY <1>5, <1>6

LEMMA ConnectorKeeps ==
  ASSUME HandshakeInv, ConnectorHandleWrite PROVE HandshakeInv'
<1>1. CASE sock = "refused" /\ connector' = "disconnected" /\ sock' = "none"
             /\ UNCHANGED <<tcp, qp, state, wire, output, nfault>>
  <2>1. /\ UNCHANGED <<backlog, tcp, state, qp, wire, input, output, pc, called, nfault>>
        /\ connector = "connecting"
    BY <1>1 DEF ConnectorHandleWrite
  <2>2. Network' /\ nfault' \in Nat
    BY <1>1, <2>1 DEF HandshakeInv, Network, HandshakeTypes
  <2> QED
    BY <2>1, <2>2, NetworkKeeps
<1>2. CASE sock = "established" /\ ClientNewConnection /\ sock' = sock
  <2>1. /\ connector = "connecting" /\ connector' = "connected"
        /\ backlog' = backlog /\ UNCHANGED <<input, pc, called>>
        /\ InitialRdmaResource("client") /\ "client" \in Side
        /\ "server" \in Side
    BY <1>2 DEF ConnectorHandleWrite, ClientNewConnection,
                ClientOnTcpConnection, Side
  <2>2. tcp["client"] = "none"
    BY <2>1 DEF HandshakeInv, Network
  <2>3. tcp'["client"] \in {"connected", "disconnecting"}
          /\ tcp'["server"] = tcp["server"]
    <3>1. tcp' = [tcp EXCEPT !["client"] = "connected"]
            \/ tcp' = [tcp EXCEPT !["client"] = "disconnecting"]
      BY <2>1 DEF InitialRdmaResource, Shutdown
    <3> QED
      BY <2>1, <3>1 DEF HandshakeInv, HandshakeTypes
  <2>4. Network'
    BY <1>2, <2>1, <2>3 DEF HandshakeInv, Network
  <2> QED
    BY <2>1, <2>2, <2>4, ResourceKeeps
<1> QED
  BY <1>1, <1>2 DEF ConnectorHandleWrite, Retry

LEMMA AcceptKeeps ==
  ASSUME HandshakeInv, Accept PROVE HandshakeInv'
<1>1. /\ backlog /\ backlog' = FALSE /\ UNCHANGED <<connector, sock, input, pc, called>>
      /\ InitialRdmaResource("server") /\ "client" \in Side
      /\ "server" \in Side
  BY DEF Accept, ServerNewConnection, ServerOnTcpConnection, Side
<1>2. tcp["server"] = "none" /\ sock = "established"
  BY <1>1 DEF HandshakeInv, Network
<1>3. tcp'["client"] = tcp["client"]
  <2>1. tcp' = [tcp EXCEPT !["server"] = "connected"]
          \/ tcp' = [tcp EXCEPT !["server"] = "disconnecting"]
    BY <1>1 DEF InitialRdmaResource, Shutdown
  <2> QED
    BY <1>1, <2>1 DEF HandshakeInv, HandshakeTypes
<1>4. Network'
  BY <1>1, <1>2, <1>3 DEF HandshakeInv, Network
<1> QED
  BY <1>1, <1>2, <1>4, ResourceKeeps

\* newRdmaConnectionCallback_.
LEMMA RegisterKeeps ==
  ASSUME HandshakeInv, NEW s \in Side, NewRdmaConnection(s)
  PROVE  HandshakeInv'
<1> DEFINE o == Other(s)
<1>0. o \in Side /\ o # s
  BY TwoSides
<1>1. /\ InfoLen \in Nat \ {0} /\ HandshakeTypes /\ SideInv(s, o) /\ SideInv(o, s)
      /\ Has1(s) /\ Has1(o) /\ Network
  BY InvParts DEF HandshakeInv
<1>2. /\ pc[s] = "register" /\ pc' = [pc EXCEPT ![s] = "send"]
      /\ qp' = [qp EXCEPT ![s] = "up"]
      /\ UNCHANGED <<connector, sock, backlog, tcp, state, wire, input, output,
                     called, nfault>>
  BY DEF NewRdmaConnection, ClientNewRdmaConnection, ServerNewRdmaConnection,
         ConnectEstablished, netvars
<1> HIDE DEF o
<1>3. /\ pc'[s] = "send" /\ pc'[o] = pc[o] /\ qp'[s] = "up" /\ qp'[o] = qp[o]
      /\ pc' \in [Side -> {"loop", "message", "register", "send"}]
      /\ qp' \in [Side -> {"none", "init", "rts", "up"}]
  BY <1>0, <1>1, <1>2 DEF HandshakeTypes
<1>4. HandshakeTypes' /\ Network'
  BY <1>1, <1>2, <1>3 DEF HandshakeTypes, Network
<1>5. Control(s)' /\ Control(o)'
  BY <1>1, <1>2, <1>3 DEF SideInv, Control
<1>6. Sends(s, o)' /\ Sends(o, s)'
  BY <1>1, <1>2, <1>3 DEF SideInv, Sends, Open, Used, Length, SentBy
<1>7. Faultless(s, o)' /\ Faultless(o, s)'
  BY <1>1, <1>2 DEF SideInv, Faultless, Open, Used, Length
<1> QED
  BY <1>1, <1>4, <1>5, <1>6, <1>7, InvNext DEF SideInv, o

\* sendInLoop puts a message behind what is on its way and what waits.
SentBehind(s, o, msg) ==
  /\ wire' \in [Side -> Seq(Units)] /\ output' \in [Side -> Seq(Units)]
  /\ wire'[s] = wire[s] /\ output'[o] = output[o]
  /\ Len(wire'[o]) + Len(output'[s]) = Len(wire[o]) + Len(output[s]) + Len(msg)
  /\ \A x : Has(x, wire'[o]) => Has(x, wire[o]) \/ Has(x, msg)
  /\ \A x : Has(x, output'[s]) => Has(x, output[s]) \/ Has(x, msg)
  /\ \A a \in Nat :
       Placed(a, wire[o]) /\ Placed(a + Len(wire[o]), output[s])
         /\ Placed(a + Len(wire[o]) + Len(output[s]), msg) =>
       Placed(a, wire'[o]) /\ Placed(a + Len(wire'[o]), output'[s])

LEMMA SendBehind ==
  ASSUME HandshakeTypes, NEW s \in Side, NEW msg \in Seq(Units),
         SendInLoop(s, msg)
  PROVE  SentBehind(s, Other(s), msg)
<1> DEFINE o == Other(s)
<1>0. o \in Side /\ o # s
  BY TwoSides
<1>1. /\ wire \in [Side -> Seq(Units)] /\ output \in [Side -> Seq(Units)]
      /\ wire[o] \in Seq(Units) /\ output[s] \in Seq(Units)
  BY <1>0 DEF HandshakeTypes
<1>8. Len(wire[o]) \in Nat /\ Len(output[s]) \in Nat /\ Len(msg) \in Nat
  BY <1>1
<1>2. CASE output[s] # <<>>
  <2>1. wire' = wire /\ output' = [output EXCEPT ![s] = @ \o msg]
    BY <1>2 DEF SendInLoop
  <2> HIDE DEF o
  <2> DEFINE c == output[s] \o msg
  <2>2. CatOf(output[s], msg, c)
    BY <1>1, CatUnits
  <2>3. output' = [output EXCEPT ![s] = c]
    BY <2>1
  <2> HIDE DEF c
  <2>4. c \in Seq(Units) /\ Len(c) = Len(output[s]) + Len(msg)
        /\ (\A x : Has(x, c) <=> Has(x, output[s]) \/ Has(x, msg))
        /\ \A a \in Nat : Placed(a, c) <=> Placed(a, output[s])
                                           /\ Placed(a + Len(output[s]), msg)
    BY <2>2 DEF CatOf
  <2>5. /\ output'[s] = c /\ output'[o] = output[o]
        /\ output' \in [Side -> Seq(Units)]
    BY <1>0, <1>1, <2>3, <2>4
  <2>6. Len(wire'[o]) + Len(output'[s]) = Len(wire[o]) + Len(output[s]) + Len(msg)
    <3>1. Len(wire'[o]) = Len(wire[o]) /\ Len(output'[s]) = Len(output[s]) + Len(msg)
      BY <2>1, <2>4, <2>5
    <3>2. \A a, b, d \in Nat : a + (b + d) = a + b + d
      BY ONLY TRUE
    <3>3. Len(wire[o]) + (Len(output[s]) + Len(msg))
            = Len(wire[o]) + Len(output[s]) + Len(msg)
      BY ONLY <1>8, <3>2, Zenon
    <3> QED
      BY ONLY <3>1, <3>3, Zenon
  <2>7. ASSUME NEW a \in Nat,
               Placed(a, wire[o]) /\ Placed(a + Len(wire[o]), output[s])
                 /\ Placed(a + Len(wire[o]) + Len(output[s]), msg)
        PROVE  Placed(a, wire'[o]) /\ Placed(a + Len(wire'[o]), output'[s])
    <3>1. a + Len(wire[o]) \in Nat
      BY <1>8
    <3> QED
      BY <2>1, <2>4, <2>5, <2>7, <3>1
  <2> QED
    BY <1>1, <2>1, <2>4, <2>5, <2>6, <2>7 DEF SentBehind, o
<1>3. CASE output[s] = <<>>
  <2>1. PICK n \in 0 .. Len(msg) :
          /\ wire' = [wire EXCEPT ![o] = @ \o SubSeq(msg, 1, n)]
          /\ output' = [output EXCEPT ![s] = SubSeq(msg, n + 1, Len(msg))]
    BY <1>3 DEF SendInLoop
  <2> DEFINE u == SubSeq(msg, 1, n)
             v == SubSeq(msg, n + 1, Len(msg))
             c == wire[o] \o u
  <2>2. n \in Nat /\ n <= Len(msg)
    BY <1>8
  <2>3. CutOf(msg, n, u, v)
    BY <2>2, CutUnits
  <2>4. u \in Seq(Units)
    BY <2>3 DEF CutOf
  <2> HIDE DEF u, v
  <2>5. CatOf(wire[o], u, c)
    BY <1>1, <2>4, CatUnits
  <2>6. wire' = [wire EXCEPT ![o] = c] /\ output' = [output EXCEPT ![s] = v]
    BY <2>1 DEF u, v
  <2> HIDE DEF c, o
  <2>7. /\ v \in Seq(Units) /\ Len(u) = n /\ Len(v) = Len(msg) - n
        /\ (\A x : Has(x, msg) <=> Has(x, u) \/ Has(x, v))
        /\ \A a \in Nat : Placed(a, msg) <=> Placed(a, u) /\ Placed(a + n, v)
    BY <2>3 DEF CutOf
  <2>8. /\ c \in Seq(Units) /\ Len(c) = Len(wire[o]) + n
        /\ (\A x : Has(x, c) <=> Has(x, wire[o]) \/ Has(x, u))
        /\ \A a \in Nat : Placed(a, c) <=> Placed(a, wire[o])
                                           /\ Placed(a + Len(wire[o]), u)
    BY <2>5, <2>7 DEF CatOf
  <2>9. /\ wire'[o] = c /\ wire'[s] = wire[s] /\ output'[s] = v
        /\ output'[o] = output[o]
        /\ wire' \in [Side -> Seq(Units)] /\ output' \in [Side -> Seq(Units)]
    BY <1>0, <1>1, <2>6, <2>7, <2>8
  <2>10. Len(output[s]) = 0
    BY <1>3
  <2>11. Len(wire'[o]) + Len(output'[s]) = Len(wire[o]) + Len(output[s]) + Len(msg)
    <3>1. Len(wire'[o]) = Len(wire[o]) + n /\ Len(output'[s]) = Len(msg) - n
      BY <2>7, <2>8, <2>9
    <3> QED
      BY ONLY <1>8, <2>2, <2>10, <3>1
  <2>12. ASSUME NEW a \in Nat,
               Placed(a, wire[o]) /\ Placed(a + Len(wire[o]), output[s])
                 /\ Placed(a + Len(wire[o]) + Len(output[s]), msg)
        PROVE  Placed(a, wire'[o]) /\ Placed(a + Len(wire'[o]), output'[s])
    <3>1. a + Len(wire[o]) \in Nat /\ a + Len(wire[o]) + Len(output[s]) = a + Len(wire[o])
          /\ a + Len(wire'[o]) = a + Len(wire[o]) + n
      <4>1. Len(wire'[o]) = Len(wire[o]) + n
        BY <2>8, <2>9
      <4> QED
        BY ONLY <1>8, <2>2, <2>10, <4>1, a \in Nat
    <3>2. Placed(a + Len(wire[o]), u) /\ Placed(a + Len(wire[o]) + n, v)
      BY <2>7, <2>12, <3>1
    <3> QED
      BY <2>8, <2>9, <2>12, <3>1, <3>2
  <2> QED
    BY <2>7, <2>8, <2>9, <2>11, <2>12 DEF SentBehind, o
<1> QED
  BY <1>2, <1>3

LEMMA SendCompleteKeeps ==
  ASSUME HandshakeInv, NEW s \in Side, SendComplete(s)
  PROVE  HandshakeInv'
<1> DEFINE o == Other(s)
<1>0. o \in Side /\ o # s
  BY TwoSides
<1>1. /\ InfoLen \in Nat \ {0} /\ HandshakeTypes /\ SideInv(s, o) /\ SideInv(o, s)
      /\ Has1(s) /\ Has1(o) /\ Network
  BY InvParts DEF HandshakeInv
<1>2. /\ pc[s] = "send" /\ pc' = [pc EXCEPT ![s] = "message"]
      /\ SendInLoop(s, <<"k">>)
      /\ UNCHANGED <<connector, sock, backlog, tcp, state, qp, input, called, nfault>>
  BY DEF SendComplete, Complete, netvars
<1>3. /\ <<"k">> \in Seq(Units) /\ Len(<<"k">>) = 1 /\ ~Has("eof", <<"k">>)
      /\ \A a \in Nat : a >= InfoLen => Placed(a, <<"k">>)
  BY <1>1, FewUnits
<1>4. SentBehind(s, o, <<"k">>)
  BY <1>1, <1>2, <1>3, SendBehind
<1> HIDE DEF o
<1>5. /\ pc'[s] = "message" /\ pc'[o] = pc[o]
      /\ pc' \in [Side -> {"loop", "message", "register", "send"}]
  BY <1>0, <1>1, <1>2 DEF HandshakeTypes
<1>6. /\ wire' \in [Side -> Seq(Units)] /\ output' \in [Side -> Seq(Units)]
      /\ wire'[s] = wire[s] /\ output'[o] = output[o]
      /\ Len(wire'[o]) + Len(output'[s]) = Len(wire[o]) + Len(output[s]) + 1
      /\ Has("eof", wire'[o]) => Has("eof", wire[o])
      /\ Has("eof", output'[s]) => Has("eof", output[s])
      /\ Len(wire'[o]) \in Nat /\ Len(output'[s]) \in Nat
  <2>1. /\ wire' \in [Side -> Seq(Units)] /\ output' \in [Side -> Seq(Units)]
        /\ wire'[s] = wire[s] /\ output'[o] = output[o]
        /\ Len(wire'[o]) + Len(output'[s]) = Len(wire[o]) + Len(output[s]) + 1
        /\ Has("eof", wire'[o]) => Has("eof", wire[o])
        /\ Has("eof", output'[s]) => Has("eof", output[s])
    BY <1>3, <1>4 DEF SentBehind
  <2>2. wire'[o] \in Seq(Units) /\ output'[s] \in Seq(Units)
    BY <1>0, <2>1
  <2>3. Len(wire'[o]) \in Nat /\ Len(output'[s]) \in Nat
    BY ONLY <2>2
  <2> QED
    BY <2>1, <2>3
<1>7. tcp[s] = "connected" /\ state[s] = "rts" /\ qp[s] = "up"
  BY <1>1, <1>2 DEF SideInv, Control
<1>8. HandshakeTypes' /\ Network'
  BY <1>1, <1>2, <1>5, <1>6 DEF HandshakeTypes, Network
<1>9. Control(s)' /\ Control(o)'
  BY <1>1, <1>2, <1>5, <1>6, <1>7 DEF SideInv, Control
<1>10. Used(s)' = Used(s) /\ Used(o)' = Used(o) /\ Open(s)' = Open(s) /\ Open(o)' = Open(o)
  BY <1>2 DEF Used, Open
<1>11. Sends(o, s)'
  BY <1>1, <1>2, <1>5, <1>6, <1>10 DEF SideInv, Sends, Length, SentBy
<1>12. ASSUME Open(o)
       PROVE  /\ Placed(Used(o), input[o])
              /\ Placed(Used(o) + Len(input[o]), wire'[o])
              /\ Placed(Used(o) + Len(input[o]) + Len(wire'[o]), output'[s])
              /\ Length(s, o)' = InfoLen + 1
  <2> DEFINE a == Used(o) + Len(input[o])
  <2>1. a \in Nat /\ a + Len(wire[o]) + Len(output[s]) = InfoLen
    BY <1>1, <1>2, <1>7, <1>12 DEF SideInv, Sends, Length, SentBy, Has1
  <2>2. /\ Placed(Used(o), input[o]) /\ Placed(a, wire[o])
        /\ Placed(a + Len(wire[o]), output[s])
    BY <1>1, <1>12 DEF SideInv, Sends
  <2>3. Length(s, o)' = a + Len(wire'[o]) + Len(output'[s])
    BY <1>2, <1>10 DEF Length
  <2>9. Len(wire[o]) \in Nat /\ Len(output[s]) \in Nat
    BY <1>1 DEF Has1
  <2> HIDE DEF a
  <2>4. Length(s, o)' = InfoLen + 1
    <3> DEFINE w == Len(wire[o])
               x == Len(output[s])
               y == Len(wire'[o])
               z == Len(output'[s])
    <3>1. /\ w \in Nat /\ x \in Nat /\ y \in Nat /\ z \in Nat /\ InfoLen \in Nat
          /\ y + z = w + x + 1 /\ a + w + x = InfoLen /\ a \in Nat
          /\ Length(s, o)' = a + y + z
      BY <1>1, <1>6, <2>1, <2>3, <2>9
    <3> HIDE DEF w, x, y, z
    <3>2. a + y + z = InfoLen + 1
      BY ONLY <3>1
    <3> QED
      BY <3>1, <3>2
  <2>5. Placed(a + Len(wire[o]) + Len(output[s]), <<"k">>)
    <3>1. InfoLen \in Nat /\ InfoLen >= InfoLen
      BY <1>1
    <3> QED
      BY <1>3, <2>1, <3>1, Zenon
  <2>6. Placed(a, wire'[o]) /\ Placed(a + Len(wire'[o]), output'[s])
    BY <1>4, <2>1, <2>2, <2>5 DEF SentBehind
  <2> QED
    BY <2>2, <2>4, <2>6 DEF a
<1>13. Sends(s, o)'
  <2>1. tcp'[s] = "connected" /\ SentBy(s)' = InfoLen + 1 /\ qp'[s] = "up"
        /\ input'[o] = input[o]
    BY <1>2, <1>5, <1>7 DEF SentBy
  <2>2. ~Has("eof", wire'[o])
    BY <1>1, <1>6, <1>7 DEF SideInv, Sends
  <2> QED
    BY <1>10, <1>12, <2>1, <2>2 DEF Sends
<1>14. Faultless(s, o)'
  BY <1>2, <1>7 DEF Faultless, Open
<1>15. Faultless(o, s)'
  BY <1>1, <1>2, <1>6, <1>10 DEF SideInv, Faultless, Length
<1> QED
  BY <1>1, <1>8, <1>9, <1>11, <1>13, <1>14, <1>15, InvNext DEF SideInv, o

\* handleRead moves units from the wire to the input buffer.
MovedIn(s) ==
  /\ wire' \in [Side -> Seq(Units)] /\ input' \in [Side -> Seq(Units)]
  /\ wire[s] # <<>>
  /\ Len(input'[s]) + Len(wire'[s]) = Len(input[s]) + Len(wire[s])
  /\ \A x : Has(x, wire'[s]) => Has(x, wire[s])
  /\ \A x : Has(x, input'[s]) => Has(x, input[s]) \/ (Has(x, wire[s]) /\ x # "eof")
  /\ EofLast(wire[s]) => EofLast(wire'[s])
  /\ \A a \in Nat :
       Placed(a, input[s]) /\ Placed(a + Len(input[s]), wire[s]) =>
       Placed(a, input'[s]) /\ Placed(a + Len(input'[s]), wire'[s])
  /\ \A x \in Side \ {s} : wire'[x] = wire[x] /\ input'[x] = input[x]

LEMMA ReadMoves ==
  ASSUME HandshakeTypes, NEW s \in Side, HandleRead(s)
  PROVE  MovedIn(s)
<1> DEFINE q == wire[s]
           r == input[s]
<1>1. /\ wire \in [Side -> Seq(Units)] /\ input \in [Side -> Seq(Units)]
      /\ q \in Seq(Units) /\ r \in Seq(Units)
  BY DEF HandshakeTypes
<1>2. PICK n \in 1 .. Len(q) :
        /\ \A k \in 1 .. n : q[k] # "eof"
        /\ input' = [input EXCEPT ![s] = @ \o SubSeq(q, 1, n)]
        /\ wire' = [wire EXCEPT ![s] = SubSeq(@, n + 1, Len(@))]
  BY DEF HandleRead
<1> DEFINE u == SubSeq(q, 1, n)
           v == SubSeq(q, n + 1, Len(q))
           c == r \o u
<1>3. input' = [input EXCEPT ![s] = c] /\ wire' = [wire EXCEPT ![s] = v]
  BY <1>2
<1> HIDE DEF q, r
<1>4. n \in Nat /\ n <= Len(q) /\ n >= 1 /\ Len(q) \in Nat /\ Len(r) \in Nat
  BY <1>1, <1>2
<1>5. q # <<>>
  BY <1>1, <1>4
<1>6. CutOf(q, n, u, v)
  BY <1>1, <1>4, CutUnits
<1>7. ~Has("eof", u)
  <2>1. Len(u) = n /\ \A k \in 1 .. n : u[k] = q[k]
    BY <1>1, <1>4
  <2> QED
    BY <1>2, <2>1 DEF Has
<1> HIDE DEF u, v
<1>8. /\ u \in Seq(Units) /\ v \in Seq(Units) /\ Len(u) = n /\ Len(v) = Len(q) - n
      /\ (\A x : Has(x, q) <=> Has(x, u) \/ Has(x, v))
      /\ (\A a \in Nat : Placed(a, q) <=> Placed(a, u) /\ Placed(a + n, v))
      /\ (EofLast(q) => EofLast(v))
  BY <1>6 DEF CutOf
<1>9. CatOf(r, u, c)
  BY <1>1, <1>8, CatUnits
<1> HIDE DEF c
<1>10. /\ c \in Seq(Units) /\ Len(c) = Len(r) + n
       /\ (\A x : Has(x, c) <=> Has(x, r) \/ Has(x, u))
       /\ \A a \in Nat : Placed(a, c) <=> Placed(a, r) /\ Placed(a + Len(r), u)
  BY <1>8, <1>9 DEF CatOf
<1>11. /\ input'[s] = c /\ wire'[s] = v
       /\ wire' \in [Side -> Seq(Units)] /\ input' \in [Side -> Seq(Units)]
       /\ \A x \in Side \ {s} : wire'[x] = wire[x] /\ input'[x] = input[x]
  BY <1>1, <1>3, <1>8, <1>10
<1>12. Len(c) + Len(v) = Len(r) + Len(q)
  BY <1>4, <1>8, <1>10
<1>13. ASSUME NEW a \in Nat, Placed(a, r) /\ Placed(a + Len(r), q)
       PROVE  Placed(a, c) /\ Placed(a + Len(c), v)
  <2>1. a + Len(r) \in Nat /\ a + Len(c) = a + Len(r) + n
    BY <1>4, <1>10
  <2>2. Placed(a + Len(r), u) /\ Placed(a + Len(r) + n, v)
    BY <1>8, <1>13, <2>1
  <2> QED
    BY <1>10, <1>13, <2>1, <2>2
<1>14. /\ \A x : Has(x, v) => Has(x, q)
       /\ \A x : Has(x, c) => Has(x, r) \/ (Has(x, q) /\ x # "eof")
  BY <1>7, <1>8, <1>10
<1>15. wire[s] = q /\ input[s] = r
  BY DEF q, r
<1> QED
  BY <1>5, <1>8, <1>11, <1>12, <1>13, <1>14, <1>15 DEF MovedIn

LEMMA ReadKeeps ==
  ASSUME HandshakeInv, NEW s \in Side, HandleRead(s)
  PROVE  HandshakeInv'
<1> DEFINE o == Other(s)
<1>0. o \in Side /\ o # s
  BY TwoSides
<1>1. /\ InfoLen \in Nat \ {0} /\ HandshakeTypes /\ SideInv(s, o) /\ SideInv(o, s)
      /\ Has1(s) /\ Has1(o) /\ Network
  BY InvParts DEF HandshakeInv
<1>2. /\ pc[s] = "loop" /\ tcp[s] \in {"connected", "disconnecting"}
      /\ pc' = [pc EXCEPT ![s] = IF tcp[s] = "connected" THEN "message" ELSE @]
      /\ UNCHANGED <<connector, sock, backlog, tcp, state, qp, output, called, nfault>>
  BY DEF HandleRead, OnTcpMessage, netvars
<1>3. MovedIn(s)
  BY <1>1, ReadMoves
<1> HIDE DEF o
<1>4. /\ pc'[s] = (IF tcp[s] = "connected" THEN "message" ELSE "loop") /\ pc'[o] = pc[o]
      /\ pc' \in [Side -> {"loop", "message", "register", "send"}]
  BY <1>0, <1>1, <1>2 DEF HandshakeTypes
<1>5. /\ wire' \in [Side -> Seq(Units)] /\ input' \in [Side -> Seq(Units)]
      /\ wire'[o] = wire[o] /\ input'[o] = input[o] /\ wire[s] # <<>>
      /\ \A x : Has(x, wire'[s]) => Has(x, wire[s])
      /\ Has("eof", input'[s]) => Has("eof", input[s])
      /\ Has("k", input'[s]) => Has("k", input[s]) \/ Has("k", wire[s])
      /\ EofLast(wire[s]) => EofLast(wire'[s])
  BY <1>0, <1>3 DEF MovedIn
<1>6. HandshakeTypes' /\ Network'
  BY <1>1, <1>2, <1>4, <1>5 DEF HandshakeTypes, Network
<1>7. Control(s)' /\ Control(o)'
  BY <1>1, <1>2, <1>4, <1>5 DEF SideInv, Control
<1>8. Used(s)' = Used(s) /\ Used(o)' = Used(o) /\ Open(s)' = Open(s) /\ Open(o)' = Open(o)
      /\ SentBy(s)' = SentBy(s) /\ SentBy(o)' = SentBy(o)
  BY <1>2, <1>4 DEF Used, Open, SentBy
<1>9. Length(s, o)' = Length(s, o)
  BY <1>2, <1>5, <1>8 DEF Length
<1>10. Length(o, s)' = Length(o, s)
  <2> DEFINE a == Used(s)
             w == Len(input[s])
             x == Len(wire[s])
             y == Len(input'[s])
             z == Len(wire'[s])
             t == Len(output[o])
  <2>1. input'[s] \in Seq(Units) /\ wire'[s] \in Seq(Units)
    BY <1>5
  <2>2. y \in Nat /\ z \in Nat
    BY ONLY <2>1
  <2>3. a \in Nat /\ w \in Nat /\ x \in Nat /\ t \in Nat /\ y + z = w + x
    BY <1>1, <1>3 DEF Has1, MovedIn
  <2>4. Length(o, s) = a + w + x + t /\ Length(o, s)' = a + y + z + t
    BY <1>2, <1>8 DEF Length
  <2> HIDE DEF a, w, x, y, z, t
  <2>5. a + y + z + t = a + w + x + t
    BY ONLY <2>2, <2>3
  <2> QED
    BY <2>4, <2>5
<1>11. Sends(s, o)' /\ Faultless(s, o)'
  BY <1>1, <1>2, <1>5, <1>8, <1>9 DEF SideInv, Sends, Faultless
<1>12. tcp[o] # "none"
  BY <1>1, <1>5 DEF SideInv, Sends
<1>13. Sends(o, s)'
  <2>1. ASSUME Open(s)
        PROVE  /\ Placed(Used(s), input'[s])
               /\ Placed(Used(s) + Len(input'[s]), wire'[s])
               /\ Placed(Used(s) + Len(input'[s]) + Len(wire'[s]), output[o])
    <3>1. /\ Placed(Used(s), input[s]) /\ Placed(Used(s) + Len(input[s]), wire[s])
          /\ Placed(Used(s) + Len(input[s]) + Len(wire[s]), output[o])
      BY <1>1, <2>1 DEF SideInv, Sends
    <3>2. Used(s) \in Nat
      BY <1>1 DEF Has1
    <3>3. Placed(Used(s), input'[s]) /\ Placed(Used(s) + Len(input'[s]), wire'[s])
      BY <1>3, <3>1, <3>2 DEF MovedIn
    <3>4. Used(s) + Len(input'[s]) + Len(wire'[s]) = Used(s) + Len(input[s]) + Len(wire[s])
      <4> DEFINE a == Used(s)
                 w == Len(input[s])
                 x == Len(wire[s])
                 y == Len(input'[s])
                 z == Len(wire'[s])
      <4>1. input'[s] \in Seq(Units) /\ wire'[s] \in Seq(Units)
        BY <1>5
      <4>2. y \in Nat /\ z \in Nat
        BY ONLY <4>1
      <4>3. a \in Nat /\ w \in Nat /\ x \in Nat /\ y + z = w + x
        BY <1>1, <1>3 DEF Has1, MovedIn
      <4> HIDE DEF a, w, x, y, z
      <4>4. a + y + z = a + w + x
        BY ONLY <4>2, <4>3
      <4> QED
        BY <4>4 DEF a, w, x, y, z
    <3> QED
      BY <3>1, <3>3, <3>4
  <2>2. Sends(o, s)
    BY <1>1 DEF SideInv
  <2>3. output'[o] = output[o] /\ state'[s] = state[s] /\ qp'[o] = qp[o] /\ tcp'[o] = tcp[o]
    BY <1>2
  <2> QED
    BY <1>5, <1>8, <1>10, <1>12, <2>1, <2>2, <2>3 DEF Sends
<1>14. Faultless(o, s)'
  BY <1>1, <1>2, <1>5, <1>8, <1>10 DEF SideInv, Faultless
<1> QED
  BY <1>1, <1>6, <1>7, <1>11, <1>13, <1>14, InvNext DEF SideInv, o

\* handleWrite moves units from the output buffer to the wire, and ends the
\* stream behind the last of them if the connection is being shut down.
MovedOut(s, o) ==
  /\ wire' \in [Side -> Seq(Units)] /\ output' \in [Side -> Seq(Units)]
  /\ output[s] # <<>> /\ wire'[s] = wire[s] /\ output'[o] = output[o]
  /\ Len(wire'[o]) + Len(output'[s]) = Len(wire[o]) + Len(output[s])
       + (IF output'[s] = <<>> /\ tcp[s] = "disconnecting" THEN 1 ELSE 0)
  /\ \A x : Has(x, output'[s]) => Has(x, output[s])
  /\ \A x : Has(x, wire'[o]) => \/ Has(x, wire[o]) \/ Has(x, output[s])
                                \/ x = "eof" /\ output'[s] = <<>> /\ tcp[s] = "disconnecting"
  /\ ~Has("eof", wire[o]) /\ ~Has("eof", output[s]) => EofLast(wire'[o])
  /\ \A a \in Nat :
       Placed(a, wire[o]) /\ Placed(a + Len(wire[o]), output[s]) =>
       Placed(a, wire'[o]) /\ Placed(a + Len(wire'[o]), output'[s])

LEMMA WriteMoves ==
  ASSUME HandshakeTypes, NEW s \in Side, HandleWrite(s)
  PROVE  MovedOut(s, Other(s))
<1> DEFINE o == Other(s)
           q == output[s]
           r == wire[o]
<1>0. o \in Side /\ o # s
  BY TwoSides
<1>1. /\ wire \in [Side -> Seq(Units)] /\ output \in [Side -> Seq(Units)]
      /\ q \in Seq(Units) /\ r \in Seq(Units)
  BY <1>0 DEF HandshakeTypes
<1>2. PICK n \in 1 .. Len(q) :
        /\ wire' = [wire EXCEPT ![o] =
                      @ \o SubSeq(q, 1, n)
                        \o IF n = Len(q) /\ tcp[s] = "disconnecting"
                             THEN <<"eof">> ELSE <<>>]
        /\ output' = [output EXCEPT ![s] = SubSeq(@, n + 1, Len(@))]
  BY DEF HandleWrite
<1> DEFINE ends == n = Len(q) /\ tcp[s] = "disconnecting"
           e == IF ends THEN <<"eof">> ELSE <<>>
           u == SubSeq(q, 1, n)
           v == SubSeq(q, n + 1, Len(q))
           b == r \o u
           c == b \o e
<1>3. wire' = [wire EXCEPT ![o] = c] /\ output' = [output EXCEPT ![s] = v]
  BY <1>2
<1> HIDE DEF q, r
<1>4. n \in Nat /\ n <= Len(q) /\ n >= 1 /\ Len(q) \in Nat /\ Len(r) \in Nat
  BY <1>1, <1>2
<1>5. q # <<>>
  BY <1>1, <1>4
<1>6. CutOf(q, n, u, v)
  BY <1>1, <1>4, CutUnits
<1> HIDE DEF u, v
<1>8. /\ u \in Seq(Units) /\ v \in Seq(Units) /\ Len(u) = n /\ Len(v) = Len(q) - n
      /\ (\A x : Has(x, q) <=> Has(x, u) \/ Has(x, v))
      /\ (\A a \in Nat : Placed(a, q) <=> Placed(a, u) /\ Placed(a + n, v))
  BY <1>6 DEF CutOf
<1>9. CatOf(r, u, b)
  BY <1>1, <1>8, CatUnits
<1>7. /\ e \in Seq(Units) /\ Len(e) = (IF ends THEN 1 ELSE 0) /\ EofLast(e)
      /\ (\A x : Has(x, e) => x = "eof" /\ ends)
      /\ \A a \in Nat : Placed(a, e)
  <2>1. CASE ends
    BY <2>1, FewUnits
  <2>2. CASE ~ends
    BY <2>2, FewUnits
  <2> QED
    BY <2>1, <2>2
<1> HIDE DEF b, e
<1>10. /\ b \in Seq(Units) /\ Len(b) = Len(r) + n
       /\ (\A x : Has(x, b) <=> Has(x, r) \/ Has(x, u))
       /\ \A a \in Nat : Placed(a, b) <=> Placed(a, r) /\ Placed(a + Len(r), u)
  BY <1>8, <1>9 DEF CatOf
<1>11. CatOf(b, e, c)
  BY <1>7, <1>10, CatUnits
<1> HIDE DEF c
<1>12. /\ c \in Seq(Units) /\ Len(c) = Len(b) + Len(e)
       /\ (\A x : Has(x, c) <=> Has(x, b) \/ Has(x, e))
       /\ (\A a \in Nat : Placed(a, c) <=> Placed(a, b) /\ Placed(a + Len(b), e))
       /\ (~Has("eof", b) => EofLast(c))
  BY <1>7, <1>11 DEF CatOf
<1>13. /\ output'[s] = v /\ wire'[o] = c /\ wire'[s] = wire[s] /\ output'[o] = output[o]
       /\ wire' \in [Side -> Seq(Units)] /\ output' \in [Side -> Seq(Units)]
  BY <1>0, <1>1, <1>3, <1>8, <1>12
<1>14. v = <<>> <=> n = Len(q)
  <2>1. v = <<>> <=> Len(v) = 0
    BY <1>8
  <2>2. Len(v) = 0 <=> n = Len(q)
    BY <1>4, <1>8
  <2> QED
    BY <2>1, <2>2
<1>15. ends <=> v = <<>> /\ tcp[s] = "disconnecting"
  BY <1>14
<1>16. Len(c) + Len(v) = Len(r) + Len(q) + (IF ends THEN 1 ELSE 0)
  BY <1>4, <1>7, <1>8, <1>10, <1>12
<1>17. /\ Len(c) = Len(r) + n + (IF ends THEN 1 ELSE 0)
       /\ n \in Nat /\ Len(r) \in Nat /\ Len(b) \in Nat
  BY <1>4, <1>7, <1>10, <1>12
<1>18. ASSUME NEW a \in Nat, Placed(a, r) /\ Placed(a + Len(r), q)
       PROVE  Placed(a, c) /\ Placed(a + Len(c), v)
  <2>1. a + Len(r) \in Nat /\ a + Len(b) \in Nat /\ a + Len(c) \in Nat
        /\ (~ends => a + Len(c) = a + Len(r) + n)
    BY <1>17
  <2>2. Placed(a + Len(r), u) /\ Placed(a + Len(r) + n, v)
    BY <1>8, <1>18, <2>1
  <2>3. Placed(a, c)
    BY <1>7, <1>10, <1>12, <1>18, <2>1, <2>2
  <2>4. CASE ends
    BY <1>15, <2>1, <2>3, <2>4, FewUnits
  <2>5. CASE ~ends
    BY <2>1, <2>2, <2>3, <2>5
  <2> QED
    BY <2>4, <2>5
<1>19. /\ \A x : Has(x, v) => Has(x, q)
       /\ \A x : Has(x, c) => Has(x, r) \/ Has(x, q) \/ (x = "eof" /\ ends)
       /\ ~Has("eof", r) /\ ~Has("eof", q) => EofLast(c)
  BY <1>7, <1>8, <1>10, <1>12
<1>20. output[s] = q /\ wire[o] = r
  BY DEF q, r
<1> HIDE DEF o, ends
<1> QED
  <2>1. (IF ends THEN 1 ELSE 0) = IF v = <<>> /\ tcp[s] = "disconnecting" THEN 1 ELSE 0
    BY <1>15
  <2>2. /\ Len(wire'[o]) + Len(output'[s]) = Len(wire[o]) + Len(output[s])
             + (IF output'[s] = <<>> /\ tcp[s] = "disconnecting" THEN 1 ELSE 0)
    BY <1>13, <1>16, <1>20, <2>1
  <2> QED
    BY <1>5, <1>13, <1>15, <1>18, <1>19, <1>20, <2>2 DEF MovedOut, o

LEMMA WriteKeeps ==
  ASSUME HandshakeInv, NEW s \in Side, HandleWrite(s)
  PROVE  HandshakeInv'
<1> DEFINE o == Other(s)
<1>0. o \in Side /\ o # s
  BY TwoSides
<1>1. /\ InfoLen \in Nat \ {0} /\ HandshakeTypes /\ SideInv(s, o) /\ SideInv(o, s)
      /\ Has1(s) /\ Has1(o) /\ Network
  BY InvParts DEF HandshakeInv
<1>2. /\ pc[s] = "loop" /\ tcp[s] \in {"connected", "disconnecting"}
      /\ UNCHANGED <<connector, sock, backlog, tcp, state, qp, input, pc, called, nfault>>
  BY DEF HandleWrite, netvars
<1>3. MovedOut(s, o)
  BY <1>1, WriteMoves
<1> HIDE DEF o
<1>4. /\ wire' \in [Side -> Seq(Units)] /\ output' \in [Side -> Seq(Units)]
      /\ output[s] # <<>> /\ wire'[s] = wire[s] /\ output'[o] = output[o]
      /\ \A x : Has(x, output'[s]) => Has(x, output[s])
      /\ \A x : Has(x, wire'[o]) =>
                  \/ Has(x, wire[o]) \/ Has(x, output[s])
                  \/ x = "eof" /\ output'[s] = <<>> /\ tcp[s] = "disconnecting"
      /\ ~Has("eof", wire[o]) /\ ~Has("eof", output[s]) => EofLast(wire'[o])
  BY <1>3 DEF MovedOut
<1>5. ~Has("eof", output[s]) /\ ~Has("eof", output'[s])
  BY <1>1, <1>4 DEF SideInv, Control
<1>6. HandshakeTypes' /\ Network'
  BY <1>1, <1>2, <1>4 DEF HandshakeTypes, Network
<1>7. Control(s)' /\ Control(o)'
  BY <1>1, <1>2, <1>4, <1>5 DEF SideInv, Control
<1>8. Used(s)' = Used(s) /\ Used(o)' = Used(o) /\ Open(s)' = Open(s) /\ Open(o)' = Open(o)
      /\ SentBy(s)' = SentBy(s) /\ SentBy(o)' = SentBy(o)
  BY <1>2 DEF Used, Open, SentBy
<1>9. Length(o, s)' = Length(o, s)
  BY <1>2, <1>4, <1>8 DEF Length
<1>10. Sends(o, s)' /\ Faultless(o, s)'
  BY <1>1, <1>2, <1>4, <1>8, <1>9 DEF SideInv, Sends, Faultless
<1>11. /\ Length(s, o) \in Nat
       /\ Length(s, o)' = Length(s, o)
            + (IF output'[s] = <<>> /\ tcp[s] = "disconnecting" THEN 1 ELSE 0)
  <2> DEFINE a == Used(o) + Len(input[o])
             w == Len(wire[o])
             x == Len(output[s])
             y == Len(wire'[o])
             z == Len(output'[s])
             d == IF output'[s] = <<>> /\ tcp[s] = "disconnecting" THEN 1 ELSE 0
  <2>1. output'[s] \in Seq(Units) /\ wire'[o] \in Seq(Units)
    BY <1>0, <1>4
  <2>2. y \in Nat /\ z \in Nat
    BY ONLY <2>1
  <2>3. a \in Nat /\ w \in Nat /\ x \in Nat /\ d \in Nat
    BY <1>1 DEF Has1
  <2>4. Length(s, o) = a + w + x /\ Length(s, o)' = a + y + z
    BY <1>2, <1>8 DEF Length
  <2>5. y + z = w + x + d
    BY <1>3 DEF MovedOut
  <2> HIDE DEF a, w, x, y, z, d
  <2>6. a + y + z = a + w + x + d /\ a + w + x \in Nat
    BY ONLY <2>2, <2>3, <2>5
  <2> QED
    BY <2>4, <2>6 DEF d
<1>12. Sends(s, o)'
  <2>0. Sends(s, o)
    BY <1>1 DEF SideInv
  <2>1. ASSUME Open(o)
        PROVE  /\ Placed(Used(o), input[o])
               /\ Placed(Used(o) + Len(input[o]), wire'[o])
               /\ Placed(Used(o) + Len(input[o]) + Len(wire'[o]), output'[s])
    <3> DEFINE a == Used(o) + Len(input[o])
    <3>1. /\ Placed(Used(o), input[o]) /\ Placed(a, wire[o])
          /\ Placed(a + Len(wire[o]), output[s])
      BY <2>0, <2>1 DEF Sends
    <3>2. a \in Nat
      BY <1>1 DEF Has1
    <3> HIDE DEF a
    <3>3. Placed(a, wire'[o]) /\ Placed(a + Len(wire'[o]), output'[s])
      BY <1>3, <3>1, <3>2 DEF MovedOut
    <3> QED
      BY <3>1, <3>3 DEF a
  <2>2. tcp[s] = "connected" => ~Has("eof", wire'[o]) /\ Length(s, o)' = Length(s, o)
    BY <1>4, <1>5, <1>11, <2>0 DEF Sends
  <2>3. input'[o] = input[o] /\ state'[o] = state[o] /\ qp'[s] = qp[s] /\ tcp'[s] = tcp[s]
    BY <1>2
  <2>4. Has("k", wire'[o]) => Has("k", wire[o]) \/ Has("k", output[s])
    BY <1>4
  <2> QED
    BY <1>2, <1>4, <1>8, <2>0, <2>1, <2>2, <2>3, <2>4 DEF Sends
<1>13. Faultless(s, o)'
  <2> SUFFICES ASSUME nfault = 0 PROVE Faultless(s, o)'
    BY <1>2 DEF Faultless
  <2>1. Faultless(s, o)
    BY <1>1 DEF SideInv
  <2>2. ASSUME ~Open(s), Open(o)
        PROVE  /\ Length(s, o)' = InfoLen + 1 + (IF output'[s] = <<>> THEN 1 ELSE 0)
               /\ output'[s] # <<>> => ~Has("eof", wire'[o])
               /\ EofLast(wire'[o])
    <3>1. tcp[s] = "disconnecting"
      BY <1>2, <2>2 DEF Open
    <3>2. Length(s, o) = InfoLen + 1 /\ ~Has("eof", wire[o])
      BY <1>1, <1>4, <2>1, <2>2 DEF Faultless
    <3> QED
      BY <1>4, <1>5, <1>11, <3>1, <3>2
  <2>3. tcp'[s] = tcp[s] /\ state'[s] = state[s] /\ state'[o] = state[o]
    BY <1>2
  <2> QED
    BY <1>8, <2>1, <2>2, <2>3 DEF Faultless
<1> QED
  BY <1>1, <1>6, <1>7, <1>10, <1>12, <1>13, InvNext DEF SideInv, o

\* shutdownInLoop ends the stream unless something waits.
Shut(s, o) ==
  /\ wire' \in [Side -> Seq(Units)] /\ wire'[s] = wire[s]
  /\ Len(wire'[o]) = Len(wire[o]) + (IF output[s] = <<>> THEN 1 ELSE 0)
  /\ output[s] # <<>> => wire'[o] = wire[o]
  /\ Has("k", wire'[o]) => Has("k", wire[o])
  /\ ~Has("eof", wire[o]) => EofLast(wire'[o])
  /\ \A a \in Nat :
       Placed(a, wire[o]) /\ Placed(a + Len(wire[o]), output[s]) =>
       Placed(a, wire'[o]) /\ Placed(a + Len(wire'[o]), output[s])

\* Append(q, "eof").
LEMMA EofUnits ==
  ASSUME NEW q \in Seq(Units)
  PROVE  /\ Append(q, "eof") \in Seq(Units) /\ Len(Append(q, "eof")) = Len(q) + 1
         /\ Has("k", Append(q, "eof")) => Has("k", q)
         /\ ~Has("eof", q) => EofLast(Append(q, "eof"))
         /\ \A a \in Nat : Placed(a, q) => Placed(a, Append(q, "eof"))
<1>1. CatOf(q, <<"eof">>, q \o <<"eof">>)
  BY FewUnits, CatUnits
<1>2. Append(q, "eof") = q \o <<"eof">>
  OBVIOUS
<1>3. CatOf(q, <<"eof">>, Append(q, "eof"))
  BY <1>1, <1>2
<1>4. Len(q) \in Nat /\ \A a \in Nat : a + Len(q) \in Nat
  OBVIOUS
<1>5. /\ Len(<<"eof">>) = 1 /\ EofLast(<<"eof">>) /\ ~Has("k", <<"eof">>)
      /\ \A a \in Nat : Placed(a, <<"eof">>)
  BY FewUnits
<1> QED
  BY <1>3, <1>4, <1>5 DEF CatOf

LEMMA ShutdownShuts ==
  ASSUME HandshakeTypes, NEW s \in Side, ShutdownInLoop(s, output[s])
  PROVE  Shut(s, Other(s))
<1> DEFINE o == Other(s)
<1>0. o \in Side /\ o # s
  BY TwoSides
<1>1. wire \in [Side -> Seq(Units)] /\ wire[o] \in Seq(Units)
  BY <1>0 DEF HandshakeTypes
<1>2. CASE output[s] = <<>>
  <2> DEFINE c == Append(wire[o], "eof")
  <2>1. wire' = [wire EXCEPT ![o] = c]
    BY <1>2 DEF ShutdownInLoop
  <2>2. /\ c \in Seq(Units) /\ Len(c) = Len(wire[o]) + 1
        /\ Has("k", c) => Has("k", wire[o])
        /\ ~Has("eof", wire[o]) => EofLast(c)
        /\ \A a \in Nat : Placed(a, wire[o]) => Placed(a, c)
    BY <1>1, EofUnits
  <2> HIDE DEF c, o
  <2>3. wire'[o] = c /\ wire'[s] = wire[s] /\ wire' \in [Side -> Seq(Units)]
    BY <1>0, <1>1, <2>1, <2>2
  <2>4. \A a \in Nat : a + Len(c) \in Nat
    BY <2>2
  <2>5. \A a \in Nat : Placed(a, <<>>)
    BY FewUnits
  <2> QED
    BY <1>2, <2>2, <2>3, <2>4, <2>5 DEF Shut, o
<1>3. CASE output[s] # <<>>
  <2>1. wire' = wire
    BY <1>3 DEF ShutdownInLoop
  <2>2. Len(wire[o]) = Len(wire[o]) + 0
    <3>1. Len(wire[o]) \in Nat
      BY <1>1
    <3>2. \A i \in Nat : i = i + 0
      OBVIOUS
    <3> QED
      BY <3>1, <3>2, Zenon
  <2> HIDE DEF o
  <2> QED
    BY <1>1, <1>3, <2>1, <2>2, NoEofLast DEF Shut, o
<1> QED
  BY <1>2, <1>3

\* handshakeQp in kRdmaInit.
LEMMA InfoKeeps ==
  ASSUME HandshakeInv, NEW s \in Side, HandshakeInit(s)
  PROVE  HandshakeInv'
<1> DEFINE o == Other(s)
<1>0. o \in Side /\ o # s
  BY TwoSides
<1>1. /\ InfoLen \in Nat \ {0} /\ HandshakeTypes /\ SideInv(s, o) /\ SideInv(o, s)
      /\ Has1(s) /\ Has1(o) /\ Network /\ nfault \in Nat
  BY InvParts DEF HandshakeInv
<1>2. /\ pc[s] = "message" /\ state[s] = "init"
      /\ UNCHANGED <<connector, sock, backlog, output, called>>
  BY DEF HandshakeInit, netvars
<1>3. tcp[s] = "connected" /\ qp[s] # "up"
  BY <1>1, <1>2 DEF SideInv, Control
<1>4. CASE ~HaveInfo(s)
  <2>1. /\ Len(input[s]) < InfoLen /\ pc' = [pc EXCEPT ![s] = "loop"]
        /\ UNCHANGED <<tcp, state, qp, wire, input, nfault>>
    <3>1. ~(Len(input[s]) >= InfoLen)
      BY <1>4 DEF HaveInfo
    <3>2. Len(input[s]) \in Nat /\ InfoLen \in Nat
      BY <1>1 DEF Has1
    <3>3. \A i, j \in Nat : ~(i >= j) => i < j
      OBVIOUS
    <3> QED
      BY <1>4, <3>1, <3>2, <3>3, Zenon DEF HandshakeInit
  <2> HIDE DEF o
  <2>2. /\ pc'[s] = "loop" /\ pc'[o] = pc[o]
        /\ pc' \in [Side -> {"loop", "message", "register", "send"}]
    BY <1>0, <1>1, <2>1 DEF HandshakeTypes
  <2>3. HandshakeTypes' /\ Network'
    BY <1>1, <1>2, <2>1, <2>2 DEF HandshakeTypes, Network
  <2>4. Control(s)' /\ Control(o)'
    BY <1>1, <1>2, <2>1, <2>2 DEF SideInv, Control
  <2>5. SentBy(s)' = SentBy(s) /\ SentBy(o)' = SentBy(o)
    BY <1>2, <2>1, <2>2 DEF SentBy
  <2>6. Sends(s, o)' /\ Sends(o, s)'
    BY <1>1, <1>2, <2>1, <2>5 DEF SideInv, Sends, Open, Used, Length
  <2>7. Faultless(s, o)' /\ Faultless(o, s)'
    BY <1>1, <1>2, <2>1 DEF SideInv, Faultless, Open, Used, Length
  <2> QED
    BY <1>1, <2>3, <2>4, <2>6, <2>7, InvNext DEF SideInv, o
<1>5. CASE HaveInfo(s)
  <2> DEFINE q == input[s]
             v == SubSeq(q, InfoLen + 1, Len(q))
  <2>1. /\ Len(q) >= InfoLen /\ input' = [input EXCEPT ![s] = v] /\ ConnectQp(s)
    BY <1>5 DEF HandshakeInit, HaveInfo
  <2>2. q \in Seq(Units) /\ Len(q) \in Nat /\ Used(s) = 0
    BY <1>1, <1>2 DEF Has1, Used
  <2>3. CutOf(q, InfoLen, SubSeq(q, 1, InfoLen), v)
    <3>1. InfoLen \in Nat /\ InfoLen <= Len(q)
      BY <1>1, <2>1, <2>2
    <3> QED
      BY <2>2, <3>1, CutUnits
  <2> HIDE DEF v
  <2>4. /\ v \in Seq(Units) /\ Len(v) = Len(q) - InfoLen
        /\ (\A x : Has(x, v) => Has(x, q))
        /\ (Placed(0, q) => Placed(InfoLen, v))
    <3>1. 0 + InfoLen = InfoLen
      BY <1>1
    <3> QED
      BY <2>3, <3>1 DEF CutOf
  <2>5. q # <<>>
    BY <1>1, <2>1, <2>2
  <2>6. tcp[o] # "none"
    BY <1>1, <2>5 DEF SideInv, Sends
  <2>7. /\ nfault' \in Nat /\ (nfault' = 0 => nfault = 0)
        /\ qp' \in [Side -> {"none", "init", "rts", "up"}] /\ qp'[o] = qp[o]
        /\ qp'[s] # "rts" => nfault' # 0
        /\ qp'[s] # "up"
    <3>1. \/ qp' = [qp EXCEPT ![s] = "rts"] /\ nfault' = nfault
          \/ nfault' = nfault + 1 /\ qp' = qp
      BY <2>1 DEF ConnectQp
    <3>2. qp \in [Side -> {"none", "init", "rts", "up"}]
      BY <1>1 DEF HandshakeTypes
    <3> QED
      BY <1>0, <1>1, <1>3, <3>1, <3>2
  <2>8. /\ input' \in [Side -> Seq(Units)] /\ input'[s] = v /\ input'[o] = input[o]
    BY <1>0, <1>1, <2>1, <2>4 DEF HandshakeTypes
  <2>9. ~Has("eof", v)
    BY <1>1, <2>4 DEF SideInv, Control
  <2>10. CASE qp'[s] = "rts"
    <3>1. /\ state' = [state EXCEPT ![s] = "rts"] /\ pc' = [pc EXCEPT ![s] = "register"]
          /\ tcp' = tcp /\ wire' = wire
      BY <1>5, <2>10 DEF HandshakeInit
    <3> HIDE DEF o, q
    <3>2. /\ state'[s] = "rts" /\ state'[o] = state[o]
          /\ pc'[s] = "register" /\ pc'[o] = pc[o]
          /\ state' \in [Side -> {"notInit", "init", "rts", "connected"}]
          /\ pc' \in [Side -> {"loop", "message", "register", "send"}]
      BY <1>0, <1>1, <3>1 DEF HandshakeTypes
    <3>3. HandshakeTypes' /\ Network'
      BY <1>1, <1>2, <2>7, <2>8, <3>1, <3>2 DEF HandshakeTypes, Network
    <3>4. Control(s)' /\ Control(o)'
      BY <1>1, <1>2, <1>3, <2>7, <2>8, <2>9, <3>1, <3>2 DEF SideInv, Control
    <3>5. /\ Used(s)' = InfoLen /\ Used(o)' = Used(o) /\ Open(s)' = Open(s)
          /\ Open(o)' = Open(o) /\ SentBy(s)' = SentBy(s) /\ SentBy(o)' = SentBy(o)
      BY <1>2, <3>1, <3>2 DEF Used, Open, SentBy
    <3>6. Length(s, o)' = Length(s, o)
      BY <1>2, <2>8, <3>1, <3>5 DEF Length
    <3>7. InfoLen + Len(v) = Used(s) + Len(input[s]) /\ Length(o, s)' = Length(o, s)
      <4>1. InfoLen + Len(v) = 0 + Len(q)
        BY <1>1, <2>2, <2>4
      <4>2. InfoLen + Len(v) = Used(s) + Len(input[s])
        BY <2>2, <4>1 DEF q
      <4> QED
        BY <1>2, <2>8, <3>1, <3>5, <4>2 DEF Length
    <3>8. Sends(s, o)'
      <4>1. /\ ~Has("k", input[o]) /\ ~Has("k", wire[o]) /\ ~Has("k", output[s])
            /\ state[o] # "connected"
        BY <1>1, <1>3 DEF SideInv, Sends
      <4>2. Sends(s, o)
        BY <1>1 DEF SideInv
      <4> QED
        BY <1>2, <1>3, <2>8, <3>1, <3>2, <3>5, <3>6, <4>1, <4>2 DEF Sends
    <3>9. Sends(o, s)'
      <4>1. Sends(o, s) /\ Open(s)
        BY <1>1, <1>3 DEF SideInv, Open
      <4>2. /\ Placed(0, q) /\ Placed(Used(s) + Len(input[s]), wire[s])
            /\ Placed(Used(s) + Len(input[s]) + Len(wire[s]), output[o])
            /\ Has("k", v) => Has("k", input[s])
        BY <2>2, <2>4, <4>1 DEF Sends, q
      <4>3. /\ Placed(InfoLen, v) /\ Placed(InfoLen + Len(v), wire[s])
            /\ Placed(InfoLen + Len(v) + Len(wire[s]), output[o])
        BY <2>4, <3>7, <4>2
      <4>4. state[s] # "connected" /\ state'[s] # "connected"
        BY <1>2, <3>2
      <4> QED
        BY <1>2, <2>6, <2>7, <2>8, <3>1, <3>5, <3>7, <4>1, <4>2, <4>3, <4>4 DEF Sends
    <3>10. Faultless(s, o)'
      BY <1>3, <3>1 DEF Faultless, Open
    <3>11. Faultless(o, s)'
      BY <1>1, <1>2, <2>7, <3>1, <3>2, <3>5, <3>7 DEF SideInv, Faultless
    <3> QED
      BY <1>1, <3>3, <3>4, <3>8, <3>9, <3>10, <3>11, InvNext DEF SideInv, o
  <2>11. CASE qp'[s] # "rts"
    <3>1. /\ tcp' = [tcp EXCEPT ![s] = "disconnecting"] /\ pc' = [pc EXCEPT ![s] = "loop"]
          /\ state' = state /\ ShutdownInLoop(s, output[s])
      BY <1>5, <2>11 DEF HandshakeInit, Shutdown
    <3>2. Shut(s, o)
      BY <1>1, <3>1, ShutdownShuts
    <3> HIDE DEF o, q
    <3>3. /\ tcp'[s] = "disconnecting" /\ tcp'[o] = tcp[o]
          /\ pc'[s] = "loop" /\ pc'[o] = pc[o]
          /\ tcp' \in [Side -> {"none", "connected", "disconnecting", "disconnected",
                                  "destroyed"}]
          /\ pc' \in [Side -> {"loop", "message", "register", "send"}]
      BY <1>0, <1>1, <3>1 DEF HandshakeTypes
    <3>4. /\ wire' \in [Side -> Seq(Units)] /\ wire'[s] = wire[s]
          /\ Has("k", wire'[o]) => Has("k", wire[o])
      BY <3>2 DEF Shut
    <3>5. HandshakeTypes'
      BY <1>1, <1>2, <2>7, <2>8, <3>1, <3>3, <3>4 DEF HandshakeTypes
    <3>6. Network'
      BY <1>0, <1>1, <1>2, <1>3, <2>6, <3>3, TwoSides DEF Network, o
    <3>7. Control(s)' /\ Control(o)'
      BY <1>1, <1>2, <1>3, <2>7, <2>8, <2>9, <3>1, <3>3 DEF SideInv, Control
    <3>8. Faultless(s, o)' /\ Faultless(o, s)'
      BY <2>7, <2>11 DEF Faultless
    <3>9. Sends(s, o)
      BY <1>1 DEF SideInv
    <3>10. ASSUME Open(o)
           PROVE  /\ Placed(Used(o), input[o])
                  /\ Placed(Used(o) + Len(input[o]), wire'[o])
                  /\ Placed(Used(o) + Len(input[o]) + Len(wire'[o]), output[s])
      <4> DEFINE a == Used(o) + Len(input[o])
      <4>1. /\ Placed(Used(o), input[o]) /\ Placed(a, wire[o])
            /\ Placed(a + Len(wire[o]), output[s])
        BY <3>9, <3>10 DEF Sends
      <4>2. a \in Nat
        BY <1>1 DEF Has1
      <4> HIDE DEF a
      <4>3. Placed(a, wire'[o]) /\ Placed(a + Len(wire'[o]), output[s])
        BY <3>2, <4>1, <4>2 DEF Shut
      <4> QED
        BY <4>1, <4>3 DEF a
    <3>11. Sends(s, o)'
      <4>1. /\ Used(o)' = Used(o) /\ Open(o)' = Open(o) /\ state'[o] = state[o]
            /\ input'[o] = input[o] /\ output'[s] = output[s]
        BY <1>2, <2>8, <3>1, <3>3 DEF Used, Open
      <4>2. ~(Has("k", input[o]) \/ Has("k", wire[o]) \/ Has("k", output[s])
              \/ state[o] = "connected")
        BY <1>3, <3>9 DEF Sends
      <4> QED
        BY <3>3, <3>4, <3>10, <4>1, <4>2 DEF Sends
    <3>12. Sends(o, s)'
      <4>1. Sends(o, s) /\ ~Open(s)'
        BY <1>1, <3>3 DEF SideInv, Open
      <4>2. /\ output'[o] = output[o] /\ state'[s] = state[s]
            /\ Has("k", v) => Has("k", input[s])
        BY <1>2, <2>4, <3>1 DEF q
      <4> QED
        BY <2>6, <2>7, <2>8, <3>3, <3>4, <4>1, <4>2 DEF Sends
    <3> QED
      BY <1>1, <3>5, <3>6, <3>7, <3>8, <3>11, <3>12, InvNext DEF SideInv, o
  <2> QED
    BY <2>10, <2>11
<1> QED
  BY <1>4, <1>5

\* handshakeQp in kRdmaRTS.
LEMMA DoneKeeps ==
  ASSUME HandshakeInv, NEW s \in Side, HandshakeDone(s)
  PROVE  HandshakeInv'
<1> DEFINE o == Other(s)
<1>0. o \in Side /\ o # s
  BY TwoSides
<1>1. /\ InfoLen \in Nat \ {0} /\ HandshakeTypes /\ SideInv(s, o) /\ SideInv(o, s)
      /\ Has1(s) /\ Has1(o) /\ Network /\ nfault \in Nat
  BY InvParts DEF HandshakeInv
<1>2. /\ pc[s] = "message" /\ state[s] = "rts" /\ pc' = [pc EXCEPT ![s] = "loop"]
      /\ UNCHANGED <<connector, sock, backlog, qp, output, nfault>>
  BY DEF HandshakeDone, netvars
<1>3. tcp[s] = "connected" /\ qp[s] = "up"
  BY <1>1, <1>2 DEF SideInv, Control
<1>4. /\ pc'[s] = "loop" /\ pc'[o] = pc[o]
      /\ pc' \in [Side -> {"loop", "message", "register", "send"}]
  BY <1>0, <1>1, <1>2 DEF HandshakeTypes
<1>5. CASE ~HaveComplete(s)
  <2>1. input[s] = <<>> /\ UNCHANGED <<tcp, state, wire, input, called>>
    BY <1>5 DEF HandshakeDone, HaveComplete
  <2> HIDE DEF o
  <2>3. HandshakeTypes' /\ Network'
    BY <1>1, <1>2, <1>4, <2>1 DEF HandshakeTypes, Network
  <2>4. Control(s)' /\ Control(o)'
    BY <1>1, <1>2, <1>4, <2>1 DEF SideInv, Control
  <2>5. SentBy(s)' = SentBy(s) /\ SentBy(o)' = SentBy(o)
    BY <1>2, <1>4, <2>1 DEF SentBy
  <2>6. Sends(s, o)' /\ Sends(o, s)'
    BY <1>1, <1>2, <2>1, <2>5 DEF SideInv, Sends, Open, Used, Length
  <2>7. Faultless(s, o)' /\ Faultless(o, s)'
    BY <1>1, <1>2, <2>1 DEF SideInv, Faultless, Open, Used, Length
  <2> QED
    BY <1>1, <2>3, <2>4, <2>6, <2>7, InvNext DEF SideInv, o
<1>6. CASE HaveComplete(s)
  <2> DEFINE q == input[s]
             v == SubSeq(q, 2, Len(q))
  <2>1. /\ q # <<>> /\ input' = [input EXCEPT ![s] = v]
        /\ state' = [state EXCEPT ![s] = "connected"]
        /\ called' = [called EXCEPT ![s] = @ + 1]
        /\ tcp' = [tcp EXCEPT ![s] = "disconnecting"]
        /\ ShutdownInLoop(s, output[s])
    BY <1>6 DEF HandshakeDone, HaveComplete, Shutdown
  <2>2. Shut(s, o)
    BY <1>1, <2>1, ShutdownShuts
  <2>3. q \in Seq(Units)
    BY <1>1 DEF Has1
  <2>4. Len(q) \in Nat /\ Len(q) >= 1
    BY <2>1, <2>3
  <2>5. CutOf(q, 1, SubSeq(q, 1, 1), v)
    <3>1. 1 \in Nat /\ 1 <= Len(q) /\ 1 + 1 = 2
      BY <2>4
    <3>2. CutOf(q, 1, SubSeq(q, 1, 1), SubSeq(q, 1 + 1, Len(q)))
      BY <2>3, <3>1, CutUnits
    <3> QED
      BY <3>1, <3>2
  <2> HIDE DEF v, o
  <2>6. v \in Seq(Units) /\ \A x : Has(x, v) => Has(x, q)
    BY <2>5 DEF CutOf
  <2>7. ~Has("eof", q) /\ ~Has("eof", v)
    BY <1>1, <2>6 DEF SideInv, Control
  <2>8. Used(s) = InfoLen /\ Open(s)
    BY <1>2, <1>3 DEF Used, Open
  <2>9. qp[o] = "up"
    <3>1. Placed(InfoLen, q)
      BY <1>1, <2>8 DEF SideInv, Sends
    <3>2. 1 \in 1 .. Len(q) /\ q[1] \in Units
      BY <2>3, <2>4
    <3>3. Fits(InfoLen + 1, q[1]) /\ q[1] # "eof"
      BY <2>7, <3>1, <3>2 DEF Placed, Has
    <3>4. ~(InfoLen + 1 <= InfoLen)
      BY <1>1
    <3>5. q[1] = "k"
      BY <3>2, <3>3, <3>4 DEF Fits, Units
    <3>6. Has("k", q)
      BY <3>2, <3>5 DEF Has
    <3> QED
      BY <1>1, <3>6 DEF SideInv, Sends
  <2>10. tcp[o] # "none"
    BY <1>1, <2>1 DEF SideInv, Sends
  <2>11. called[s] = 0
    BY <1>1, <1>2 DEF SideInv, Control
  <2> HIDE DEF q
  <2>12. /\ input' \in [Side -> Seq(Units)] /\ input'[s] = v /\ input'[o] = input[o]
         /\ state'[s] = "connected" /\ state'[o] = state[o]
         /\ state' \in [Side -> {"notInit", "init", "rts", "connected"}]
    BY <1>0, <1>1, <2>1, <2>6 DEF HandshakeTypes
  <2>13. /\ tcp'[s] = "disconnecting" /\ tcp'[o] = tcp[o]
         /\ tcp' \in [Side -> {"none", "connected", "disconnecting", "disconnected",
                                 "destroyed"}]
         /\ called'[s] = 1 /\ called'[o] = called[o] /\ called' \in [Side -> Nat]
    BY <1>0, <1>1, <2>1, <2>11 DEF HandshakeTypes
  <2>14. /\ wire' \in [Side -> Seq(Units)] /\ wire'[s] = wire[s]
         /\ output[s] # <<>> => wire'[o] = wire[o]
         /\ Has("k", wire'[o]) => Has("k", wire[o])
         /\ ~Has("eof", wire[o]) => EofLast(wire'[o])
    BY <2>2 DEF Shut
  <2>15. HandshakeTypes'
    BY <1>1, <1>2, <1>4, <2>12, <2>13, <2>14 DEF HandshakeTypes
  <2>16. Network'
    BY <1>0, <1>1, <1>2, <1>3, <2>10, <2>13, TwoSides DEF Network, o
  <2>17. Control(s)' /\ Control(o)'
    BY <1>1, <1>2, <1>3, <1>4, <2>7, <2>12, <2>13 DEF SideInv, Control
  <2>18. /\ Used(o)' = Used(o) /\ Open(o)' = Open(o) /\ ~Open(s)'
         /\ output' = output
    BY <1>2, <2>12, <2>13 DEF Used, Open
  <2>19. Sends(s, o)
    BY <1>1 DEF SideInv
  <2>20. ASSUME Open(o)
         PROVE  /\ Placed(Used(o), input[o])
                /\ Placed(Used(o) + Len(input[o]), wire'[o])
                /\ Placed(Used(o) + Len(input[o]) + Len(wire'[o]), output[s])
                /\ Length(s, o)' = InfoLen + 1 + (IF output[s] = <<>> THEN 1 ELSE 0)
    <3> DEFINE a == Used(o) + Len(input[o])
               w == Len(wire[o])
               x == Len(output[s])
               y == Len(wire'[o])
               d == IF output[s] = <<>> THEN 1 ELSE 0
    <3>1. /\ Placed(Used(o), input[o]) /\ Placed(a, wire[o])
          /\ Placed(a + Len(wire[o]), output[s])
      BY <2>19, <2>20 DEF Sends
    <3>2. a \in Nat /\ w \in Nat /\ x \in Nat /\ d \in Nat
      BY <1>1 DEF Has1
    <3>3. a + w + x = InfoLen + 1
      BY <1>2, <1>3, <2>19, <2>20 DEF Sends, Length, SentBy
    <3>4. y = w + d /\ Length(s, o)' = a + y + x
      BY <2>2, <2>12, <2>18 DEF Shut, Length
    <3>7. InfoLen \in Nat
      BY <1>1
    <3> HIDE DEF a
    <3>5. Placed(a, wire'[o]) /\ Placed(a + Len(wire'[o]), output[s])
      BY <2>2, <3>1, <3>2 DEF Shut
    <3> HIDE DEF w, x, y, d
    <3>6. a + y + x = InfoLen + 1 + d
      BY ONLY <3>2, <3>3, <3>4, <3>7
    <3> QED
      BY <3>1, <3>4, <3>5, <3>6 DEF a, d
  <2>21. Sends(s, o)'
    <3>1. qp'[s] = "up"
      BY <1>2, <1>3
    <3> QED
      BY <2>12, <2>13, <2>18, <2>20, <3>1 DEF Sends
  <2>22. Sends(o, s)'
    <3>1. Sends(o, s) /\ qp'[o] = "up"
      BY <1>1, <1>2, <2>9 DEF SideInv
    <3> QED
      BY <2>10, <2>13, <2>14, <2>18, <3>1 DEF Sends
  <2>23. Faultless(s, o)'
    <3>1. ~Has("eof", wire[o])
      BY <1>3, <2>19 DEF Sends
    <3> QED
      BY <2>12, <2>13, <2>14, <2>18, <2>20, <3>1 DEF Faultless
  <2>24. Faultless(o, s)'
    <3>1. Faultless(o, s) /\ nfault' = nfault
      BY <1>1, <1>2 DEF SideInv
    <3> QED
      BY <2>12, <2>18, <3>1 DEF Faultless
  <2> QED
    BY <1>1, <2>15, <2>16, <2>17, <2>21, <2>22, <2>23, <2>24, InvNext DEF SideInv, o
<1> QED
  BY <1>5, <1>6

LEMMA CloseKeeps ==
  ASSUME HandshakeInv, NEW s \in Side, HandleClose(s)
  PROVE  HandshakeInv'
<1> DEFINE o == Other(s)
<1>0. o \in Side /\ o # s
  BY TwoSides
<1>1. /\ InfoLen \in Nat \ {0} /\ HandshakeTypes /\ SideInv(s, o) /\ SideInv(o, s)
      /\ Has1(s) /\ Has1(o) /\ Network /\ nfault \in Nat
  BY InvParts DEF HandshakeInv
<1>2. /\ pc[s] = "loop" /\ tcp[s] \in {"connected", "disconnecting"}
      /\ wire[s] # <<>> /\ Head(wire[s]) = "eof"
      /\ tcp' = [tcp EXCEPT ![s] = "disconnected"]
      /\ output' = [output EXCEPT ![s] = <<>>]
      /\ UNCHANGED <<connector, sock, backlog, state, qp, wire, input, pc, called, nfault>>
  BY DEF HandleClose, netvars
<1> HIDE DEF o
<1>3. Has("eof", wire[s]) /\ (EofLast(wire[s]) => Len(wire[s]) = 1)
  BY <1>1, <1>2, EofNext DEF Has1
<1>4. tcp[o] # "none" /\ tcp[o] # "connected" /\ ~Open(o)
  BY <1>1, <1>2, <1>3 DEF SideInv, Sends, Open
<1>5. /\ tcp'[s] = "disconnected" /\ tcp'[o] = tcp[o]
      /\ output'[s] = <<>> /\ output'[o] = output[o]
      /\ tcp' \in [Side -> {"none", "connected", "disconnecting", "disconnected",
                              "destroyed"}]
      /\ output' \in [Side -> Seq(Units)]
  BY <1>0, <1>1, <1>2, FewUnits DEF HandshakeTypes
<1>6. HandshakeTypes'
  BY <1>1, <1>2, <1>5 DEF HandshakeTypes
<1>7. Network'
  BY <1>0, <1>1, <1>2, <1>4, <1>5, TwoSides DEF Network, o
<1>8. ~Has("k", <<>>) /\ ~Has("eof", <<>>) /\ \A a \in Nat : Placed(a, <<>>)
  BY FewUnits
<1>9. Control(s)' /\ Control(o)'
  BY <1>1, <1>2, <1>5, <1>8 DEF SideInv, Control
<1>10. /\ Used(s)' = Used(s) /\ Used(o)' = Used(o) /\ ~Open(s)' /\ ~Open(o)'
  BY <1>2, <1>4, <1>5 DEF Used, Open
<1>11. Sends(s, o)'
  <2>1. Sends(s, o)
    BY <1>1 DEF SideInv
  <2> QED
    BY <1>2, <1>5, <1>8, <1>10, <2>1 DEF Sends
<1>12. Sends(o, s)'
  <2>1. Sends(o, s)
    BY <1>1 DEF SideInv
  <2> QED
    BY <1>2, <1>4, <1>5, <1>10, <2>1 DEF Sends
<1>13. ASSUME nfault = 0 PROVE state[s] = "connected" /\ state[o] = "connected"
  <2>1. state[o] = "connected"
    BY <1>1, <1>4, <1>13 DEF SideInv, Faultless
  <2>2. CASE tcp[s] = "disconnecting"
    BY <1>1, <1>13, <2>1, <2>2 DEF SideInv, Faultless, Open
  <2>3. CASE tcp[s] = "connected"
    <3>1. /\ Length(o, s) = InfoLen + 1 + (IF output[o] = <<>> THEN 1 ELSE 0)
          /\ output[o] # <<>> => ~Has("eof", wire[s])
          /\ EofLast(wire[s])
      BY <1>1, <1>4, <1>13, <2>3 DEF SideInv, Faultless, Open
    <3>2. output[o] = <<>> /\ Len(wire[s]) = 1 /\ Len(output[o]) = 0
      BY <1>3, <3>1, FewUnits
    <3>3. state[s] \in {"init", "rts"}
      BY <1>1, <2>3 DEF SideInv, Control
    <3> DEFINE w == Len(input[s])
    <3>4. /\ w \in Nat /\ (state[s] = "init" => w < InfoLen)
          /\ (state[s] = "rts" => w = 0)
      BY <1>1, <1>2, <2>3, FewUnits DEF SideInv, Control, Has1
    <3>5. Used(s) + w + 1 + 0 = InfoLen + 1 + 1
      BY <3>1, <3>2 DEF Length
    <3> HIDE DEF w
    <3>6. Used(s) = IF state[s] = "rts" THEN InfoLen ELSE 0
      BY <3>3 DEF Used
    <3>7. InfoLen \in Nat
      BY <1>1
    <3> QED
      BY ONLY <3>3, <3>4, <3>5, <3>6, <3>7
  <2> QED
    BY <1>2, <2>1, <2>2, <2>3
<1>14. Faultless(s, o)' /\ Faultless(o, s)'
  <2>1. state' = state /\ nfault' = nfault
    BY <1>2
  <2> QED
    BY <1>10, <1>13, <2>1 DEF Faultless
<1> QED
  BY <1>1, <1>6, <1>7, <1>9, <1>11, <1>12, <1>14, InvNext DEF SideInv, o

LEMMA DestroyKeeps ==
  ASSUME HandshakeInv, NEW s \in Side, ConnectDestroyed(s)
  PROVE  HandshakeInv'
<1> DEFINE o == Other(s)
<1>0. o \in Side /\ o # s
  BY TwoSides
<1>1. /\ InfoLen \in Nat \ {0} /\ HandshakeTypes /\ SideInv(s, o) /\ SideInv(o, s)
      /\ Has1(s) /\ Has1(o) /\ Network /\ nfault \in Nat
  BY InvParts DEF HandshakeInv
<1>2. /\ tcp[s] = "disconnected" /\ tcp' = [tcp EXCEPT ![s] = "destroyed"]
      /\ qp' = [qp EXCEPT ![s] = IF @ = "up" THEN @ ELSE "none"]
      /\ wire' = wire \/ wire' = [wire EXCEPT ![o] = Append(@, "eof")]
      /\ UNCHANGED <<connector, sock, backlog, state, input, output, pc, called, nfault>>
  BY DEF ConnectDestroyed, ReleaseUnregistered, netvars
<1> HIDE DEF o
<1>3. /\ tcp'[s] = "destroyed" /\ tcp'[o] = tcp[o]
      /\ tcp' \in [Side -> {"none", "connected", "disconnecting", "disconnected",
                              "destroyed"}]
      /\ qp'[s] = "up" <=> qp[s] = "up"
      /\ qp'[o] = qp[o] /\ qp' \in [Side -> {"none", "init", "rts", "up"}]
  BY <1>0, <1>1, <1>2 DEF HandshakeTypes
<1>4. wire[o] \in Seq(Units) /\ wire \in [Side -> Seq(Units)]
  BY <1>0, <1>1 DEF HandshakeTypes
<1>5. /\ wire'[s] = wire[s] /\ wire' \in [Side -> Seq(Units)]
      /\ Has("k", wire'[o]) => Has("k", wire[o])
      /\ \A a \in Nat : Placed(a, wire[o]) => Placed(a, wire'[o])
  <2>1. CASE wire' = wire
    BY <1>4, <2>1
  <2>2. CASE wire' = [wire EXCEPT ![o] = Append(@, "eof")]
    <3> DEFINE c == Append(wire[o], "eof")
    <3>1. /\ c \in Seq(Units)
          /\ Has("k", c) => Has("k", wire[o])
          /\ \A a \in Nat : Placed(a, wire[o]) => Placed(a, c)
      BY <1>4, EofUnits
    <3>2. wire' = [wire EXCEPT ![o] = c]
      BY <2>2
    <3> HIDE DEF c
    <3>3. wire'[o] = c /\ wire'[s] = wire[s] /\ wire' \in [Side -> Seq(Units)]
      BY <1>0, <1>4, <3>1, <3>2
    <3> QED
      BY <3>1, <3>3
  <2> QED
    BY <1>2, <2>1, <2>2
<1>6. HandshakeTypes'
  BY <1>1, <1>2, <1>3, <1>5 DEF HandshakeTypes
<1>7. Network'
  BY <1>0, <1>1, <1>2, <1>3, TwoSides DEF Network, o
<1>8. Control(s)' /\ Control(o)'
  BY <1>1, <1>2, <1>3 DEF SideInv, Control
<1>9. /\ Used(s)' = Used(s) /\ Used(o)' = Used(o) /\ ~Open(s)' /\ ~Open(s)
      /\ Open(o)' = Open(o) /\ output[s] = <<>>
  BY <1>1, <1>2, <1>3 DEF Used, Open, SideInv, Control
<1>10. Sends(s, o)'
  <2>1. Sends(s, o)
    BY <1>1 DEF SideInv
  <2>2. Used(o) + Len(input[o]) \in Nat
    BY <1>1 DEF Has1
  <2>3. Placed(Used(o) + Len(input[o]) + Len(wire'[o]), <<>>)
    <3>1. wire'[o] \in Seq(Units)
      BY <1>0, <1>5
    <3>2. Len(wire'[o]) \in Nat
      BY ONLY <3>1
    <3>3. \A a, b \in Nat : Placed(a + b, <<>>)
      BY FewUnits
    <3> QED
      BY <2>2, <3>2, <3>3, Zenon
  <2>4. input'[o] = input[o] /\ output'[s] = output[s] /\ state'[o] = state[o]
    BY <1>2
  <2> QED
    BY <1>3, <1>5, <1>9, <2>1, <2>2, <2>3, <2>4 DEF Sends
<1>11. Sends(o, s)'
  <2>1. Sends(o, s)
    BY <1>1 DEF SideInv
  <2>2. /\ input' = input /\ output' = output /\ state' = state
        /\ Length(o, s)' = Length(o, s)
    BY <1>2, <1>5, <1>9 DEF Length
  <2> QED
    BY <1>3, <1>5, <1>9, <2>1, <2>2 DEF Sends
<1>12. Faultless(s, o)'
  <2> SUFFICES ASSUME nfault = 0 PROVE Faultless(s, o)'
    BY <1>2 DEF Faultless
  <2>1. state[s] = "connected" /\ state[o] = "connected"
    BY <1>1, <1>2, <1>9 DEF SideInv, Faultless
  <2>2. ~Open(o)
    BY <1>1, <2>1 DEF SideInv, Control, Open
  <2> QED
    BY <1>2, <1>9, <2>1, <2>2 DEF Faultless
<1>13. Faultless(o, s)'
  <2>1. Faultless(o, s)
    BY <1>1 DEF SideInv
  <2> QED
    BY <1>2, <1>3, <1>9, <2>1 DEF Faultless
<1> QED
  BY <1>1, <1>6, <1>7, <1>8, <1>10, <1>11, <1>12, <1>13, InvNext DEF SideInv, o

LEMMA HandshakeStutters ==
  ASSUME HandshakeInv, UNCHANGED hsVars
  PROVE  HandshakeInv'
<1>1. UNCHANGED <<connector, sock, backlog, tcp, state, qp, wire, input, output,
                  pc, called, nfault>>
  BY DEF hsVars, netvars
<1>2. Network' /\ nfault' \in Nat
  BY <1>1 DEF HandshakeInv, Network, HandshakeTypes
<1> QED
  BY <1>1, <1>2, NetworkKeeps

LEMMA HandshakeSteps == HandshakeInv /\ [HsNext]_hsVars => HandshakeInv'
<1> SUFFICES ASSUME HandshakeInv, [HsNext]_hsVars PROVE HandshakeInv'
  OBVIOUS
<1>1. CASE HsNext
  <2>1. CASE \E s \in Side : SideNext(s)
    <3>1. PICK s \in Side : SideNext(s)
      BY <2>1
    <3> QED
      BY <3>1, ReadKeeps, WriteKeeps, InfoKeeps, RegisterKeeps, SendCompleteKeeps,
         DoneKeeps, CloseKeeps, DestroyKeeps DEF SideNext
  <2> QED
    BY <1>1, <2>1, ListenKeeps, StartKeeps, KernelKeeps, ConnectorKeeps, AcceptKeeps
       DEF HsNext
<1> QED
  BY <1>1, HandshakeStutters

\* The invariant of the handshake: for every length of the RdmaExchangeInfo,
\* every way the bytes are cut into reads and writes and any number of failing
\* calls, the two streams of TcpConnection, with what waits in outputBuffer_ and
\* inputBuffer_, hold exactly what handshakeQp has sent and not yet used up.
THEOREM HandshakeInvariance == HsSpec => []HandshakeInv
<1>1. HsInit => HandshakeInv
  BY HandshakeStarts
<1>2. HandshakeInv /\ [HsNext]_hsVars => HandshakeInv'
  BY HandshakeSteps
<1> QED
  BY <1>1, <1>2, PTL DEF HsSpec

\* connectedCallback_ is called at most once, and only when the peer has filled
\* its receive queue and its loop watches the queue pair; what handshakeQp
\* asserts to be kHandshakeCompleteMsg is that message.
THEOREM AlwaysPeerReady == HsSpec => []PeerReady
<1>1. HandshakeInv => PeerReady
  <2> SUFFICES ASSUME HandshakeInv, NEW s \in Side
               PROVE  /\ called[s] > 0 => called[s] = 1 /\ qp[Other(s)] = "up"
                      /\ pc[s] = "message" /\ state[s] = "rts" /\ input[s] # <<>> =>
                           Head(input[s]) = "k"
    BY DEF PeerReady
  <2> DEFINE o == Other(s)
  <2>1. /\ InfoLen \in Nat \ {0} /\ SideInv(s, o) /\ SideInv(o, s) /\ Has1(s)
    BY InvParts
  <2>2. called[s] > 0 => called[s] = 1 /\ qp[o] = "up"
    BY <2>1 DEF SideInv, Control, Sends
  <2>3. ASSUME pc[s] = "message", state[s] = "rts", input[s] # <<>>
        PROVE  Head(input[s]) = "k"
    <3> DEFINE q == input[s]
    <3>1. Used(s) = InfoLen /\ Open(s) /\ q \in Seq(Units) /\ ~Has("eof", q)
      BY <2>1, <2>3 DEF Used, Open, SideInv, Control, Has1
    <3>2. Placed(InfoLen, q)
      BY <2>1, <3>1 DEF SideInv, Sends
    <3>3. q # <<>>
      BY <2>3
    <3> HIDE DEF q
    <3>4. Len(q) \in Nat /\ 1 \in 1 .. Len(q) /\ q[1] \in Units /\ Head(q) = q[1]
      BY <3>1, <3>3
    <3>5. Fits(InfoLen + 1, q[1]) /\ q[1] # "eof"
      BY <3>1, <3>2, <3>4 DEF Placed, Has
    <3>6. ~(InfoLen + 1 <= InfoLen)
      BY <2>1
    <3> QED
      BY <3>4, <3>5, <3>6 DEF Fits, Units, q
  <2> QED
    BY <2>2, <2>3
<1> QED
  BY <1>1, HandshakeInvariance, PTL

\* Without a failing call, no side gets to handleClose, which throws away what
\* it has not written, before its own handshake is over: the half close of the
\* side that is done first does not cut the slower one off.
THEOREM NeverEarlyClose == HsSpec => []NoEarlyClose
<1>1. HandshakeInv => NoEarlyClose
  <2> SUFFICES ASSUME HandshakeInv, nfault = 0, NEW s \in Side,
                      tcp[s] \in {"disconnected", "destroyed"}
               PROVE  state[s] = "connected"
    BY DEF NoEarlyClose
  <2>1. SideInv(s, Other(s))
    BY InvParts
  <2> QED
    BY <2>1 DEF SideInv, Faultless, Open
<1> QED
  BY <1>1, HandshakeInvariance, PTL
=============================================================================
