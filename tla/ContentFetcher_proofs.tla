------------------------ MODULE ContentFetcher_proofs ------------------------
(***************************************************************************)
(* The DPU's fetcher, for any images, layers, numbers of segments and of   *)
(* send buffers, and any segments the registry lacks: the segments of a    *)
(* layer are handed on in order and once, and the assertion of onConnected *)
(* holds.                                                                  *)
(*                                                                         *)
(* The argument is about one sequence, Pipe: what was handed on, followed  *)
(* by the responses, the requests, unsend_reqs_ and the fetch() calls not  *)
(* yet made.  Most steps move a request within Pipe without changing it;   *)
(* the response to a segment 0 inserts its follow-ups, Offload adds at the *)
(* end, and the content server drops what it lacks.                        *)
(*                                                                         *)
(* The last section is about where a layer's total_segment.txt, which the  *)
(* fetcher counts with, comes from: the tool image_compress, for any folder*)
(* and any segment sizes, killed and run again at any point.               *)
(***************************************************************************)
EXTENDS ContentFetcher, ImageCompress, SequenceTheorems, TLAPS

\* An image lists a layer once.
LayersDistinct ==
  \A i \in Images : \A m, n \in DOMAIN ImageLayers[i] :
    ImageLayers[i][m] = ImageLayers[i][n] => m = n

\* Concatenation, under a name of its own: its definition is used only for the
\* lemmas below.
s ++ t == s \o t

\* What is still to be sent, and everything in its order.
Coming == unsend ++ (functors ++ calls)
Pipe == submitted ++ (replies ++ (requests ++ Coming))

\* r is in the sequence s.
In(s, r) == \E n \in DOMAIN s : s[n] = r

\* The segments of a layer are in s in their order, and once.
Ascending(s) ==
  \A m, n \in DOMAIN s :
    m < n /\ SameLayer(s[m], s[n]) => s[m].index < s[n].index

\* What s has of a layer comes before what t has of it.
Before(s, t) ==
  \A m \in DOMAIN s, n \in DOMAIN t :
    SameLayer(s[m], t[n]) => s[m].index < t[n].index

\* No segment is left out but the ones the registry lacks.
NoGaps ==
  \A r \in Requests : In(Pipe, r) =>
    \A k \in 0 .. r.index - 1 :
      <<r.layer, k>> \notin missing => In(Pipe, Req(r.image, r.layer, k))

\* Requests for further segments follow the response for the first one.
FirstLeads ==
  \A r \in Requests :
    In(Pipe, r) /\ r.index > 0 => In(submitted, Req(r.image, r.layer, 0))

\* Only images that were pulled are asked for.
Pulled == \A r \in Requests : In(Pipe, r) => r.image \in asked

\* The content server answers with what it has.
Answered ==
  \A r \in Requests :
    In(submitted, r) \/ In(replies, r) => <<r.layer, r.index>> \notin missing

\* Nothing is sent before the connection is there.
Unconnected ==
  /\ client # "up" => free = Nc /\ requests = <<>> /\ replies = <<>>
  /\ client = "connecting" => unsend # <<>>

\* The inductive invariant: Base by itself, Order on top of it.
Base == TypeOK /\ Unconnected
Order == Ascending(Pipe) /\ NoGaps /\ FirstLeads /\ Pulled /\ Answered
FInv == Base /\ Order
-----------------------------------------------------------------------------
(* Sequences of requests. *)

\* A request asks for a segment of a layer.
LEMMA RequestFacts ==
  /\ \A r \in Requests :
       /\ r.image \in Images /\ r.layer \in Layers
       /\ r.index \in 0 .. Segs[r.layer] - 1 /\ Segs[r.layer] \in Nat
       /\ r = Req(r.image, r.layer, r.index)
  /\ \A i \in Images, l \in Layers : \A k \in 0 .. Segs[l] - 1 :
       Req(i, l, k) \in Requests
<1>1. \A l \in Layers : Segs[l] \in Nat \ {0}
  BY FetcherAssumption
<1>2. \A f \in SegFiles :
        f[1] \in Layers /\ f[2] \in 0 .. Segs[f[1]] - 1
  BY DEF SegFiles
<1>3. \A l \in Layers : \A k \in 0 .. Segs[l] - 1 : <<l, k>> \in SegFiles
  BY DEF SegFiles
<1>4. ASSUME NEW r \in Requests
      PROVE  /\ r.image \in Images /\ r.layer \in Layers
             /\ r.index \in 0 .. Segs[r.layer] - 1 /\ Segs[r.layer] \in Nat
             /\ r = Req(r.image, r.layer, r.index)
  <2>1. PICK i \in Images, f \in SegFiles : r = Req(i, f[1], f[2])
    BY DEF Requests
  <2> QED
    BY <1>1, <1>2, <2>1 DEF Req
<1>5. ASSUME NEW i \in Images, NEW l \in Layers, NEW k \in 0 .. Segs[l] - 1
      PROVE  Req(i, l, k) \in Requests
  <2>1. <<l, k>> \in SegFiles /\ <<l, k>>[1] = l /\ <<l, k>>[2] = k
    BY <1>3
  <2> QED
    BY <2>1 DEF Requests
<1> QED
  BY <1>4, <1>5

\* The segment before another one of the same layer can be asked for too.
LEMMA Earlier ==
  ASSUME NEW r \in Requests, NEW k \in 0 .. r.index
  PROVE  /\ Req(r.image, r.layer, k) \in Requests
         /\ Req(r.image, r.layer, k).image = r.image
         /\ Req(r.image, r.layer, k).layer = r.layer
         /\ Req(r.image, r.layer, k).index = k
<1>1. k \in 0 .. Segs[r.layer] - 1 /\ r.image \in Images /\ r.layer \in Layers
  BY RequestFacts
<1> QED
  BY <1>1, RequestFacts DEF Req

\* Sequences one behind the other.
LEMMA Cat ==
  \A s, t \in Seq(Requests) :
    s ++ t \in Seq(Requests) /\ Len(s ++ t) = Len(s) + Len(t)
  BY DEF ++

\* Concatenation is associative.
LEMMA CatAssoc ==
  \A s, t, u \in Seq(Requests) : (s ++ t) ++ u = s ++ (t ++ u)
  BY ConcatAssociative DEF ++

\* What is in two sequences, one behind the other.
LEMMA CatIn ==
  ASSUME NEW s \in Seq(Requests), NEW t \in Seq(Requests), NEW r
  PROVE  In(s ++ t, r) <=> In(s, r) \/ In(t, r)
<1>1. /\ DOMAIN s = 1 .. Len(s) /\ DOMAIN t = 1 .. Len(t)
      /\ Len(s) \in Nat /\ Len(t) \in Nat
      /\ DOMAIN (s ++ t) = 1 .. Len(s) + Len(t)
      /\ \A n \in 1 .. Len(s) : (s ++ t)[n] = s[n]
      /\ \A n \in 1 .. Len(t) : (s ++ t)[Len(s) + n] = t[n]
  BY DEF ++
<1>2. ASSUME In(s ++ t, r) PROVE In(s, r) \/ In(t, r)
  <2>1. PICK n \in 1 .. Len(s) + Len(t) : (s ++ t)[n] = r
    BY <1>1, <1>2 DEF In
  <2>2. CASE n \in 1 .. Len(s)
    BY <1>1, <2>1, <2>2 DEF In
  <2>3. CASE n \notin 1 .. Len(s)
    <3>1. n - Len(s) \in 1 .. Len(t) /\ Len(s) + (n - Len(s)) = n
      BY <1>1, <2>3
    <3> QED
      BY <1>1, <2>1, <3>1 DEF In
  <2> QED
    BY <2>2, <2>3
<1>3. In(s, r) => In(s ++ t, r)
  <2>1. \A n \in 1 .. Len(s) : n \in 1 .. Len(s) + Len(t)
    BY <1>1
  <2> QED
    BY <1>1, <2>1 DEF In
<1>4. In(t, r) => In(s ++ t, r)
  <2>1. \A n \in 1 .. Len(t) : Len(s) + n \in 1 .. Len(s) + Len(t)
    BY <1>1
  <2> QED
    BY <1>1, <2>1 DEF In
<1> QED
  BY <1>2, <1>3, <1>4

\* Before, in terms of what is in the sequences.
LEMMA BeforeIn ==
  ASSUME NEW s \in Seq(Requests), NEW t \in Seq(Requests)
  PROVE  Before(s, t) <=>
           \A q, r \in Requests :
             In(s, q) /\ In(t, r) /\ SameLayer(q, r) => q.index < r.index
<1>1. /\ \A n \in DOMAIN s : s[n] \in Requests
      /\ \A n \in DOMAIN t : t[n] \in Requests
  OBVIOUS
<1> QED
  BY <1>1 DEF Before, In

\* Two sequences are in order, one behind the other, if each is and the first
\* comes before the second.
LEMMA CatAscending ==
  ASSUME NEW s \in Seq(Requests), NEW t \in Seq(Requests)
  PROVE  Ascending(s ++ t) <=> Ascending(s) /\ Ascending(t) /\ Before(s, t)
<1> DEFINE c == s ++ t
<1>1. /\ DOMAIN s = 1 .. Len(s) /\ DOMAIN t = 1 .. Len(t)
      /\ Len(s) \in Nat /\ Len(t) \in Nat
      /\ DOMAIN c = 1 .. Len(s) + Len(t)
      /\ \A n \in 1 .. Len(s) : c[n] = s[n]
      /\ \A n \in 1 .. Len(t) : c[Len(s) + n] = t[n]
  BY DEF ++
<1> HIDE DEF c
<1>2. ASSUME Ascending(c) PROVE Ascending(s) /\ Ascending(t) /\ Before(s, t)
  <2>1. Ascending(s)
    <3>1. \A n \in 1 .. Len(s) : n \in 1 .. Len(s) + Len(t)
      BY <1>1
    <3> QED
      BY <1>1, <1>2, <3>1 DEF Ascending
  <2>2. ASSUME NEW m \in 1 .. Len(t), NEW n \in 1 .. Len(t), m < n,
               SameLayer(t[m], t[n])
        PROVE  t[m].index < t[n].index
    <3>1. /\ Len(s) + m \in DOMAIN c /\ Len(s) + n \in DOMAIN c
          /\ Len(s) + m < Len(s) + n
      BY <1>1, <2>2
    <3> QED
      BY <1>1, <1>2, <2>2, <3>1 DEF Ascending
  <2>3. ASSUME NEW m \in 1 .. Len(s), NEW n \in 1 .. Len(t),
               SameLayer(s[m], t[n])
        PROVE  s[m].index < t[n].index
    <3>1. /\ m \in DOMAIN c /\ Len(s) + n \in DOMAIN c /\ m < Len(s) + n
      BY <1>1
    <3> QED
      BY <1>1, <1>2, <2>3, <3>1 DEF Ascending
  <2> QED
    BY <1>1, <2>1, <2>2, <2>3 DEF Ascending, Before
<1>3. ASSUME Ascending(s), Ascending(t), Before(s, t) PROVE Ascending(c)
  <2> SUFFICES ASSUME NEW m \in 1 .. Len(s) + Len(t),
                      NEW n \in 1 .. Len(s) + Len(t), m < n,
                      SameLayer(c[m], c[n])
               PROVE  c[m].index < c[n].index
    BY <1>1 DEF Ascending
  <2>1. CASE n \in 1 .. Len(s)
    <3>1. m \in 1 .. Len(s)
      BY <1>1, <2>1
    <3> QED
      BY <1>1, <1>3, <2>1, <3>1 DEF Ascending
  <2>2. CASE m \notin 1 .. Len(s)
    <3>1. /\ m - Len(s) \in 1 .. Len(t) /\ Len(s) + (m - Len(s)) = m
          /\ n - Len(s) \in 1 .. Len(t) /\ Len(s) + (n - Len(s)) = n
          /\ m - Len(s) < n - Len(s)
      BY <1>1, <2>2
    <3>2. c[m] = t[m - Len(s)] /\ c[n] = t[n - Len(s)]
      BY <1>1, <3>1
    <3> QED
      BY <1>1, <1>3, <3>1, <3>2 DEF Ascending
  <2>3. CASE m \in 1 .. Len(s) /\ n \notin 1 .. Len(s)
    <3>1. n - Len(s) \in 1 .. Len(t) /\ Len(s) + (n - Len(s)) = n
      BY <1>1, <2>3
    <3>2. c[m] = s[m] /\ c[n] = t[n - Len(s)]
      BY <1>1, <2>3, <3>1
    <3> QED
      BY <1>1, <1>3, <2>3, <3>1, <3>2 DEF Before
  <2> QED
    BY <2>1, <2>2, <2>3
<1> QED
  BY <1>2, <1>3 DEF c

\* The first request of t goes to the end of s.
LEMMA MoveFirst ==
  ASSUME NEW s \in Seq(Requests), NEW t \in Seq(Requests), t # <<>>
  PROVE  /\ Head(t) \in Requests /\ Tail(t) \in Seq(Requests)
         /\ Append(s, Head(t)) \in Seq(Requests)
         /\ Append(s, Head(t)) ++ Tail(t) = s ++ t
         /\ \A r : In(t, r) <=> r = Head(t) \/ In(Tail(t), r)
         /\ \A r : In(Append(s, Head(t)), r) <=> In(s, r) \/ r = Head(t)
<1>1. Head(t) \in Requests /\ Tail(t) \in Seq(Requests)
  OBVIOUS
<1>2. <<Head(t)>> \in Seq(Requests) /\ t = <<Head(t)>> ++ Tail(t)
  BY <1>1 DEF ++
<1>3. Append(s, Head(t)) = s ++ <<Head(t)>>
  BY <1>1 DEF ++
<1>4. Append(s, Head(t)) ++ Tail(t) = s ++ t
  <2>1. (s ++ <<Head(t)>>) ++ Tail(t) = s ++ (<<Head(t)>> ++ Tail(t))
    BY <1>1, <1>2, CatAssoc
  <2>2. Append(s, Head(t)) ++ Tail(t) = (s ++ <<Head(t)>>) ++ Tail(t)
    BY <1>3
  <2>3. s ++ (<<Head(t)>> ++ Tail(t)) = s ++ t
    BY <1>2
  <2> QED
    BY <2>1, <2>2, <2>3
<1>5. \A r : In(<<Head(t)>>, r) <=> r = Head(t)
  BY DEF In
<1>6. ASSUME NEW r PROVE In(t, r) <=> r = Head(t) \/ In(Tail(t), r)
  <2>1. In(<<Head(t)>> ++ Tail(t), r) <=> In(<<Head(t)>>, r) \/ In(Tail(t), r)
    BY <1>1, <1>2, CatIn
  <2>2. In(t, r) <=> In(<<Head(t)>> ++ Tail(t), r)
    BY <1>2
  <2> QED
    BY <1>5, <2>1, <2>2
<1>7. ASSUME NEW r
      PROVE  In(Append(s, Head(t)), r) <=> In(s, r) \/ r = Head(t)
  <2>1. In(s ++ <<Head(t)>>, r) <=> In(s, r) \/ In(<<Head(t)>>, r)
    BY <1>2, CatIn
  <2>2. In(Append(s, Head(t)), r) <=> In(s ++ <<Head(t)>>, r)
    BY <1>3
  <2> QED
    BY <1>5, <2>1, <2>2
<1> QED
  BY <1>1, <1>3, <1>4, <1>6, <1>7

\* A queue to which something was appended is not empty.
LEMMA AppendNotEmpty ==
  \A s \in Seq(Requests), r \in Requests : Append(s, r) # <<>>
  BY AppendProperties

\* trySendRequests moves requests from the queue to the wire, as long as there
\* are free send buffers.
LEMMA TrySendMoves ==
  ASSUME NEW q \in Seq(Requests), NEW b \in Nat, TrySend(q, b),
         requests \in Seq(Requests)
  PROVE  /\ requests' \in Seq(Requests) /\ unsend' \in Seq(Requests)
         /\ requests' ++ unsend' = requests ++ q
         /\ free' \in 0 .. b
         /\ Len(requests') = Len(requests) + b - free'
<1> DEFINE n == IF Len(q) < b THEN Len(q) ELSE b
           h == SubSeq(q, 1, n)
           t == SubSeq(q, n + 1, Len(q))
<1>1. n \in 0 .. Len(q) /\ n <= b /\ Len(q) \in Nat
  OBVIOUS
<1>2. requests' = requests ++ h /\ unsend' = t /\ free' = b - n
  BY DEF TrySend, ++
<1> HIDE DEF n
<1>3. h \in Seq(Requests) /\ t \in Seq(Requests) /\ Len(h) = n
  <2>1. /\ \A i \in 1 .. n : q[i] \in Requests
        /\ \A i \in n + 1 .. Len(q) : q[i] \in Requests
    BY <1>1
  <2>2. n \in Int /\ n + 1 \in Int /\ Len(q) \in Int /\ n >= 0
    BY <1>1
  <2>3. h \in Seq(Requests) /\ Len(h) = IF 1 <= n THEN n - 1 + 1 ELSE 0
    BY <2>1, <2>2, SubSeqProperties
  <2>4. t \in Seq(Requests)
    BY <2>1, <2>2, SubSeqProperties
  <2> QED
    BY <2>2, <2>3, <2>4
<1>4. h ++ t = q
  <2>1. /\ 1 \in 1 .. Len(q) + 1 /\ n \in 1 - 1 .. Len(q)
        /\ Len(q) \in n .. Len(q)
    BY <1>1
  <2>2. h ++ t = SubSeq(q, 1, Len(q))
    BY <2>1, ConcatAdjacentSubSeq DEF ++
  <2> QED
    BY <2>2, SubSeqFull
<1> HIDE DEF h, t
<1>5. (requests ++ h) ++ t = requests ++ (h ++ t)
  BY <1>3, CatAssoc
<1>6. requests' ++ unsend' = requests ++ q
  BY <1>2, <1>4, <1>5
<1>7. requests' \in Seq(Requests) /\ Len(requests') = Len(requests) + Len(h)
  BY <1>2, <1>3, Cat
<1>8. Len(requests) \in Nat /\ b - n \in 0 .. b /\ n = b - (b - n)
  BY <1>1
<1> QED
  BY <1>2, <1>3, <1>6, <1>7, <1>8

\* The first request moves, with something behind.
LEMMA MoveFirstIn ==
  ASSUME NEW s \in Seq(Requests), NEW t \in Seq(Requests), t # <<>>,
         NEW u \in Seq(Requests)
  PROVE  Append(s, Head(t)) ++ (Tail(t) ++ u) = s ++ (t ++ u)
<1> DEFINE e == Append(s, Head(t))
           w == Tail(t)
<1>1. w \in Seq(Requests) /\ e \in Seq(Requests) /\ e ++ w = s ++ t
  BY MoveFirst
<1> HIDE DEF e, w
<1>2. e ++ (w ++ u) = (e ++ w) ++ u
  BY <1>1, CatAssoc
<1>3. (s ++ t) ++ u = s ++ (t ++ u)
  BY CatAssoc
<1>4. e ++ (w ++ u) = s ++ (t ++ u)
  BY <1>1, <1>2, <1>3
<1> QED
  BY <1>4 DEF e, w

\* Requests are sent, with something behind.
LEMMA TrySendMovesIn ==
  ASSUME NEW q \in Seq(Requests), NEW b \in Nat, TrySend(q, b),
         requests \in Seq(Requests), NEW u \in Seq(Requests)
  PROVE  requests' ++ (unsend' ++ u) = requests ++ (q ++ u)
<1>1. /\ requests' \in Seq(Requests) /\ unsend' \in Seq(Requests)
      /\ requests' ++ unsend' = requests ++ q
  BY TrySendMoves
<1>2. requests' ++ (unsend' ++ u) = (requests' ++ unsend') ++ u
  BY <1>1, CatAssoc
<1>3. (requests ++ q) ++ u = requests ++ (q ++ u)
  BY CatAssoc
<1>4. (requests' ++ unsend') ++ u = (requests ++ q) ++ u
  BY <1>1
<1> QED
  BY <1>2, <1>3, <1>4

\* f is put between a and b.
LEMMA InsertAscending ==
  ASSUME NEW a \in Seq(Requests), NEW f \in Seq(Requests),
         NEW b \in Seq(Requests),
         Ascending(a ++ b), Ascending(f), Before(a, f), Before(f, b)
  PROVE  Ascending(a ++ (f ++ b))
<1>1. Ascending(a) /\ Ascending(b) /\ Before(a, b)
  BY CatAscending
<1>2. Ascending(f ++ b) /\ f ++ b \in Seq(Requests)
  BY <1>1, Cat, CatAscending
<1>3. Before(a, f ++ b)
  BY <1>1, <1>2, BeforeIn, CatIn
<1> QED
  BY <1>1, <1>2, <1>3, CatAscending

\* f is taken out between a and b.
LEMMA DropAscending ==
  ASSUME NEW a \in Seq(Requests), NEW f \in Seq(Requests),
         NEW b \in Seq(Requests), Ascending(a ++ (f ++ b))
  PROVE  Ascending(a ++ b)
<1>1. f ++ b \in Seq(Requests)
  BY Cat
<1>2. Ascending(a) /\ Ascending(f ++ b) /\ Before(a, f ++ b)
  BY <1>1, CatAscending
<1>3. Ascending(b)
  BY <1>2, CatAscending
<1>4. Before(a, b)
  BY <1>1, <1>2, BeforeIn, CatIn
<1> QED
  BY <1>2, <1>3, <1>4, CatAscending

-----------------------------------------------------------------------------
(* Steps. *)

\* The queues are sequences of requests.
LEMMA QueuesType ==
  ASSUME TypeOK
  PROVE  /\ submitted \in Seq(Requests) /\ replies \in Seq(Requests)
         /\ requests \in Seq(Requests) /\ unsend \in Seq(Requests)
         /\ functors \in Seq(Requests) /\ calls \in Seq(Requests)
         /\ functors ++ calls \in Seq(Requests) /\ Coming \in Seq(Requests)
         /\ requests ++ Coming \in Seq(Requests)
         /\ replies ++ (requests ++ Coming) \in Seq(Requests)
         /\ Pipe \in Seq(Requests)
<1>1. /\ submitted \in Seq(Requests) /\ replies \in Seq(Requests)
      /\ requests \in Seq(Requests) /\ unsend \in Seq(Requests)
      /\ functors \in Seq(Requests) /\ calls \in Seq(Requests)
  BY DEF TypeOK
<1>2. functors ++ calls \in Seq(Requests)
  BY <1>1, Cat
<1>3. Coming \in Seq(Requests)
  BY <1>1, <1>2, Cat DEF Coming
<1>4. requests ++ Coming \in Seq(Requests)
  BY <1>1, <1>3, Cat
<1>5. replies ++ (requests ++ Coming) \in Seq(Requests)
  BY <1>1, <1>4, Cat
<1>6. Pipe \in Seq(Requests)
  BY <1>1, <1>5, Cat DEF Pipe
<1> QED
  BY <1>1, <1>2, <1>3, <1>4, <1>5, <1>6

\* What was handed on or answered is in Pipe.
LEMMA InPipe ==
  ASSUME TypeOK, NEW r
  PROVE  In(Pipe, r) <=>
           \/ In(submitted, r) \/ In(replies, r) \/ In(requests, r)
           \/ In(Coming, r)
<1>1. In(requests ++ Coming, r) <=> In(requests, r) \/ In(Coming, r)
  BY QueuesType, CatIn
<1>2. In(replies ++ (requests ++ Coming), r)
        <=> In(replies, r) \/ In(requests ++ Coming, r)
  BY QueuesType, CatIn
<1>3. In(Pipe, r)
        <=> In(submitted, r) \/ In(replies ++ (requests ++ Coming), r)
  BY QueuesType, CatIn DEF Pipe
<1> QED
  BY <1>1, <1>2, <1>3

\* A step that moves requests in Pipe, and leaves Pipe as it is.
LEMMA PipeKept ==
  ASSUME FInv, Pipe' = Pipe, missing' = missing, asked \subseteq asked',
         \A r \in Requests : In(submitted, r) => In(submitted, r)'
  PROVE  Ascending(Pipe)' /\ NoGaps' /\ FirstLeads' /\ Pulled'
<1>1. Ascending(Pipe)'
  BY DEF FInv, Order, Ascending
<1>2. \A r : In(Pipe, r)' <=> In(Pipe, r)
  BY DEF In
<1>3. NoGaps'
  BY <1>2 DEF FInv, Order, NoGaps
<1>4. FirstLeads'
  <2>1. \A r \in Requests : r.index > 0 => Req(r.image, r.layer, 0) \in Requests
    BY RequestFacts, Earlier
  <2> QED
    BY <1>2, <2>1 DEF FInv, Order, FirstLeads
<1>5. Pulled'
  BY <1>2 DEF FInv, Order, Pulled
<1> QED
  BY <1>1, <1>3, <1>4, <1>5

\* fetch() is called: the request goes to the fetcher's loop.
LEMMA CallFetchOrder == FInv /\ CallFetch => Order'
<1> SUFFICES ASSUME FInv, CallFetch PROVE Order'
  OBVIOUS
<1>1. /\ TypeOK /\ calls # <<>> /\ calls' = Tail(calls)
      /\ functors' = Append(functors, Head(calls))
      /\ UNCHANGED <<asked, client, unsend, free, requests, replies, submitted,
                     missing>>
  BY DEF FInv, Base, CallFetch
<1>2. /\ functors' ++ calls' = functors ++ calls
      /\ functors' \in Seq(Requests) /\ calls' \in Seq(Requests)
  BY <1>1, QueuesType, MoveFirst
<1>3. Pipe' = Pipe
  BY <1>1, <1>2 DEF Pipe, Coming
<1>4. Answered'
  BY <1>1 DEF FInv, Order, Answered, In
<1>6. Ascending(Pipe)' /\ NoGaps' /\ FirstLeads' /\ Pulled'
  <2>1. \A r \in Requests : In(submitted, r) => In(submitted, r)'
    BY <1>1 DEF In
  <2> QED
    BY <1>1, <1>3, <2>1, PipeKept
<1> QED
  BY <1>4, <1>6 DEF Order

\* A fetch() runs while there is no client or it is connecting: the request
\* waits.
LEMMA EnqueueOrder ==
  ASSUME FInv, functors # <<>>, functors' = Tail(functors),
         unsend' = Append(unsend, Head(functors)), client # "up",
         client' = "connecting",
         UNCHANGED <<asked, calls, free, requests, replies, submitted, missing>>
  PROVE  Order'
<1>1. TypeOK
  BY DEF FInv, Base
<1>3. Coming' = Coming
  <2>1. /\ unsend \in Seq(Requests) /\ functors \in Seq(Requests)
        /\ calls \in Seq(Requests)
    BY <1>1, QueuesType
  <2>2. Append(unsend, Head(functors)) ++ (Tail(functors) ++ calls)
          = unsend ++ (functors ++ calls)
    BY <2>1, MoveFirstIn
  <2> QED
    BY <2>2 DEF Coming
<1>4. Pipe' = Pipe
  BY <1>3 DEF Pipe
<1>5. Answered'
  BY DEF FInv, Order, Answered, In
<1>7. Ascending(Pipe)' /\ NoGaps' /\ FirstLeads' /\ Pulled'
  <2>1. \A r \in Requests : In(submitted, r) => In(submitted, r)'
    BY DEF In
  <2> QED
    BY <1>4, <2>1, PipeKept
<1> QED
  BY <1>5, <1>7 DEF Order

\* The first fetch() creates the client.
LEMMA FetchFirstOrder == FInv /\ FetchFirst => Order'
  BY EnqueueOrder DEF FetchFirst

\* Later ones send what they can.
LEMMA FetchMoreOrder == FInv /\ FetchMore => Order'
<1> SUFFICES ASSUME FInv, FetchMore PROVE Order'
  OBVIOUS
<1>1. CASE client # "up"
  <2>1. client = "connecting"
    BY <1>1 DEF FetchMore, FInv, Base, TypeOK
  <2> QED
    BY <1>1, <2>1, EnqueueOrder DEF FetchMore
<1>2. CASE client = "up"
  <2> DEFINE q == Append(unsend, Head(functors))
  <2>1. /\ TypeOK /\ functors # <<>> /\ functors' = Tail(functors)
        /\ TrySend(q, free) /\ free \in Nat /\ free <= Nc
        /\ UNCHANGED <<asked, calls, client, replies, submitted, missing>>
    BY <1>2 DEF FInv, Base, FetchMore, TypeOK
  <2>2. q \in Seq(Requests) /\ functors' \in Seq(Requests)
    BY <2>1, QueuesType, MoveFirst
  <2>3. q ++ (functors' ++ calls) = Coming
    <3>1. /\ unsend \in Seq(Requests) /\ functors \in Seq(Requests)
          /\ calls \in Seq(Requests) /\ functors # <<>>
      BY <2>1, QueuesType
    <3>2. q ++ (Tail(functors) ++ calls) = unsend ++ (functors ++ calls)
      BY <3>1, MoveFirstIn
    <3> QED
      BY <2>1, <3>2 DEF Coming
  <2> HIDE DEF q
  <2>4. functors' ++ calls \in Seq(Requests)
    BY <2>1, <2>2, QueuesType, Cat
  <2>5. requests' ++ Coming' = requests ++ Coming
    <3>1. requests' ++ (unsend' ++ (functors' ++ calls))
            = requests ++ (q ++ (functors' ++ calls))
      BY <2>1, <2>2, <2>4, QueuesType, TrySendMovesIn
    <3> QED
      BY <2>1, <2>3, <3>1 DEF Coming
  <2>6. Pipe' = Pipe
    BY <2>1, <2>5 DEF Pipe
  <2>7. Answered'
    BY <2>1 DEF FInv, Order, Answered, In
  <2>10. Ascending(Pipe)' /\ NoGaps' /\ FirstLeads' /\ Pulled'
    <3>1. \A r \in Requests : In(submitted, r) => In(submitted, r)'
      BY <2>1 DEF In
    <3> QED
      BY <2>1, <2>6, <3>1, PipeKept
  <2> QED
    BY <2>7, <2>10 DEF Order
<1> QED
  BY <1>1, <1>2

\* The connection is there: what waits is sent.
LEMMA OnConnectedOrder == FInv /\ OnConnected => Order'
<1> SUFFICES ASSUME FInv, OnConnected PROVE Order'
  OBVIOUS
<1>1. /\ TypeOK /\ client' = "up"
      /\ TrySend(unsend, free) /\ free \in Nat /\ free <= Nc
      /\ UNCHANGED <<asked, calls, functors, replies, submitted, missing>>
  BY DEF FInv, Base, OnConnected, TypeOK
<1>2. requests' ++ Coming' = requests ++ Coming
  <2>1. requests' ++ (unsend' ++ (functors ++ calls))
          = requests ++ (unsend ++ (functors ++ calls))
    BY <1>1, QueuesType, TrySendMovesIn
  <2> QED
    BY <1>1, <2>1 DEF Coming
<1>3. Pipe' = Pipe
  BY <1>1, <1>2 DEF Pipe
<1>4. Answered'
  BY <1>1 DEF FInv, Order, Answered, In
<1>7. Ascending(Pipe)' /\ NoGaps' /\ FirstLeads' /\ Pulled'
  <2>1. \A r \in Requests : In(submitted, r) => In(submitted, r)'
    BY <1>1 DEF In
  <2> QED
    BY <1>1, <1>3, <2>1, PipeKept
<1> QED
  BY <1>4, <1>7 DEF Order

\* The content server answers, or has nothing to answer with.
LEMMA ServeOrder == FInv /\ Serve => Order'
<1> SUFFICES ASSUME FInv, Serve PROVE Order'
  OBVIOUS
<1> DEFINE h == Head(requests)
           lacks == <<h.layer, h.index>> \in missing
<1>1. /\ TypeOK /\ requests # <<>> /\ requests' = Tail(requests)
      /\ replies' = IF lacks THEN replies ELSE Append(replies, h)
      /\ UNCHANGED <<asked, calls, functors, client, unsend, free, submitted,
                     missing>>
  BY DEF FInv, Base, Serve
<1>2. /\ h \in Requests /\ requests' \in Seq(Requests)
      /\ Append(replies, h) \in Seq(Requests)
      /\ \A r : In(requests, r) <=> r = h \/ In(Tail(requests), r)
      /\ \A r : In(Append(replies, h), r) <=> In(replies, r) \/ r = h
  BY <1>1, QueuesType, MoveFirst
<1> HIDE DEF lacks
<1>5. Answered'
  <2>1. ASSUME NEW r \in Requests, In(replies', r)
        PROVE  In(replies, r) \/ (r = h /\ ~lacks)
    BY <1>1, <1>2, <2>1
  <2>2. \A r : In(submitted', r) <=> In(submitted, r)
    BY <1>1
  <2> QED
    BY <1>1, <2>1, <2>2 DEF FInv, Order, Answered, lacks
<1>6. CASE ~lacks
  <2>1. replies' ++ (requests' ++ Coming) = replies ++ (requests ++ Coming)
    <3>1. /\ replies \in Seq(Requests) /\ requests \in Seq(Requests)
          /\ Coming \in Seq(Requests)
      BY <1>1, QueuesType
    <3>2. Append(replies, h) ++ (Tail(requests) ++ Coming)
            = replies ++ (requests ++ Coming)
      BY <1>1, <3>1, MoveFirstIn
    <3>3. replies' = Append(replies, h) /\ requests' = Tail(requests)
      BY <1>1, <1>6
    <3> QED
      BY <3>2, <3>3
  <2>2. Coming' = Coming
    BY <1>1 DEF Coming
  <2>3. Pipe' = Pipe
    BY <1>1, <2>1, <2>2 DEF Pipe
  <2>4. \A r \in Requests : In(submitted, r) => In(submitted, r)'
    BY <1>1 DEF In
  <2>5. Ascending(Pipe)' /\ NoGaps' /\ FirstLeads' /\ Pulled'
    BY <1>1, <2>3, <2>4, PipeKept
  <2> QED
    BY <1>5, <2>5 DEF Order
<1>7. CASE lacks
  <2> DEFINE a == submitted ++ replies
             b == Tail(requests) ++ Coming
             f == <<h>>
  <2>1. /\ submitted \in Seq(Requests) /\ replies \in Seq(Requests)
        /\ Coming \in Seq(Requests) /\ Tail(requests) \in Seq(Requests)
        /\ f \in Seq(Requests) /\ requests = f ++ Tail(requests)
        /\ requests ++ Coming \in Seq(Requests)
    BY <1>1, <1>2, QueuesType DEF ++
  <2>2. a \in Seq(Requests) /\ b \in Seq(Requests)
    BY <2>1, Cat
  <2>3. Pipe = a ++ (f ++ b)
    <3>1. (f ++ Tail(requests)) ++ Coming = f ++ (Tail(requests) ++ Coming)
      <4> DEFINE w == Tail(requests)
      <4>1. /\ w \in Seq(Requests) /\ f \in Seq(Requests)
            /\ Coming \in Seq(Requests)
        BY <2>1
      <4> HIDE DEF w, f
      <4>2. (f ++ w) ++ Coming = f ++ (w ++ Coming)
        BY <4>1, CatAssoc
      <4> QED
        BY <4>2 DEF w
    <3>2. requests ++ Coming = f ++ b
      BY <2>1, <3>1
    <3>3. a ++ (requests ++ Coming)
            = submitted ++ (replies ++ (requests ++ Coming))
      BY <2>1, CatAssoc
    <3>4. Pipe = a ++ (requests ++ Coming)
      BY <3>3 DEF Pipe
    <3> QED
      BY <3>2, <3>4
  <2>4. Pipe' = a ++ b
    <3>1. Coming' = Coming
      BY <1>1 DEF Coming
    <3>2. replies' = replies
      BY <1>1, <1>7
    <3>3. Pipe' = submitted ++ (replies ++ b)
      BY <1>1, <3>1, <3>2 DEF Pipe
    <3> HIDE DEF b
    <3>4. /\ submitted \in Seq(Requests) /\ replies \in Seq(Requests)
          /\ b \in Seq(Requests)
      BY <2>1, <2>2
    <3>5. (submitted ++ replies) ++ b = submitted ++ (replies ++ b)
      BY <3>4, CatAssoc
    <3> QED
      BY <3>3, <3>5
  <2>5. \A r : In(Pipe, r) => In(Pipe', r) \/ r = h
    <3>1. ASSUME NEW r PROVE In(f, r) => r = h
      BY DEF In
    <3> HIDE DEF a, b, f
    <3>2. f ++ b \in Seq(Requests)
      BY <2>1, <2>2, Cat
    <3>3. ASSUME NEW r, In(Pipe, r) PROVE In(Pipe', r) \/ r = h
      <4>1. In(a, r) \/ In(f, r) \/ In(b, r)
        BY <2>1, <2>2, <2>3, <3>2, <3>3, CatIn
      <4> QED
        BY <2>2, <2>4, <3>1, <4>1, CatIn
    <3> QED
      BY <3>3
  <2>6. \A r : In(Pipe', r) => In(Pipe, r)
    <3> HIDE DEF a, b, f
    <3>1. f ++ b \in Seq(Requests)
      BY <2>1, <2>2, Cat
    <3> QED
      BY <2>1, <2>2, <2>3, <2>4, <3>1, CatIn
  <2>7. Ascending(Pipe')
    <3>1. Ascending(a ++ (f ++ b))
      BY <2>3 DEF FInv, Order
    <3> HIDE DEF a, b, f
    <3> QED
      BY <2>1, <2>2, <2>4, <3>1, DropAscending
  <2> HIDE DEF a, b, f
  <2>8. NoGaps'
    <3> SUFFICES ASSUME NEW r \in Requests, In(Pipe', r),
                        NEW k \in 0 .. r.index - 1,
                        <<r.layer, k>> \notin missing'
                 PROVE  In(Pipe', Req(r.image, r.layer, k))
      BY DEF NoGaps
    <3>1. In(Pipe, Req(r.image, r.layer, k))
      BY <1>1, <2>6 DEF FInv, Order, NoGaps
    <3>2. Req(r.image, r.layer, k) # h
      BY <1>1, <1>7 DEF Req, lacks
    <3> QED
      BY <2>5, <3>1, <3>2
  <2>9. FirstLeads'
    <3>1. submitted' = submitted
      BY <1>1
    <3> QED
      BY <2>6, <3>1 DEF FInv, Order, FirstLeads
  <2>10. Pulled'
    BY <1>1, <2>6 DEF FInv, Order, Pulled
  <2> QED
    BY <1>5, <2>7, <2>8, <2>9, <2>10 DEF Order
<1> QED
  BY <1>6, <1>7

\* Concatenation of four sequences.
LEMMA CatAssocFour ==
  ASSUME NEW s \in Seq(Requests), NEW t \in Seq(Requests),
         NEW u \in Seq(Requests), NEW v \in Seq(Requests)
  PROVE  ((s ++ t) ++ u) ++ v = s ++ (t ++ (u ++ v))
<1> DEFINE a == s ++ t
           b == u ++ v
<1>1. a \in Seq(Requests) /\ b \in Seq(Requests)
  BY Cat
<1>2. (a ++ u) ++ v = a ++ (u ++ v)
  <2> HIDE DEF a
  <2> QED
    BY <1>1, CatAssoc
<1>3. (s ++ t) ++ b = s ++ (t ++ b)
  <2> HIDE DEF b
  <2> QED
    BY <1>1, CatAssoc
<1> QED
  BY <1>2, <1>3

\* The follow-ups of the response to a segment 0: the other segments, in order.
LEMMA FollowUpsFacts ==
  ASSUME NEW h \in Requests
  PROVE  /\ FollowUps(h) \in Seq(Requests) /\ Ascending(FollowUps(h))
         /\ \A r \in Requests : In(FollowUps(h), r) <=>
              h.index = 0 /\ SameLayer(h, r) /\ r.index > 0
<1> DEFINE n == IF h.index = 0 THEN Segs[h.layer] - 1 ELSE 0
<1>1. /\ h.image \in Images /\ h.layer \in Layers /\ h.index \in Nat
      /\ n \in Nat /\ Segs[h.layer] \in Nat \ {0}
  BY RequestFacts, FetcherAssumption
<1>2. FollowUps(h) = [k \in 1 .. n |-> Req(h.image, h.layer, k)]
  BY DEF FollowUps
<1>3. \A k \in 1 .. n : Req(h.image, h.layer, k) \in Requests
  <2>1. \A k \in 1 .. n : k \in 0 .. Segs[h.layer] - 1
    BY <1>1
  <2> QED
    BY <1>1, <2>1, RequestFacts
<1>4. \A k \in 1 .. n : /\ Req(h.image, h.layer, k).index = k
                        /\ Req(h.image, h.layer, k).image = h.image
                        /\ Req(h.image, h.layer, k).layer = h.layer
  BY DEF Req
<1>5. FollowUps(h) \in Seq(Requests)
  <2> HIDE DEF n
  <2> QED
    BY <1>1, <1>2, <1>3
<1>6. Ascending(FollowUps(h))
  <2> HIDE DEF n
  <2> QED
    BY <1>1, <1>2, <1>4 DEF Ascending
<1>7. ASSUME NEW r \in Requests
      PROVE  In(FollowUps(h), r) <=>
               h.index = 0 /\ SameLayer(h, r) /\ r.index > 0
  <2>1. ASSUME In(FollowUps(h), r)
        PROVE  h.index = 0 /\ SameLayer(h, r) /\ r.index > 0
    <3>1. PICK k \in 1 .. n : r = Req(h.image, h.layer, k)
      BY <1>2, <2>1 DEF In
    <3> QED
      BY <1>4, <3>1 DEF SameLayer
  <2>2. ASSUME h.index = 0, SameLayer(h, r), r.index > 0
        PROVE  In(FollowUps(h), r)
    <3>1. /\ r.index \in 0 .. Segs[h.layer] - 1
          /\ r = Req(h.image, h.layer, r.index)
      BY <2>2, RequestFacts DEF SameLayer
    <3>2. r.index \in 1 .. n
      BY <1>1, <2>2, <3>1
    <3> QED
      BY <1>2, <3>1, <3>2 DEF In
  <2> QED
    BY <2>1, <2>2
<1> QED
  BY <1>5, <1>6, <1>7

\* Nothing of a layer but its first segment is on its way before the response
\* for that one is handled, and that one is there once.
LEMMA FirstResponse ==
  ASSUME FInv, replies # <<>>
  PROVE  /\ In(Pipe, Head(replies)) /\ ~In(submitted, Head(replies))
         /\ \A r \in Requests :
              /\ Head(replies).index = 0 /\ In(Pipe, r)
              /\ SameLayer(Head(replies), r)
              => r.index = 0
<1> DEFINE h == Head(replies)
           x == replies ++ (requests ++ Coming)
<1>1. /\ TypeOK /\ h \in Requests /\ x \in Seq(Requests)
      /\ submitted \in Seq(Requests) /\ In(replies, h)
  BY QueuesType, MoveFirst DEF FInv, Base
<1>2. In(Pipe, h)
  BY <1>1, InPipe
<1>3. In(x, h)
  BY <1>1, QueuesType, CatIn
<1>4. Before(submitted, x)
  <2>1. Ascending(submitted ++ x)
    BY DEF FInv, Order, Pipe
  <2> HIDE DEF x
  <2> QED
    BY <1>1, <2>1, CatAscending
<1> HIDE DEF x
<1>5. ~In(submitted, h)
  <2>1. h.index \in Nat /\ SameLayer(h, h)
    BY <1>1, RequestFacts DEF SameLayer
  <2>2. In(submitted, h) => h.index < h.index
    BY <1>1, <1>3, <1>4, <2>1, BeforeIn
  <2> QED
    BY <2>1, <2>2
<1>6. ASSUME NEW r \in Requests, h.index = 0, In(Pipe, r), SameLayer(h, r)
      PROVE  r.index = 0
  <2>1. h = Req(r.image, r.layer, 0) /\ r.index \in Nat
    BY <1>1, <1>6, RequestFacts DEF SameLayer
  <2>2. r.index > 0 => In(submitted, h)
    BY <1>6, <2>1 DEF FInv, Order, FirstLeads
  <2> QED
    BY <1>5, <2>1, <2>2
<1> QED
  BY <1>2, <1>5, <1>6

\* A response is handled: its segment goes on, its follow-ups come in front.
LEMMA OnRecvSuccessOrder == FInv /\ OnRecvSuccess => Order'
<1> SUFFICES ASSUME FInv, OnRecvSuccess PROVE Order'
  OBVIOUS
<1> DEFINE h == Head(replies)
           f == FollowUps(h)
           s == Append(submitted, h)
           a == (s ++ Tail(replies)) ++ requests
<1>1. /\ TypeOK /\ replies # <<>> /\ replies' = Tail(replies)
      /\ submitted' = s /\ TrySend(f ++ unsend, free + 1)
      /\ UNCHANGED <<asked, calls, functors, client, missing>>
  BY DEF FInv, Base, OnRecvSuccess, ++
<1>2. /\ h \in Requests /\ replies' \in Seq(Requests) /\ s \in Seq(Requests)
      /\ \A r : In(replies, r) <=> r = h \/ In(Tail(replies), r)
      /\ \A r : In(s, r) <=> In(submitted, r) \/ r = h
  BY <1>1, QueuesType, MoveFirst
<1>3. /\ f \in Seq(Requests) /\ Ascending(f)
      /\ \A r \in Requests : In(f, r) <=>
           h.index = 0 /\ SameLayer(h, r) /\ r.index > 0
  BY <1>2, FollowUpsFacts
<1> HIDE DEF f
<1>4. /\ Tail(replies) \in Seq(Requests) /\ requests \in Seq(Requests)
      /\ Coming \in Seq(Requests) /\ unsend \in Seq(Requests)
      /\ functors ++ calls \in Seq(Requests) /\ s \in Seq(Requests)
      /\ submitted \in Seq(Requests) /\ replies \in Seq(Requests)
  BY <1>1, <1>2, QueuesType
<1>5. /\ f ++ unsend \in Seq(Requests) /\ f ++ Coming \in Seq(Requests)
      /\ requests ++ Coming \in Seq(Requests)
      /\ requests ++ (f ++ Coming) \in Seq(Requests)
  BY <1>3, <1>4, Cat
<1>6. s ++ Tail(replies) \in Seq(Requests) /\ a \in Seq(Requests)
  BY <1>4, Cat
<1>7. ASSUME NEW u \in Seq(Requests)
      PROVE  a ++ u = s ++ (Tail(replies) ++ (requests ++ u))
  <2> DEFINE w == Tail(replies)
  <2>1. w \in Seq(Requests) /\ requests \in Seq(Requests) /\ s \in Seq(Requests)
    BY <1>4
  <2> HIDE DEF s, w
  <2>2. ((s ++ w) ++ requests) ++ u = s ++ (w ++ (requests ++ u))
    BY <2>1, CatAssocFour
  <2> QED
    BY <2>2 DEF w
<1>8. Pipe = a ++ Coming
  <2>1. s ++ (Tail(replies) ++ (requests ++ Coming))
          = submitted ++ (replies ++ (requests ++ Coming))
    <3>1. /\ submitted \in Seq(Requests) /\ replies \in Seq(Requests)
          /\ requests ++ Coming \in Seq(Requests) /\ replies # <<>>
      BY <1>1, <1>4, <1>5
    <3> QED
      BY <3>1, MoveFirstIn
  <2>2. a ++ Coming = s ++ (Tail(replies) ++ (requests ++ Coming))
    BY <1>4, <1>7
  <2> HIDE DEF s, a
  <2> QED
    BY <2>1, <2>2 DEF Pipe
<1>9. free + 1 \in Nat /\ free \in 0 .. Nc
  BY <1>1 DEF TypeOK
<1>10. Pipe' = a ++ (f ++ Coming)
  <2>1. requests' ++ (unsend' ++ (functors ++ calls))
          = requests ++ ((f ++ unsend) ++ (functors ++ calls))
    BY <1>1, <1>4, <1>5, <1>9, TrySendMovesIn
  <2>2. (f ++ unsend) ++ (functors ++ calls)
          = f ++ (unsend ++ (functors ++ calls))
    <3>1. /\ f \in Seq(Requests) /\ unsend \in Seq(Requests)
          /\ functors ++ calls \in Seq(Requests)
      BY <1>3, <1>4
    <3> QED
      BY <3>1, CatAssoc
  <2>3. requests' ++ Coming' = requests ++ (f ++ Coming)
    BY <1>1, <2>1, <2>2 DEF Coming
  <2> HIDE DEF s
  <2>4. Pipe' = s ++ (Tail(replies) ++ (requests ++ (f ++ Coming)))
    BY <1>1, <2>3 DEF Pipe
  <2>5. a ++ (f ++ Coming) = s ++ (Tail(replies) ++ (requests ++ (f ++ Coming)))
    BY <1>5, <1>7
  <2> QED
    BY <2>4, <2>5
<1> HIDE DEF a, s
<1>11. /\ In(Pipe, h) /\ ~In(submitted, h)
       /\ \A r \in Requests :
            h.index = 0 /\ In(Pipe, r) /\ SameLayer(h, r) => r.index = 0
  BY <1>1, FirstResponse
<1>12. \A r : In(Pipe, r) <=> In(a, r) \/ In(Coming, r)
  BY <1>4, <1>6, <1>8, CatIn
<1>13. \A r : In(Pipe', r) <=> In(Pipe, r) \/ In(f, r)
  <2>1. \A r : In(f ++ Coming, r) <=> In(f, r) \/ In(Coming, r)
    BY <1>3, <1>4, CatIn
  <2>2. \A r : In(Pipe', r) <=> In(a, r) \/ In(f ++ Coming, r)
    BY <1>5, <1>6, <1>10, CatIn
  <2> QED
    BY <1>12, <2>1, <2>2
<1>14. Ascending(Pipe')
  <2>1. Ascending(a ++ Coming)
    BY <1>8 DEF FInv, Order
  <2>2. Before(a, Coming)
    BY <1>4, <1>6, <2>1, CatAscending
  <2>3. Before(a, f)
    <3>1. ASSUME NEW q \in Requests, NEW r \in Requests, In(a, q), In(f, r),
                 SameLayer(q, r)
          PROVE  q.index < r.index
      <4>1. h.index = 0 /\ SameLayer(h, q) /\ r.index > 0
        BY <1>3, <3>1 DEF SameLayer
      <4>2. q.index = 0
        BY <1>11, <1>12, <3>1, <4>1
      <4> QED
        BY <4>1, <4>2
    <3> QED
      BY <1>3, <1>6, <3>1, BeforeIn
  <2>4. Before(f, Coming)
    <3>1. ASSUME NEW q \in Requests, NEW r \in Requests, In(f, q),
                 In(Coming, r), SameLayer(q, r)
          PROVE  FALSE
      <4>1. h.index = 0 /\ SameLayer(h, r)
        BY <1>3, <3>1 DEF SameLayer
      <4>2. r.index = 0
        BY <1>11, <1>12, <3>1, <4>1
      <4>3. In(a, h)
        <5>1. In(s ++ Tail(replies), h)
          BY <1>2, <1>4, CatIn
        <5> QED
          BY <1>4, <1>6, <5>1, CatIn DEF a
      <4>4. h.index < r.index
        BY <1>2, <1>4, <1>6, <2>2, <3>1, <4>1, <4>3, BeforeIn
      <4> QED
        BY <4>1, <4>2, <4>4
    <3> QED
      BY <1>3, <1>4, <3>1, BeforeIn
  <2>5. Ascending(a ++ (f ++ Coming))
    BY <1>3, <1>4, <1>6, <2>1, <2>3, <2>4, InsertAscending
  <2> QED
    BY <1>10, <2>5
<1>15. NoGaps'
  <2> SUFFICES ASSUME NEW r \in Requests, In(Pipe', r),
                      NEW k \in 0 .. r.index - 1,
                      <<r.layer, k>> \notin missing
               PROVE  In(Pipe', Req(r.image, r.layer, k))
    BY <1>1 DEF NoGaps
  <2>1. CASE In(Pipe, r)
    BY <1>13, <2>1 DEF FInv, Order, NoGaps
  <2>2. CASE In(f, r)
    <3>1. /\ h.index = 0 /\ SameLayer(h, r) /\ r.index \in Nat
          /\ h = Req(r.image, r.layer, 0)
      BY <1>2, <1>3, <2>2, RequestFacts DEF SameLayer
    <3>2. CASE k = 0
      BY <1>11, <1>13, <3>1, <3>2
    <3>3. CASE k # 0
      <4>1. k \in 0 .. r.index /\ k > 0
        BY <3>1, <3>3
      <4>2. /\ Req(r.image, r.layer, k) \in Requests
            /\ Req(r.image, r.layer, k).image = r.image
            /\ Req(r.image, r.layer, k).layer = r.layer
            /\ Req(r.image, r.layer, k).index = k
        BY <4>1, Earlier
      <4>3. In(f, Req(r.image, r.layer, k))
        BY <1>3, <3>1, <4>1, <4>2 DEF SameLayer
      <4> QED
        BY <1>13, <4>3
    <3> QED
      BY <3>2, <3>3
  <2> QED
    BY <1>13, <2>1, <2>2
<1>16. FirstLeads'
  <2> SUFFICES ASSUME NEW r \in Requests, In(Pipe', r), r.index > 0
               PROVE  In(s, Req(r.image, r.layer, 0))
    BY <1>1 DEF FirstLeads
  <2>1. CASE In(Pipe, r)
    BY <1>2, <2>1 DEF FInv, Order, FirstLeads
  <2>2. CASE In(f, r)
    <3>1. h = Req(r.image, r.layer, 0)
      BY <1>2, <1>3, <2>2, RequestFacts DEF SameLayer
    <3> QED
      BY <1>2, <3>1
  <2> QED
    BY <1>13, <2>1, <2>2
<1>17. Pulled'
  BY <1>1, <1>2, <1>3, <1>11, <1>13 DEF FInv, Order, Pulled, SameLayer
<1>18. Answered'
  BY <1>1, <1>2 DEF FInv, Order, Answered
<1> QED
  BY <1>14, <1>15, <1>16, <1>17, <1>18 DEF Order

\* The requests of a pull's fetch() calls.
LEMMA FirstRequests ==
  ASSUME NEW i \in Images
  PROVE  /\ [m \in DOMAIN ImageLayers[i] |-> Req(i, ImageLayers[i][m], 0)]
              \in Seq(Requests)
         /\ \A m \in DOMAIN ImageLayers[i] :
              /\ Req(i, ImageLayers[i][m], 0) \in Requests
              /\ Req(i, ImageLayers[i][m], 0).index = 0
              /\ Req(i, ImageLayers[i][m], 0).image = i
              /\ Req(i, ImageLayers[i][m], 0).layer = ImageLayers[i][m]
<1>1. /\ ImageLayers[i] \in Seq(Layers)
      /\ DOMAIN ImageLayers[i] = 1 .. Len(ImageLayers[i])
      /\ Len(ImageLayers[i]) \in Nat
  BY FetcherAssumption
<1>2. ASSUME NEW m \in DOMAIN ImageLayers[i]
      PROVE  Req(i, ImageLayers[i][m], 0) \in Requests
  <2>1. ImageLayers[i][m] \in Layers
    BY <1>1
  <2>2. 0 \in 0 .. Segs[ImageLayers[i][m]] - 1
    BY <2>1, FetcherAssumption
  <2> QED
    BY <2>1, <2>2, RequestFacts
<1>3. [m \in DOMAIN ImageLayers[i] |-> Req(i, ImageLayers[i][m], 0)]
        \in Seq(Requests)
  BY <1>1, <1>2
<1> QED
  BY <1>2, <1>3 DEF Req

\* A pull begins: the first segments of its layers are asked for.
LEMMA OffloadOrder ==
  ASSUME LayersDistinct, FInv, NEW i \in Images, Offload(i)
  PROVE  Order'
<1> DEFINE n == calls'
<1>1. /\ TypeOK /\ calls = <<>> /\ i \notin asked /\ asked' = asked \cup {i}
      /\ calls' = [m \in DOMAIN ImageLayers[i] |-> Req(i, ImageLayers[i][m], 0)]
      /\ UNCHANGED <<functors, client, unsend, free, requests, replies,
                     submitted, missing>>
  BY DEF FInv, Base, Offload
<1>3. \A m \in DOMAIN ImageLayers[i] :
        /\ Req(i, ImageLayers[i][m], 0) \in Requests
        /\ Req(i, ImageLayers[i][m], 0).index = 0
        /\ Req(i, ImageLayers[i][m], 0).image = i
        /\ Req(i, ImageLayers[i][m], 0).layer = ImageLayers[i][m]
  BY FirstRequests
<1>4. n \in Seq(Requests)
  BY <1>1, FirstRequests
<1>5. \A r \in Requests : In(n, r) => r.image = i /\ r.index = 0
  BY <1>1, <1>3 DEF In
<1>6. Ascending(n)
  <2>1. \A m, k \in DOMAIN n : SameLayer(n[m], n[k]) => m = k
    BY <1>1, <1>3 DEF LayersDistinct, SameLayer
  <2>2. DOMAIN n \subseteq Nat
    BY <1>4
  <2> QED
    BY <2>1, <2>2 DEF Ascending
<1> HIDE DEF n
<1>7. Pipe' = Pipe ++ n
  <2> DEFINE c == unsend ++ functors
  <2>1. /\ submitted \in Seq(Requests) /\ replies \in Seq(Requests)
        /\ requests \in Seq(Requests) /\ unsend \in Seq(Requests)
        /\ functors \in Seq(Requests)
    BY <1>1, QueuesType
  <2>2. functors ++ calls = functors
    BY <1>1, <2>1, ConcatEmptySeq DEF ++
  <2>3. c \in Seq(Requests) /\ Coming = c
    BY <2>1, <2>2, Cat DEF Coming
  <2>4. Coming' = c ++ n
    <3>1. Coming' = unsend ++ (functors ++ n)
      BY <1>1 DEF Coming, n
    <3>2. (unsend ++ functors) ++ n = unsend ++ (functors ++ n)
      BY <1>4, <2>1, CatAssoc
    <3> QED
      BY <3>1, <3>2
  <2> HIDE DEF c
  <2>5. Pipe' = submitted ++ (replies ++ (requests ++ (c ++ n)))
    BY <1>1, <2>4 DEF Pipe
  <2>6. Pipe = submitted ++ (replies ++ (requests ++ c))
    BY <2>3 DEF Pipe
  <2>7. /\ requests ++ c \in Seq(Requests)
        /\ replies ++ (requests ++ c) \in Seq(Requests)
    BY <2>1, <2>3, Cat
  <2>8. (requests ++ c) ++ n = requests ++ (c ++ n)
    BY <1>4, <2>1, <2>3, CatAssoc
  <2>9. (replies ++ (requests ++ c)) ++ n = replies ++ ((requests ++ c) ++ n)
    BY <1>4, <2>1, <2>7, CatAssoc
  <2>10. (submitted ++ (replies ++ (requests ++ c))) ++ n
           = submitted ++ ((replies ++ (requests ++ c)) ++ n)
    BY <1>4, <2>1, <2>7, CatAssoc
  <2>11. (submitted ++ (replies ++ (requests ++ c))) ++ n
           = submitted ++ (replies ++ (requests ++ (c ++ n)))
    BY <2>8, <2>9, <2>10
  <2> QED
    BY <2>5, <2>6, <2>11
<1>8. Pipe \in Seq(Requests)
  BY <1>1, QueuesType
<1>9. \A r : In(Pipe', r) <=> In(Pipe, r) \/ In(n, r)
  BY <1>4, <1>7, <1>8, CatIn
<1>10. Ascending(Pipe')
  <2>1. Before(Pipe, n)
    <3>1. ASSUME NEW q \in Requests, NEW r \in Requests, In(Pipe, q), In(n, r),
                 SameLayer(q, r)
          PROVE  FALSE
      BY <1>1, <1>5, <3>1 DEF FInv, Order, Pulled, SameLayer
    <3> QED
      BY <1>4, <1>8, <3>1, BeforeIn
  <2>2. Ascending(Pipe ++ n)
    BY <1>4, <1>6, <1>8, <2>1, CatAscending DEF FInv, Order
  <2> QED
    BY <1>7, <2>2
<1>11. NoGaps'
  <2> SUFFICES ASSUME NEW r \in Requests, In(Pipe', r),
                      NEW k \in 0 .. r.index - 1,
                      <<r.layer, k>> \notin missing
               PROVE  In(Pipe', Req(r.image, r.layer, k))
    BY <1>1 DEF NoGaps
  <2>1. In(Pipe, r)
    BY <1>5, <1>9
  <2> QED
    BY <1>9, <2>1 DEF FInv, Order, NoGaps
<1>12. FirstLeads'
  <2>1. \A r \in Requests : In(Pipe', r) /\ r.index > 0 => In(Pipe, r)
    BY <1>5, <1>9
  <2> QED
    BY <1>1, <2>1 DEF FInv, Order, FirstLeads
<1>13. Pulled'
  BY <1>1, <1>5, <1>9 DEF FInv, Order, Pulled
<1>14. Answered'
  BY <1>1 DEF FInv, Order, Answered
<1> QED
  BY <1>10, <1>11, <1>12, <1>13, <1>14 DEF Order

\* If old requests are under way and left responses are to come, sending with
\* b free send buffers, m of which have come back, leaves the sum as it was.
LEMMA SendBuffers ==
  \A old, left, m, before, b, after, n \in Nat :
    b = before + m /\ old + (left + m) <= n - before =>
      (old + b - after) + left <= n - after
  OBVIOUS

\* Sending keeps the count of the send buffers, m of which has just come back.
LEMMA SendBase ==
  ASSUME TypeOK, NEW q \in Seq(Requests), NEW m \in {0, 1},
         NEW b \in Nat, b = free + m, b <= Nc, TrySend(q, b),
         replies' \in Seq(Requests), Len(replies') + m = Len(replies)
  PROVE  /\ requests' \in Seq(Requests) /\ unsend' \in Seq(Requests)
         /\ free' \in 0 .. Nc
         /\ Len(requests') + Len(replies') <= Nc - free'
<1>1. /\ free \in Nat /\ requests \in Seq(Requests)
      /\ Len(requests) \in Nat /\ Len(replies) \in Nat /\ Nc \in Nat
      /\ Len(requests) + Len(replies) <= Nc - free /\ Len(replies') \in Nat
  BY FetcherAssumption DEF TypeOK
<1>2. /\ requests' \in Seq(Requests) /\ unsend' \in Seq(Requests)
      /\ free' \in 0 .. b /\ Len(requests') = Len(requests) + b - free'
  BY <1>1, TrySendMoves, Zenon
<1>3. /\ m \in Nat /\ free' \in Nat /\ free' <= b
      /\ Len(requests) + (Len(replies') + m) <= Nc - free
  BY <1>1, <1>2, SMTT(30)
<1>4. (Len(requests) + b - free') + Len(replies') <= Nc - free'
  BY <1>1, <1>3, SendBuffers
<1>5. Len(requests') + Len(replies') <= Nc - free' /\ free' \in 0 .. Nc
  BY <1>1, <1>2, <1>4
<1> QED
  BY <1>2, <1>5

\* The same, when none came back.
LEMMA SendSame ==
  ASSUME TypeOK, NEW q \in Seq(Requests), TrySend(q, free), replies' = replies
  PROVE  /\ requests' \in Seq(Requests) /\ unsend' \in Seq(Requests)
         /\ free' \in 0 .. Nc
         /\ Len(requests') + Len(replies') <= Nc - free'
<1>1. /\ free \in Nat /\ free = free + 0 /\ free <= Nc /\ 0 \in {0, 1}
      /\ replies' \in Seq(Requests) /\ Len(replies') + 0 = Len(replies)
  BY FetcherAssumption DEF TypeOK
<1> QED
  BY <1>1, SendBase, Zenon

\* Every step keeps Base.
LEMMA NextBase == Base /\ [Next]_vars => Base'
<1> SUFFICES ASSUME Base, [Next]_vars PROVE Base'
  OBVIOUS
<1> USE DEF Base
<1>0. /\ submitted \in Seq(Requests) /\ replies \in Seq(Requests)
      /\ requests \in Seq(Requests) /\ unsend \in Seq(Requests)
      /\ functors \in Seq(Requests) /\ calls \in Seq(Requests)
      /\ free \in 0 .. Nc /\ Nc \in Nat
  BY FetcherAssumption DEF TypeOK
<1>1. ASSUME NEW i \in Images, Offload(i) PROVE Base'
  <2>1. calls' \in Seq(Requests)
    BY <1>1, FirstRequests DEF Offload
  <2> QED
    BY <1>1, <2>1 DEF Offload, TypeOK, Unconnected
<1>2. ASSUME CallFetch PROVE Base'
  <2>1. functors' \in Seq(Requests) /\ calls' \in Seq(Requests)
    BY <1>0, <1>2, MoveFirst DEF CallFetch
  <2> QED
    BY <1>2, <2>1 DEF CallFetch, TypeOK, Unconnected
<1>3. ASSUME FetchFirst \/ (FetchMore /\ client # "up") PROVE Base'
  <2>1. /\ functors # <<>> /\ functors' = Tail(functors)
        /\ unsend' = Append(unsend, Head(functors)) /\ client' = "connecting"
        /\ client # "up"
        /\ UNCHANGED <<asked, calls, free, requests, replies, submitted,
                       missing>>
    BY <1>3 DEF FetchFirst, FetchMore, TypeOK
  <2>2. /\ functors' \in Seq(Requests) /\ unsend' \in Seq(Requests)
    BY <1>0, <2>1, MoveFirst
  <2>3. unsend' # <<>>
    <3>1. Head(functors) \in Requests
      BY <1>0, <2>1, MoveFirst
    <3> QED
      BY <1>0, <2>1, <3>1, AppendNotEmpty
  <2> QED
    BY <2>1, <2>2, <2>3 DEF TypeOK, Unconnected
<1>4. ASSUME FetchMore, client = "up" PROVE Base'
  <2> DEFINE q == Append(unsend, Head(functors))
  <2>1. /\ functors # <<>> /\ functors' = Tail(functors) /\ TrySend(q, free)
        /\ UNCHANGED <<asked, calls, client, replies, submitted, missing>>
    BY <1>0, <1>4 DEF FetchMore
  <2>2. q \in Seq(Requests) /\ functors' \in Seq(Requests)
    BY <1>0, <2>1, MoveFirst
  <2>3. /\ requests' \in Seq(Requests) /\ unsend' \in Seq(Requests)
        /\ free' \in 0 .. Nc
        /\ Len(requests') + Len(replies') <= Nc - free'
    <3> HIDE DEF q
    <3> QED
      BY <1>0, <2>1, <2>2, SendSame
  <2> QED
    BY <1>4, <2>1, <2>2, <2>3 DEF TypeOK, Unconnected
<1>5. ASSUME OnConnected PROVE Base'
  <2>1. /\ client' = "up" /\ TrySend(unsend, free)
        /\ UNCHANGED <<asked, calls, functors, replies, submitted, missing>>
    BY <1>0, <1>5 DEF OnConnected
  <2>2. /\ requests' \in Seq(Requests) /\ unsend' \in Seq(Requests)
        /\ free' \in 0 .. Nc
        /\ Len(requests') + Len(replies') <= Nc - free'
    BY <1>0, <2>1, SendSame
  <2> QED
    BY <2>1, <2>2 DEF TypeOK, Unconnected
<1>6. ASSUME OnRecvSuccess PROVE Base'
  <2> DEFINE q == FollowUps(Head(replies)) \o unsend
  <2>1. /\ replies # <<>> /\ replies' = Tail(replies)
        /\ submitted' = Append(submitted, Head(replies))
        /\ TrySend(q, free + 1)
        /\ UNCHANGED <<asked, calls, functors, client, missing>>
    BY <1>6 DEF OnRecvSuccess
  <2>2. /\ Head(replies) \in Requests /\ replies' \in Seq(Requests)
        /\ submitted' \in Seq(Requests) /\ Len(replies') + 1 = Len(replies)
    BY <1>0, <2>1, MoveFirst
  <2>3. q \in Seq(Requests)
    BY <1>0, <2>2, FollowUpsFacts
  <2>4. free + 1 \in Nat /\ free + 1 <= Nc /\ client = "up"
    BY <1>0, <2>1 DEF TypeOK, Unconnected
  <2>5. /\ requests' \in Seq(Requests) /\ unsend' \in Seq(Requests)
        /\ free' \in 0 .. Nc
        /\ Len(requests') + Len(replies') <= Nc - free'
    <3> HIDE DEF q
    <3>1. 1 \in {0, 1}
      OBVIOUS
    <3> QED
      BY <2>1, <2>2, <2>3, <2>4, <3>1, SendBase, Zenon
  <2> QED
    BY <2>1, <2>2, <2>4, <2>5 DEF TypeOK, Unconnected
<1>7. ASSUME Serve PROVE Base'
  <2>1. /\ requests # <<>> /\ requests' = Tail(requests)
        /\ \/ replies' = replies \/ replies' = Append(replies, Head(requests))
        /\ UNCHANGED <<asked, calls, functors, client, unsend, free, submitted,
                       missing>>
    BY <1>7 DEF Serve
  <2>2. /\ requests' \in Seq(Requests) /\ replies' \in Seq(Requests)
        /\ Len(requests') = Len(requests) - 1
        /\ Len(replies') \in {Len(replies), Len(replies) + 1}
    <3>1. /\ Head(requests) \in Requests /\ requests' \in Seq(Requests)
          /\ Len(requests') = Len(requests) - 1
      BY <1>0, <2>1
    <3>2. /\ Append(replies, Head(requests)) \in Seq(Requests)
          /\ Len(Append(replies, Head(requests))) = Len(replies) + 1
      BY <1>0, <3>1, AppendProperties
    <3>3. /\ replies' \in Seq(Requests)
          /\ Len(replies') \in {Len(replies), Len(replies) + 1}
      BY <1>0, <2>1, <3>2
    <3> QED
      BY <3>1, <3>3
  <2>3. Len(requests') + Len(replies') <= Nc - free
    BY <1>0, <2>2 DEF TypeOK
  <2> QED
    BY <2>1, <2>2, <2>3 DEF TypeOK, Unconnected
<1>8. CASE UNCHANGED vars
  BY <1>8 DEF vars, TypeOK, Unconnected
<1> QED
  BY <1>1, <1>2, <1>3, <1>4, <1>5, <1>6, <1>7, <1>8 DEF Next

\* The invariant holds initially.
LEMMA InitFInv == Init => FInv
<1> SUFFICES ASSUME Init PROVE FInv
  OBVIOUS
<1>1. TypeOK
  BY FetcherAssumption DEF Init, TypeOK
<1>2. \A r : ~In(<<>>, r)
  BY DEF In
<1>3. \A r : ~In(submitted, r) /\ ~In(replies, r) /\ ~In(Pipe, r)
  <2>1. \A r : ~In(functors ++ calls, r)
    BY <1>1, <1>2, QueuesType, CatIn DEF Init
  <2>2. \A r : ~In(Coming, r)
    BY <1>1, <1>2, <2>1, QueuesType, CatIn DEF Init, Coming
  <2> QED
    BY <1>1, <1>2, <2>2, InPipe DEF Init
<1>4. Ascending(Pipe)
  BY <1>3 DEF In, Ascending
<1>5. NoGaps /\ FirstLeads /\ Pulled /\ Answered
  BY <1>3 DEF NoGaps, FirstLeads, Pulled, Answered
<1>6. Unconnected
  BY DEF Init, Unconnected
<1> QED
  BY <1>1, <1>4, <1>5, <1>6 DEF FInv, Base, Order

\* Every step keeps Order.
LEMMA NextOrder ==
  ASSUME LayersDistinct PROVE FInv /\ [Next]_vars => Order'
<1> SUFFICES ASSUME FInv, [Next]_vars PROVE Order'
  OBVIOUS
<1>1. CASE UNCHANGED vars
  <2>1. Pipe' = Pipe
    BY <1>1 DEF vars, Pipe, Coming
  <2>2. Ascending(Pipe)' /\ NoGaps' /\ FirstLeads' /\ Pulled'
    BY <1>1, <2>1, PipeKept DEF vars
  <2>3. Answered'
    BY <1>1 DEF vars, FInv, Order, Answered
  <2> QED
    BY <2>2, <2>3 DEF Order
<1>2. CASE Next
  BY <1>2, OffloadOrder, CallFetchOrder, FetchFirstOrder, FetchMoreOrder,
     OnConnectedOrder, OnRecvSuccessOrder, ServeOrder DEF Next
<1> QED
  BY <1>1, <1>2

-----------------------------------------------------------------------------
(* The results. *)

\* Send buffers are conserved, and unsend_reqs_ and the wire hold requests for
\* segments there are; nothing is sent before the connection is there.
THEOREM BaseInvariance == Spec => []Base
<1>1. Init => Base
  BY InitFInv DEF FInv
<1> QED
  BY <1>1, NextBase, PTL DEF Spec

\* All variables stay in their domains, and send buffers are conserved.
THEOREM TypeCorrect == Spec => []TypeOK
<1>1. Base => TypeOK
  BY DEF Base
<1> QED
  BY <1>1, BaseInvariance, PTL

\* The assertion at the beginning of onConnected holds.
THEOREM OnConnectedNeverAsserts == Spec => []OnConnectedAssertion
<1>1. Base => OnConnectedAssertion
  BY FetcherAssumption DEF Base, Unconnected, OnConnectedAssertion
<1> QED
  BY <1>1, BaseInvariance, PTL

\* If an image lists a layer once, the segments on their way are in order from
\* fetch() to submitDecompressTask, and none is left out that the registry has.
THEOREM Invariance == ASSUME LayersDistinct PROVE Spec => []FInv
<1>1. FInv /\ [Next]_vars => FInv'
  BY NextBase, NextOrder DEF FInv
<1> QED
  BY <1>1, InitFInv, PTL DEF Spec

\* What is handed to submitDecompressTask is in order.
LEMMA InOrder == FInv => SegmentsInOrder
<1> SUFFICES ASSUME FInv, NEW n \in DOMAIN submitted
             PROVE  {submitted[m].index :
                       m \in {k \in 1 .. n - 1 :
                                SameLayer(submitted[k], submitted[n])}}
                    = {k \in 0 .. submitted[n].index - 1 :
                         <<submitted[n].layer, k>> \notin missing}
  BY DEF SegmentsInOrder
<1> DEFINE r == submitted[n]
           M == {k \in 1 .. n - 1 : SameLayer(submitted[k], r)}
           K == {k \in 0 .. r.index - 1 : <<r.layer, k>> \notin missing}
           x == replies ++ (requests ++ Coming)
<1>1. /\ TypeOK /\ submitted \in Seq(Requests) /\ x \in Seq(Requests)
      /\ DOMAIN submitted = 1 .. Len(submitted) /\ Len(submitted) \in Nat
      /\ \A m \in DOMAIN submitted : submitted[m] \in Requests
  BY QueuesType DEF FInv, Base
<1>2. Ascending(submitted) /\ Before(submitted, x)
  <2>1. Ascending(submitted ++ x)
    BY DEF FInv, Order, Pipe
  <2> HIDE DEF x
  <2> QED
    BY <1>1, <2>1, CatAscending
<1>3. \A q : In(Pipe, q) <=> In(submitted, q) \/ In(x, q)
  <2>1. Pipe = submitted ++ x
    BY DEF Pipe
  <2> HIDE DEF x
  <2> QED
    BY <1>1, <2>1, CatIn
<1> HIDE DEF x
<1>4. r \in Requests /\ r.index \in Nat /\ In(submitted, r) /\ n \in Nat
  BY <1>1, RequestFacts DEF In
<1>5. ASSUME NEW m \in M PROVE submitted[m].index \in K
  <2>1. /\ m \in DOMAIN submitted /\ n \in DOMAIN submitted /\ m < n
        /\ SameLayer(submitted[m], r)
    BY <1>1, <1>4
  <2>2. submitted[m].index < r.index
    BY <1>2, <2>1 DEF Ascending
  <2>3. submitted[m] \in Requests /\ In(submitted, submitted[m])
    BY <1>1, <2>1 DEF In
  <2>4. submitted[m].index \in Nat /\ submitted[m].layer = r.layer
    BY <2>1, <2>3, RequestFacts DEF SameLayer
  <2>5. <<submitted[m].layer, submitted[m].index>> \notin missing
    BY <2>3 DEF FInv, Order, Answered
  <2> QED
    BY <1>4, <2>2, <2>4, <2>5
<1>6. ASSUME NEW k \in K PROVE \E m \in M : submitted[m].index = k
  <2> DEFINE q == Req(r.image, r.layer, k)
  <2>1. /\ k \in 0 .. r.index - 1 /\ <<r.layer, k>> \notin missing
        /\ k \in 0 .. r.index /\ k < r.index
    BY <1>4
  <2>2. /\ q \in Requests /\ q.image = r.image /\ q.layer = r.layer
        /\ q.index = k
    BY <1>4, <2>1, Earlier
  <2>3. In(Pipe, q)
    BY <1>3, <1>4, <2>1 DEF FInv, Order, NoGaps
  <2> HIDE DEF q
  <2>4. ~In(x, q)
    <3>1. SameLayer(r, q)
      BY <2>2 DEF SameLayer
    <3>2. In(x, q) => r.index < q.index
      BY <1>1, <1>2, <1>4, <2>2, <3>1, BeforeIn
    <3> QED
      BY <1>4, <2>1, <2>2, <3>2
  <2>5. PICK m \in DOMAIN submitted : submitted[m] = q
    BY <1>3, <2>3, <2>4 DEF In
  <2>6. SameLayer(submitted[m], r) /\ SameLayer(r, submitted[m])
    BY <2>2, <2>5 DEF SameLayer
  <2>7. ~(n < m) /\ m # n
    <3>1. n < m => r.index < submitted[m].index
      BY <1>2, <2>6 DEF Ascending
    <3> QED
      BY <1>4, <2>1, <2>2, <2>5, <3>1
  <2>8. m \in M
    BY <1>1, <1>4, <2>6, <2>7
  <2> QED
    BY <2>2, <2>5, <2>8
<1> QED
  BY <1>5, <1>6

\* The segments of a layer are handed on in order and once, for all images,
\* layers, numbers of segments and send buffers, whatever the registry lacks.
THEOREM SegmentsAlwaysInOrder ==
  ASSUME LayersDistinct PROVE Spec => []SegmentsInOrder
  BY InOrder, Invariance, PTL
-----------------------------------------------------------------------------
(* Where total_segment.txt comes from: the tool image_compress.                *)

\* The steps of create, the ones on an engine that is set up, and the ones that
\* only come when no job is in the queue.
CreateSteps ==
  {"open", "compress", "dev_add", "ctx_start", "inv_create", "inv_start", "workq",
   "event", "link", "first_arm", "mmap", "range", "map", "buf"}

FileSteps == {"segment", "write", "total", "count", "next"}

UseSteps == {"construct", "start", "enqueue", "loop", "arm"} \cup FileSteps

\* The DOCA objects that are there, in the order in which they are made.
Objects(dev, compress, attached, started, inv, invStarted, workq) ==
  [dev |-> dev, compress |-> compress, attached |-> attached, started |-> started,
   inv |-> inv, invStarted |-> invStarted, workq |-> workq, linked |-> FALSE,
   mmap |-> [s \in Side |-> FALSE], mapped |-> [s \in Side |-> FALSE],
   buf |-> [s \in Side |-> FALSE], misuse |-> FALSE]

\* How far the set up is.
SetUp ==
  /\ at = "open" => d = NoObjects
  /\ at = "compress" => d = Objects(TRUE, FALSE, FALSE, FALSE, FALSE, FALSE, FALSE)
  /\ at = "dev_add" => d = Objects(TRUE, TRUE, FALSE, FALSE, FALSE, FALSE, FALSE)
  /\ at = "ctx_start" => d = Objects(TRUE, TRUE, TRUE, FALSE, FALSE, FALSE, FALSE)
  /\ at = "inv_create" => d = Objects(TRUE, TRUE, TRUE, TRUE, FALSE, FALSE, FALSE)
  /\ at = "inv_start" => d = Objects(TRUE, TRUE, TRUE, TRUE, TRUE, FALSE, FALSE)
  /\ at = "workq" => d = Objects(TRUE, TRUE, TRUE, TRUE, TRUE, TRUE, FALSE)
  /\ at \in {"event", "link"} => d = Objects(TRUE, TRUE, TRUE, TRUE, TRUE, TRUE, TRUE)

AnyObjects ==
  [dev : BOOLEAN, compress : BOOLEAN, attached : BOOLEAN, started : BOOLEAN,
   inv : BOOLEAN, invStarted : BOOLEAN, workq : BOOLEAN, linked : BOOLEAN,
   mmap : [Side -> BOOLEAN], mapped : [Side -> BOOLEAN],
   buf : [Side -> BOOLEAN], misuse : BOOLEAN]

\* The context and the work queue are there, and DocaBufs of started mmaps only.
CoreReady ==
  /\ d.dev /\ d.compress /\ d.attached /\ d.started
  /\ d.inv /\ d.invStarted /\ d.workq /\ d.linked
  /\ d \in AnyObjects
  /\ \A s \in Side : d.buf[s] => d.mapped[s]

EngineInv ==
  /\ SetUp
  /\ at \in {"first_arm", "mmap", "range", "map", "buf"} => CoreReady
  /\ at \in UseSteps \/ job # "none" => EngineReady
  /\ at \in CreateSteps \cup {"construct", "enqueue"} \cup FileSteps =>
       job = "none" /\ ~busy
  /\ signalled => job \in {"done", "failed"}
  /\ at # "exit" => fault \notin {"workq", "event", "link"}
  /\ at = "exit" /\ fault \in {"workq", "event", "link"} =>
       d = [NoObjects EXCEPT !.dev = TRUE]

Slice == Nat \X Nat

ToolTypes ==
  /\ segsize \in SegmentSizes /\ head \in Nat /\ idx \in Nat
  /\ todo \subseteq LayerFiles
  /\ out \in [LayerFiles -> [seg : [0 .. MaxSegments - 1 -> Slice \cup {None, Torn}],
                         total : Nat \cup {None, Torn}]]

\* The first n of the files f are the first n segments of l at segment_size z, but
\* for the ones in b, which were not read or written as a whole.
Whole(f, b, l, z, n) ==
  \A i \in 0 .. n - 1 : f[i] = Piece(l, z, i) \/ (f[i] = Torn /\ <<l, i>> \in b)

\* The layer at hand is read as far as head_, in idx_ segments.
Reading ==
  /\ cur \in LayerFiles /\ head = Min({Size[cur], idx * segsize})
  /\ idx <= head \/ (Size[cur] = 0 /\ idx <= 1)
  /\ idx <= 1 \/ (idx - 1) * segsize < Size[cur]

\* A segment is in the engine, or comes out of it.
InEngine ==
  job # "none" \/ at \in {"segment", "write"} =>
    /\ Reading /\ idx > 0
    /\ src \in {Piece(cur, segsize, idx - 1), Torn}
    /\ Whole(out[cur].seg, lost, cur, segsize, idx - 1)
    /\ job = "done" \/ at \in {"segment", "write"} => dst = src
    /\ at = "write" => cur \in begun

Written ==
  /\ at = "enqueue" =>
       /\ Reading /\ Whole(out[cur].seg, lost, cur, segsize, idx)
       /\ head < Size[cur] \/ idx = 0
  /\ at \in {"total", "count"} =>
       /\ Reading /\ Whole(out[cur].seg, lost, cur, segsize, idx)
       /\ head = Size[cur] /\ idx > 0

\* The files f of the layer l: each is its segment at some size, or cut.
Files(f, l) ==
  \A i \in 0 .. MaxSegments - 1 :
    f[i] \in {None, Torn} \cup {Piece(l, z, i) : z \in SegmentSizes}

\* A total_segment.txt with n in it counts the files f of the layer l; they are
\* whole unless the layer is in c, the ones that some run has begun.
Total(f, b, c, l, n) ==
  n \notin {None, Torn} =>
    \E z \in SegmentSizes :
      /\ Counts(l, z, n) /\ n \in 1 .. MaxSegments
      /\ \A i \in 0 .. n - 1 : f[i] # None
      /\ l \notin c => Whole(f, b, l, z, n)

Counted ==
  \A l \in LayerFiles :
    Files(out[l].seg, l) /\ Total(out[l].seg, lost, begun, l, out[l].total)

ToolInv == ToolTypes /\ InEngine /\ Written /\ Counted

ImageInv == EngineInv /\ ToolInv

LEMMA ImageStarts == ImageInit => ImageInv
<1> SUFFICES ASSUME ImageInit PROVE ImageInv
  OBVIOUS
<1>1. EngineInv
  BY DEF EngineInv, SetUp, CreateSteps, FileSteps, UseSteps, ImageInit, EngineInit
<1>2. ToolTypes
  BY ImageAssumption DEF ToolTypes, ImageInit, Slice
<1>3. InEngine /\ Written
  BY DEF InEngine, Written, ImageInit, EngineInit
<1>4. Counted
  BY DEF Counted, Files, Total, ImageInit
<1> QED
  BY <1>1, <1>2, <1>3, <1>4 DEF ImageInv, ToolInv

\* The smaller of two numbers.
LEMMA Smaller ==
  ASSUME NEW a \in Nat, NEW b \in Nat
  PROVE  /\ Min({a, b}) \in Nat /\ Min({a, b}) <= a /\ Min({a, b}) <= b
         /\ Min({a, b}) = a \/ Min({a, b}) = b
<1>1. \E x \in {a, b} : \A y \in {a, b} : x <= y
  BY DEF Min
<1>2. Min({a, b}) \in {a, b} /\ \A y \in {a, b} : Min({a, b}) <= y
  BY <1>1, Zenon DEF Min
<1> QED
  BY <1>2

\* What failed is what failed first.
LEMMA FailsFacts ==
  ASSUME NEW s, Fails(s)
  PROVE  fault' = s \/ fault' = fault
  BY DEF Fails

-----------------------------------------------------------------------------
(* The engine. *)

\* One call of the set up: it works, or everything made so far is undone.
LEMMA TryKeeps ==
  ASSUME EngineInv, NEW s \in CreateSteps, NEW next \in CreateSteps \cup {"construct"},
         NEW y, NEW undone, Try(s, next, y, undone),
         s \in {"workq", "event", "link"} => undone = [NoObjects EXCEPT !.dev = TRUE],
         at' = next /\ d' = y =>
           /\ SetUp'
           /\ next \in {"first_arm", "mmap", "range", "map", "buf"} => CoreReady'
           /\ next = "construct" => EngineReady'
  PROVE  EngineInv'
<1>1. /\ at = s /\ job' = job /\ busy' = busy /\ signalled' = signalled
      /\ \/ at' = next /\ d' = y /\ fault' = fault
         \/ at' = "exit" /\ d' = undone /\ (fault' = s \/ fault' = fault)
  BY FailsFacts DEF Try
<1>2. /\ job = "none" /\ ~busy /\ ~signalled
      /\ fault \notin {"workq", "event", "link"} /\ "exit" \notin CreateSteps
  BY <1>1 DEF EngineInv, CreateSteps
<1>3. job' = "none" /\ ~busy' /\ ~signalled'
  BY <1>1, <1>2
<1>4. CASE at' = next /\ d' = y /\ fault' = fault
  <2>1. at' \in UseSteps => at' = "construct"
    BY <1>4 DEF UseSteps, CreateSteps, FileSteps
  <2>2. at' # "exit"
    BY <1>4 DEF CreateSteps
  <2> QED
    BY <1>2, <1>3, <1>4, <2>1, <2>2 DEF EngineInv
<1>5. CASE at' = "exit" /\ d' = undone /\ (fault' = s \/ fault' = fault)
  <2>1. SetUp'
    BY <1>5 DEF SetUp
  <2>2. at' \notin UseSteps
    BY <1>5 DEF UseSteps, FileSteps
  <2>3. NoObjects' = NoObjects
    BY DEF NoObjects, Side
  <2>4. fault' \in {"workq", "event", "link"} => d' = [NoObjects EXCEPT !.dev = TRUE]
    BY <1>2, <1>5
  <2>5. at' \notin CreateSteps \cup {"construct", "enqueue"} \cup FileSteps
    BY <1>5 DEF CreateSteps, FileSteps
  <2>6. at' \notin {"first_arm", "mmap", "range", "map", "buf"}
    BY <1>5
  <2> QED
    BY <1>3, <1>5, <2>1, <2>2, <2>3, <2>4, <2>5, <2>6 DEF EngineInv
<1> QED
  BY <1>1, <1>4, <1>5

\* The calls of the set up, one after the other.
LEMMA MadeFacts ==
  /\ [NoObjects EXCEPT !.dev = TRUE] = Objects(TRUE, FALSE, FALSE, FALSE, FALSE, FALSE, FALSE)
  /\ [Objects(TRUE, FALSE, FALSE, FALSE, FALSE, FALSE, FALSE) EXCEPT !.compress = TRUE]
       = Objects(TRUE, TRUE, FALSE, FALSE, FALSE, FALSE, FALSE)
  /\ [Objects(TRUE, TRUE, FALSE, FALSE, FALSE, FALSE, FALSE) EXCEPT !.attached = TRUE]
       = Objects(TRUE, TRUE, TRUE, FALSE, FALSE, FALSE, FALSE)
  /\ [Objects(TRUE, TRUE, TRUE, FALSE, FALSE, FALSE, FALSE) EXCEPT !.started = TRUE]
       = Objects(TRUE, TRUE, TRUE, TRUE, FALSE, FALSE, FALSE)
  /\ [Objects(TRUE, TRUE, TRUE, TRUE, FALSE, FALSE, FALSE) EXCEPT !.inv = TRUE]
       = Objects(TRUE, TRUE, TRUE, TRUE, TRUE, FALSE, FALSE)
  /\ [Objects(TRUE, TRUE, TRUE, TRUE, TRUE, FALSE, FALSE) EXCEPT !.invStarted = TRUE]
       = Objects(TRUE, TRUE, TRUE, TRUE, TRUE, TRUE, FALSE)
  /\ [Objects(TRUE, TRUE, TRUE, TRUE, TRUE, TRUE, FALSE) EXCEPT !.workq = TRUE]
       = Objects(TRUE, TRUE, TRUE, TRUE, TRUE, TRUE, TRUE)
<1>0. NoObjects = Objects(FALSE, FALSE, FALSE, FALSE, FALSE, FALSE, FALSE)
  BY DEF Objects, NoObjects
<1>1. [Objects(FALSE, FALSE, FALSE, FALSE, FALSE, FALSE, FALSE) EXCEPT !.dev = TRUE]
        = Objects(TRUE, FALSE, FALSE, FALSE, FALSE, FALSE, FALSE)
  <2> DEFINE x == Objects(FALSE, FALSE, FALSE, FALSE, FALSE, FALSE, FALSE)
             y == Objects(TRUE, FALSE, FALSE, FALSE, FALSE, FALSE, FALSE)
  <2>1. Call(~x.dev, x, [x EXCEPT !.dev = TRUE]) = y /\ ~x.dev
    BY DEF Objects, Call
  <2> HIDE DEF x, y
  <2>2. [x EXCEPT !.dev = TRUE] = y
    BY <2>1 DEF Call
  <2> QED
    BY <2>2 DEF x, y
<1>2. [Objects(TRUE, FALSE, FALSE, FALSE, FALSE, FALSE, FALSE) EXCEPT !.compress = TRUE]
        = Objects(TRUE, TRUE, FALSE, FALSE, FALSE, FALSE, FALSE)
  <2> DEFINE x == Objects(TRUE, FALSE, FALSE, FALSE, FALSE, FALSE, FALSE)
             y == Objects(TRUE, TRUE, FALSE, FALSE, FALSE, FALSE, FALSE)
  <2>1. Call(~x.compress, x, [x EXCEPT !.compress = TRUE]) = y /\ ~x.compress
    BY DEF Objects, Call
  <2> HIDE DEF x, y
  <2>2. [x EXCEPT !.compress = TRUE] = y
    BY <2>1 DEF Call
  <2> QED
    BY <2>2 DEF x, y
<1>3. [Objects(TRUE, TRUE, FALSE, FALSE, FALSE, FALSE, FALSE) EXCEPT !.attached = TRUE]
        = Objects(TRUE, TRUE, TRUE, FALSE, FALSE, FALSE, FALSE)
  <2> DEFINE x == Objects(TRUE, TRUE, FALSE, FALSE, FALSE, FALSE, FALSE)
             y == Objects(TRUE, TRUE, TRUE, FALSE, FALSE, FALSE, FALSE)
  <2>1. Call(~x.attached, x, [x EXCEPT !.attached = TRUE]) = y /\ ~x.attached
    BY DEF Objects, Call
  <2> HIDE DEF x, y
  <2>2. [x EXCEPT !.attached = TRUE] = y
    BY <2>1 DEF Call
  <2> QED
    BY <2>2 DEF x, y
<1>4. [Objects(TRUE, TRUE, TRUE, FALSE, FALSE, FALSE, FALSE) EXCEPT !.started = TRUE]
        = Objects(TRUE, TRUE, TRUE, TRUE, FALSE, FALSE, FALSE)
  <2> DEFINE x == Objects(TRUE, TRUE, TRUE, FALSE, FALSE, FALSE, FALSE)
             y == Objects(TRUE, TRUE, TRUE, TRUE, FALSE, FALSE, FALSE)
  <2>1. Call(~x.started, x, [x EXCEPT !.started = TRUE]) = y /\ ~x.started
    BY DEF Objects, Call
  <2> HIDE DEF x, y
  <2>2. [x EXCEPT !.started = TRUE] = y
    BY <2>1 DEF Call
  <2> QED
    BY <2>2 DEF x, y
<1>5. [Objects(TRUE, TRUE, TRUE, TRUE, FALSE, FALSE, FALSE) EXCEPT !.inv = TRUE]
        = Objects(TRUE, TRUE, TRUE, TRUE, TRUE, FALSE, FALSE)
  <2> DEFINE x == Objects(TRUE, TRUE, TRUE, TRUE, FALSE, FALSE, FALSE)
             y == Objects(TRUE, TRUE, TRUE, TRUE, TRUE, FALSE, FALSE)
  <2>1. Call(~x.inv, x, [x EXCEPT !.inv = TRUE]) = y /\ ~x.inv
    BY DEF Objects, Call
  <2> HIDE DEF x, y
  <2>2. [x EXCEPT !.inv = TRUE] = y
    BY <2>1 DEF Call
  <2> QED
    BY <2>2 DEF x, y
<1>6. [Objects(TRUE, TRUE, TRUE, TRUE, TRUE, FALSE, FALSE) EXCEPT !.invStarted = TRUE]
        = Objects(TRUE, TRUE, TRUE, TRUE, TRUE, TRUE, FALSE)
  <2> DEFINE x == Objects(TRUE, TRUE, TRUE, TRUE, TRUE, FALSE, FALSE)
             y == Objects(TRUE, TRUE, TRUE, TRUE, TRUE, TRUE, FALSE)
  <2>1. Call(~x.invStarted, x, [x EXCEPT !.invStarted = TRUE]) = y /\ ~x.invStarted
    BY DEF Objects, Call
  <2> HIDE DEF x, y
  <2>2. [x EXCEPT !.invStarted = TRUE] = y
    BY <2>1 DEF Call
  <2> QED
    BY <2>2 DEF x, y
<1>7. [Objects(TRUE, TRUE, TRUE, TRUE, TRUE, TRUE, FALSE) EXCEPT !.workq = TRUE]
        = Objects(TRUE, TRUE, TRUE, TRUE, TRUE, TRUE, TRUE)
  <2> DEFINE x == Objects(TRUE, TRUE, TRUE, TRUE, TRUE, TRUE, FALSE)
             y == Objects(TRUE, TRUE, TRUE, TRUE, TRUE, TRUE, TRUE)
  <2>1. Call(~x.workq, x, [x EXCEPT !.workq = TRUE]) = y /\ ~x.workq
    BY DEF Objects, Call
  <2> HIDE DEF x, y
  <2>2. [x EXCEPT !.workq = TRUE] = y
    BY <2>1 DEF Call
  <2> QED
    BY <2>2 DEF x, y
<1> QED
  BY <1>0, <1>1, <1>2, <1>3, <1>4, <1>5, <1>6, <1>7

\* The labels of DocaCore::create leave the device only.
LEMMA UndoneFacts ==
  LET none == [NoObjects EXCEPT !.dev = TRUE]
      x == Objects(TRUE, TRUE, TRUE, TRUE, TRUE, TRUE, FALSE)
      y == Objects(TRUE, TRUE, TRUE, TRUE, TRUE, TRUE, TRUE)
  IN  /\ CompressDestroy(FailWorkqCreate(x)) = none
      /\ CompressDestroy(FailCtxWorkqAdd(y)) = none
<1> DEFINE none == [NoObjects EXCEPT !.dev = TRUE]
           x == Objects(TRUE, TRUE, TRUE, TRUE, TRUE, TRUE, FALSE)
           y == Objects(TRUE, TRUE, TRUE, TRUE, TRUE, TRUE, TRUE)
           x1 == Objects(TRUE, TRUE, TRUE, FALSE, TRUE, TRUE, FALSE)
           x2 == Objects(TRUE, TRUE, FALSE, FALSE, TRUE, TRUE, FALSE)
           x3 == Objects(TRUE, TRUE, FALSE, FALSE, TRUE, FALSE, FALSE)
           x4 == Objects(TRUE, TRUE, FALSE, FALSE, FALSE, FALSE, FALSE)
           x5 == Objects(TRUE, FALSE, FALSE, FALSE, FALSE, FALSE, FALSE)
<1>1. CtxStop(x) = x1
  BY DEF Objects, CtxStop, Call
<1>2. CtxDevRm(x1) = x2
  BY DEF Objects, CtxDevRm, Call
<1>3. InvStop(x2) = x3
  BY DEF Objects, InvStop, Call
<1>4. InvDestroy(x3) = x4
  BY DEF Objects, InvDestroy, Call
<1>5. CompressDestroy(x4) = x5
  BY DEF Objects, CompressDestroy, Call
<1>6. WorkqDestroy(y) = x
  BY DEF Objects, WorkqDestroy, Call
<1>7. x5 = none
  BY MadeFacts
<1> HIDE DEF x, y, x1, x2, x3, x4, x5, none
<1>8. CompressDestroy(FailWorkqCreate(x)) = none
  BY <1>1, <1>2, <1>3, <1>4, <1>5, <1>7
     DEF FailWorkqCreate, FailCtxStart, FailCtxDevAdd, FailBufInventoryStart
<1>9. FailCtxWorkqAdd(y) = FailWorkqCreate(x)
  BY <1>6 DEF FailCtxWorkqAdd
<1> QED
  BY <1>8, <1>9 DEF x, y, none

LEMMA CoreKeeps ==
  ASSUME EngineInv,
         \/ OpenDevice \/ CompressCreate \/ CtxDevAdd \/ CtxStart
         \/ InvCreate \/ InvStart \/ WorkqCreate \/ EventDriven
  PROVE  EngineInv'
<1>0. SetUp
  BY DEF EngineInv
<1>1. CASE OpenDevice
  <2>1. Try("open", "compress", [d EXCEPT !.dev = TRUE], CompressDestroy(d))
    BY <1>1 DEF OpenDevice
  <2>2. [d EXCEPT !.dev = TRUE] = Objects(TRUE, FALSE, FALSE, FALSE, FALSE, FALSE, FALSE)
    BY <1>0, <2>1, MadeFacts DEF SetUp, Try
  <2>3. at' = "compress" /\ d' = [d EXCEPT !.dev = TRUE] => SetUp'
    BY <2>2 DEF SetUp
  <2>4. "open" \in CreateSteps /\ "compress" \in CreateSteps
    BY DEF CreateSteps
  <2> QED
    BY <2>1, <2>3, <2>4, TryKeeps
<1>2. CASE CompressCreate
  <2>1. PICK left : Try("compress", "dev_add", [d EXCEPT !.compress = TRUE], left)
    BY <1>2 DEF CompressCreate
  <2>2. [d EXCEPT !.compress = TRUE] = Objects(TRUE, TRUE, FALSE, FALSE, FALSE, FALSE, FALSE)
    BY <1>0, <2>1, MadeFacts DEF SetUp, Try
  <2>3. at' = "dev_add" /\ d' = [d EXCEPT !.compress = TRUE] => SetUp'
    BY <2>2 DEF SetUp
  <2>4. "compress" \in CreateSteps /\ "dev_add" \in CreateSteps
    BY DEF CreateSteps
  <2> QED
    BY <2>1, <2>3, <2>4, TryKeeps
<1>3. CASE CtxDevAdd
  <2>1. Try("dev_add", "ctx_start", [d EXCEPT !.attached = TRUE],
              CompressDestroy(FailCtxDevAdd(d)))
    BY <1>3 DEF CtxDevAdd, CoreTry
  <2>2. [d EXCEPT !.attached = TRUE] = Objects(TRUE, TRUE, TRUE, FALSE, FALSE, FALSE, FALSE)
    BY <1>0, <2>1, MadeFacts DEF SetUp, Try
  <2>3. at' = "ctx_start" /\ d' = [d EXCEPT !.attached = TRUE] => SetUp'
    BY <2>2 DEF SetUp
  <2>4. "dev_add" \in CreateSteps /\ "ctx_start" \in CreateSteps
    BY DEF CreateSteps
  <2> QED
    BY <2>1, <2>3, <2>4, TryKeeps
<1>4. CASE CtxStart
  <2>1. Try("ctx_start", "inv_create", [d EXCEPT !.started = TRUE],
              CompressDestroy(FailCtxStart(d)))
    BY <1>4 DEF CtxStart, CoreTry
  <2>2. [d EXCEPT !.started = TRUE] = Objects(TRUE, TRUE, TRUE, TRUE, FALSE, FALSE, FALSE)
    BY <1>0, <2>1, MadeFacts DEF SetUp, Try
  <2>3. at' = "inv_create" /\ d' = [d EXCEPT !.started = TRUE] => SetUp'
    BY <2>2 DEF SetUp
  <2>4. "ctx_start" \in CreateSteps /\ "inv_create" \in CreateSteps
    BY DEF CreateSteps
  <2> QED
    BY <2>1, <2>3, <2>4, TryKeeps
<1>5. CASE InvCreate
  <2>1. Try("inv_create", "inv_start", [d EXCEPT !.inv = TRUE], CompressDestroy(d))
    BY <1>5 DEF InvCreate, CoreTry
  <2>2. [d EXCEPT !.inv = TRUE] = Objects(TRUE, TRUE, TRUE, TRUE, TRUE, FALSE, FALSE)
    BY <1>0, <2>1, MadeFacts DEF SetUp, Try
  <2>3. at' = "inv_start" /\ d' = [d EXCEPT !.inv = TRUE] => SetUp'
    BY <2>2 DEF SetUp
  <2>4. "inv_create" \in CreateSteps /\ "inv_start" \in CreateSteps
    BY DEF CreateSteps
  <2> QED
    BY <2>1, <2>3, <2>4, TryKeeps
<1>6. CASE InvStart
  <2>1. Try("inv_start", "workq", [d EXCEPT !.invStarted = TRUE],
              CompressDestroy(FailBufInventoryStart(d)))
    BY <1>6 DEF InvStart, CoreTry
  <2>2. [d EXCEPT !.invStarted = TRUE] = Objects(TRUE, TRUE, TRUE, TRUE, TRUE, TRUE, FALSE)
    BY <1>0, <2>1, MadeFacts DEF SetUp, Try
  <2>3. at' = "workq" /\ d' = [d EXCEPT !.invStarted = TRUE] => SetUp'
    BY <2>2 DEF SetUp
  <2>4. "inv_start" \in CreateSteps /\ "workq" \in CreateSteps
    BY DEF CreateSteps
  <2> QED
    BY <2>1, <2>3, <2>4, TryKeeps
<1>7. CASE WorkqCreate
  <2>1. Try("workq", "event", [d EXCEPT !.workq = TRUE],
              CompressDestroy(FailWorkqCreate(d)))
    BY <1>7 DEF WorkqCreate, CoreTry
  <2>5. d = Objects(TRUE, TRUE, TRUE, TRUE, TRUE, TRUE, FALSE)
    BY <1>0, <2>1 DEF SetUp, Try
  <2>6. CompressDestroy(FailWorkqCreate(d)) = [NoObjects EXCEPT !.dev = TRUE]
    BY <2>5, UndoneFacts
  <2>2. [d EXCEPT !.workq = TRUE] = Objects(TRUE, TRUE, TRUE, TRUE, TRUE, TRUE, TRUE)
    BY <2>5, MadeFacts
  <2>3. at' = "event" /\ d' = [d EXCEPT !.workq = TRUE] => SetUp'
    BY <2>2 DEF SetUp
  <2>4. "workq" \in CreateSteps /\ "event" \in CreateSteps
    BY DEF CreateSteps
  <2> QED
    BY <2>1, <2>3, <2>4, <2>6, TryKeeps
<1>8. CASE EventDriven
  <2>1. Try("event", "link", d, CompressDestroy(FailCtxWorkqAdd(d)))
    BY <1>8 DEF EventDriven, CoreTry
  <2>5. d = Objects(TRUE, TRUE, TRUE, TRUE, TRUE, TRUE, TRUE)
    BY <1>0, <2>1 DEF SetUp, Try
  <2>6. CompressDestroy(FailCtxWorkqAdd(d)) = [NoObjects EXCEPT !.dev = TRUE]
    BY <2>5, UndoneFacts
  <2>3. at' = "link" /\ d' = d => SetUp'
    BY <2>5 DEF SetUp
  <2>4. "event" \in CreateSteps /\ "link" \in CreateSteps
    BY DEF CreateSteps
  <2> QED
    BY <2>1, <2>3, <2>4, <2>6, TryKeeps
<1> QED
  BY <1>1, <1>2, <1>3, <1>4, <1>5, <1>6, <1>7, <1>8

\* From the linked work queue on.
LEMMA QueueKeeps ==
  ASSUME EngineInv, WorkqAdd \/ FirstArm \/ SetMemrange
  PROVE  EngineInv'
<1>1. CASE WorkqAdd
  <2>1. Try("link", "first_arm", [d EXCEPT !.linked = TRUE],
              CompressDestroy(FailCtxWorkqAdd(d)))
    BY <1>1 DEF WorkqAdd, CoreTry
  <2>5. d = Objects(TRUE, TRUE, TRUE, TRUE, TRUE, TRUE, TRUE)
    BY <2>1 DEF EngineInv, SetUp, Try
  <2>6. CompressDestroy(FailCtxWorkqAdd(d)) = [NoObjects EXCEPT !.dev = TRUE]
    BY <2>5, UndoneFacts
  <2>3. at' = "first_arm" => SetUp'
    BY DEF SetUp
  <2>7. d' = [d EXCEPT !.linked = TRUE] => CoreReady'
    <3>1. d \in AnyObjects /\ (\A s \in Side : ~d.buf[s])
          /\ d.dev /\ d.compress /\ d.attached /\ d.started
          /\ d.inv /\ d.invStarted /\ d.workq
      BY <2>5 DEF AnyObjects, Objects, Side
    <3> QED
      BY <3>1 DEF CoreReady, AnyObjects
  <2>4. "link" \in CreateSteps /\ "first_arm" \in CreateSteps
    BY DEF CreateSteps
  <2> QED
    BY <2>1, <2>3, <2>4, <2>6, <2>7, TryKeeps
<1>2. CASE FirstArm
  <2>1. Try("first_arm", "mmap", d, CompressDestroy(FailCtxWorkqAdd(d)))
    BY <1>2 DEF FirstArm, CoreTry
  <2>2. CoreReady
    BY <2>1 DEF EngineInv, Try
  <2>3. at' = "mmap" /\ d' = d => SetUp' /\ CoreReady'
    BY <2>2 DEF SetUp, CoreReady
  <2>4. "first_arm" \in CreateSteps /\ "mmap" \in CreateSteps
    BY DEF CreateSteps
  <2> QED
    BY <2>1, <2>3, <2>4, TryKeeps
<1>3. CASE SetMemrange
  <2>1. Try("range", "map", d, EngineDestruct(d))
    BY <1>3 DEF SetMemrange
  <2>2. CoreReady
    BY <2>1 DEF EngineInv, Try
  <2>3. at' = "map" /\ d' = d => SetUp' /\ CoreReady'
    BY <2>2 DEF SetUp, CoreReady
  <2>4. "range" \in CreateSteps /\ "map" \in CreateSteps
    BY DEF CreateSteps
  <2> QED
    BY <2>1, <2>3, <2>4, TryKeeps
<1> QED
  BY <1>1, <1>2, <1>3

\* What of d a step of the mmaps changes.
LEMMA MmapFacts ==
  ASSUME CoreReady, NEW s \in Side,
         \/ d' = d
         \/ d' = [d EXCEPT !.mmap[s] = TRUE]
         \/ d' = [d EXCEPT !.mapped[s] = TRUE]
         \/ d' = [d EXCEPT !.buf[s] = TRUE] /\ d.mapped[s]
  PROVE  CoreReady'
<1>1. CASE d' = d
  BY <1>1 DEF CoreReady
<1>2. CASE d' = [d EXCEPT !.mmap[s] = TRUE]
  BY <1>2 DEF CoreReady, AnyObjects
<1>3. CASE d' = [d EXCEPT !.mapped[s] = TRUE]
  BY <1>3 DEF CoreReady, AnyObjects
<1>4. CASE d' = [d EXCEPT !.buf[s] = TRUE] /\ d.mapped[s]
  BY <1>4 DEF CoreReady, AnyObjects
<1> QED
  BY <1>1, <1>2, <1>3, <1>4

LEMMA MmapKeeps ==
  ASSUME EngineInv, CreateMmap \/ MmapStart \/ BufByAddr
  PROVE  EngineInv'
<1> DEFINE m == Mapping
<1>0. m \in Side
  BY DEF Mapping, Side
<1>4. m = "dst" => d.buf["src"]
  BY DEF Mapping
<1>9. m = "src" \/ m = "dst"
  BY DEF Mapping
<1>1. CASE CreateMmap
  <2>1. Try("mmap", "range", [d EXCEPT !.mmap[m] = TRUE], EngineDestruct(d))
    BY <1>1 DEF CreateMmap
  <2> HIDE DEF m
  <2>2. CoreReady
    BY <2>1 DEF EngineInv, Try
  <2>3. d' = [d EXCEPT !.mmap[m] = TRUE] => CoreReady'
    BY <1>0, <2>2, MmapFacts
  <2>5. at' = "range" => SetUp'
    BY DEF SetUp
  <2>4. "range" \in CreateSteps /\ "mmap" \in CreateSteps
    BY DEF CreateSteps
  <2> QED
    BY <2>1, <2>3, <2>4, <2>5, TryKeeps
<1>2. CASE MmapStart
  <2>1. /\ at = "map" /\ at' = "buf" /\ job' = job /\ busy' = busy
        /\ signalled' = signalled
        /\ d' = [d EXCEPT !.mapped[m] = TRUE] \/ d' = d
        /\ fault' = fault \/ fault' = "map"
    BY <1>2, FailsFacts DEF MmapStart
  <2> HIDE DEF m
  <2>2. CoreReady /\ job = "none" /\ ~busy /\ ~signalled
        /\ fault \notin {"workq", "event", "link"}
    BY <2>1 DEF EngineInv, CreateSteps
  <2>3. CoreReady'
    BY <1>0, <2>1, <2>2, MmapFacts
  <2>4. SetUp'
    BY <2>1 DEF SetUp
  <2>5. at' \notin UseSteps
    BY <2>1 DEF UseSteps, FileSteps
  <2> QED
    BY <2>1, <2>2, <2>3, <2>4, <2>5 DEF EngineInv
<1>3. CASE BufByAddr
  <2> DEFINE n == IF m = "src" THEN "mmap" ELSE "construct"
  <2>1. /\ Try("buf", n, [d EXCEPT !.buf[m] = TRUE], EngineDestruct(d))
        /\ at' # "exit" => d.mapped[m]
    BY <1>3 DEF BufByAddr
  <2> HIDE DEF m
  <2>2. CoreReady
    BY <2>1 DEF EngineInv, Try
  <2>6. n \in CreateSteps \cup {"construct"} /\ n # "exit"
    BY DEF CreateSteps
  <2>3. at' = n /\ d' = [d EXCEPT !.buf[m] = TRUE] => CoreReady'
    BY <1>0, <2>1, <2>2, <2>6, MmapFacts
  <2>5. at' = n => SetUp'
    BY DEF SetUp
  <2>7. ASSUME at' = n, d' = [d EXCEPT !.buf[m] = TRUE], n = "construct"
        PROVE  EngineReady'
    <3>1. m = "dst" /\ d.buf["src"]
      BY <1>4, <1>9, <2>7
    <3>2. "src" \in Side /\ "dst" \in Side /\ \A s \in Side : s = "src" \/ s = "dst"
      BY DEF Side
    <3>3. d'.buf["src"] /\ d'.buf["dst"]
      BY <2>2, <2>7, <3>1, <3>2 DEF CoreReady, AnyObjects
    <3>4. CoreReady'
      BY <2>3, <2>7
    <3> QED
      BY <3>2, <3>3, <3>4 DEF CoreReady, EngineReady, Side
  <2>4. "buf" \in CreateSteps
    BY DEF CreateSteps
  <2> HIDE DEF n
  <2> QED
    BY <2>1, <2>3, <2>4, <2>5, <2>6, <2>7, TryKeeps
<1> QED
  BY <1>1, <1>2, <1>3

LEMMA CreateKeeps ==
  ASSUME EngineInv, CreateEngine
  PROVE  /\ EngineInv' /\ job' = "none"
         /\ at' \in CreateSteps \cup {"construct", "exit"}
<1>1. EngineInv'
  BY CoreKeeps, QueueKeeps, MmapKeeps DEF CreateEngine
<1>2. /\ at \in CreateSteps /\ job' = job
      /\ at' \in CreateSteps \cup {"construct", "exit"}
  BY DEF CreateEngine, OpenDevice, CompressCreate, CtxDevAdd, CtxStart,
         InvCreate, InvStart, WorkqCreate, EventDriven, WorkqAdd, FirstArm,
         CreateMmap, SetMemrange, MmapStart, BufByAddr, CoreTry, Try,
         CreateSteps
<1> QED
  BY <1>1, <1>2 DEF EngineInv

-----------------------------------------------------------------------------
(* The tool. *)

\* The engine is set up and nothing of it changes but the job and its handle.
LEMMA UseKeeps ==
  ASSUME EngineInv, at \in UseSteps, at' \in UseSteps, d' = d,
         fault' = fault \/ fault' \notin {"workq", "event", "link"},
         at' \in {"construct", "enqueue"} \cup FileSteps => job' = "none" /\ ~busy',
         signalled' => job' \in {"done", "failed"}
  PROVE  EngineInv'
<1>1. /\ at' \notin CreateSteps /\ at' # "exit" /\ at # "exit"
      /\ at' \notin {"first_arm", "mmap", "range", "map", "buf"}
  BY DEF UseSteps, CreateSteps, FileSteps
<1>2. SetUp'
  BY DEF SetUp, UseSteps, FileSteps
<1>3. EngineReady'
  BY DEF EngineInv, EngineReady
<1>4. fault' \notin {"workq", "event", "link"}
  BY <1>1 DEF EngineInv
<1> QED
  BY <1>1, <1>2, <1>3, <1>4 DEF EngineInv

\* The process ends.
LEMMA ExitKeeps ==
  ASSUME EngineInv, at # "exit", at' = "exit", d' = d, job' = job,
         fault' = fault \/ fault' \notin {"workq", "event", "link"},
         signalled' => signalled
  PROVE  EngineInv'
<1>1. /\ at' \notin CreateSteps \cup {"construct", "enqueue"} \cup FileSteps
      /\ at' \notin UseSteps /\ at' \notin {"first_arm", "mmap", "range", "map", "buf"}
  BY DEF UseSteps, CreateSteps, FileSteps
<1>2. SetUp'
  BY DEF SetUp
<1>3. EngineReady => EngineReady'
  BY DEF EngineReady
<1>4. fault' \notin {"workq", "event", "link"}
  BY DEF EngineInv
<1> QED
  BY <1>1, <1>2, <1>3, <1>4 DEF EngineInv

\* No segment is on its way.
LEMMA IdleKeeps ==
  ASSUME ToolInv, job' = "none",
         at' \notin {"segment", "write", "enqueue", "total", "count"},
         UNCHANGED <<segsize, head, idx, todo, begun, lost, out>>
  PROVE  ToolInv'
<1>1. ToolTypes'
  BY DEF ToolInv, ToolTypes
<1>2. InEngine' /\ Written'
  BY DEF InEngine, Written
<1>3. Counted'
  BY DEF ToolInv, Counted, Total, Files, Whole
<1> QED
  BY <1>1, <1>2, <1>3 DEF ToolInv

\* A segment stays where it is.
LEMMA StayKeeps ==
  ASSUME ToolInv, job' = job \/ (job' = "failed" /\ job # "none"),
         at' \notin {"segment", "write", "enqueue", "total", "count"},
         UNCHANGED <<segsize, head, idx, todo, begun, lost, out, cur, src, dst>>
  PROVE  ToolInv'
<1>1. ToolTypes'
  BY DEF ToolInv, ToolTypes
<1>2. InEngine' /\ Written'
  BY DEF ToolInv, InEngine, Written, Reading, Whole
<1>3. Counted'
  BY DEF ToolInv, Counted, Total, Files, Whole
<1> QED
  BY <1>1, <1>2, <1>3 DEF ToolInv

LEMMA CreateStep ==
  ASSUME ImageInv, Create PROVE ImageInv'
<1>1. CreateEngine /\ UNCHANGED <<segsize, head, idx, todo, begun, lost, out>>
  BY DEF Create, toolVars
<1>2. /\ EngineInv' /\ job' = "none" /\ at' \in CreateSteps \cup {"construct", "exit"}
  BY <1>1, CreateKeeps DEF ImageInv
<1>3. at' \notin {"segment", "write", "enqueue", "total", "count"}
  BY <1>2 DEF CreateSteps
<1> QED
  BY <1>1, <1>2, <1>3, IdleKeeps DEF ImageInv

\* The next layer, if it can be opened.
LEMMA FileKeeps ==
  ASSUME ImageInv, at \in {"construct", "next"}, NEW back \in {"start", "arm"},
         NextFile(back), UNCHANGED <<d, busy, job, signalled, segsize, begun, lost, out>>
  PROVE  ImageInv'
<1>1. /\ job = "none" /\ ~busy /\ ~signalled /\ at \in UseSteps
  BY DEF ImageInv, EngineInv, UseSteps, FileSteps
<1>2. /\ at' = back \/ at' = "enqueue"
      /\ fault' = fault \/ fault' = "open_layer"
  BY FailsFacts DEF NextFile
<1>3. EngineInv'
  <2>1. at' \in UseSteps
    BY <1>2 DEF UseSteps
  <2>2. job' = "none" /\ ~busy' /\ ~signalled'
    BY <1>1
  <2> QED
    BY <1>1, <1>2, <2>1, <2>2, UseKeeps DEF ImageInv
<1>4. CASE at' = "enqueue"
  <2>1. PICK l \in todo : /\ todo' = todo \ {l} /\ cur' = l /\ head' = 0 /\ idx' = 0
    BY <1>4 DEF NextFile
  <2>2. /\ ToolTypes /\ l \in LayerFiles /\ todo' \subseteq LayerFiles /\ Size[l] \in Nat
        /\ segsize \in Nat
    BY <2>1, ImageAssumption DEF ImageInv, ToolInv, ToolTypes
  <2>3. ToolTypes'
    BY <2>1, <2>2 DEF ToolTypes
  <2>4. Reading' /\ Whole(out[cur].seg, lost, cur, segsize, idx)'
    <3>1. Min({Size[l], 0 * segsize}) = 0
      BY <2>2, Smaller
    <3>2. Reading'
      BY <2>1, <2>2, <3>1 DEF Reading
    <3> QED
      BY <2>1, <3>2 DEF Whole
  <2>5. InEngine' /\ Written'
    BY <1>1, <1>4, <2>1, <2>4 DEF InEngine, Written
  <2>6. Counted'
    BY DEF ImageInv, ToolInv, Counted, Total, Files, Whole
  <2> QED
    BY <1>3, <2>3, <2>5, <2>6 DEF ImageInv, ToolInv
<1>5. CASE at' = back
  <2>1. /\ head' = head /\ idx' = idx /\ todo' \subseteq todo
        /\ at' \notin {"segment", "write", "enqueue", "total", "count"} /\ job' = "none"
    BY <1>1, <1>5 DEF NextFile
  <2>2. ToolTypes' /\ Counted'
    BY <2>1 DEF ImageInv, ToolInv, ToolTypes, Counted, Total, Files, Whole
  <2>3. InEngine' /\ Written'
    BY <2>1 DEF InEngine, Written
  <2> QED
    BY <1>3, <2>2, <2>3 DEF ImageInv, ToolInv
<1> QED
  BY <1>2, <1>4, <1>5

\* What Enqueue reads is the next segment, and it takes head_ to its end.
LEMMA NextPiece ==
  ASSUME ToolTypes, Reading, head < Size[cur] \/ idx = 0
  PROVE  LET read == Min({Size[cur] - head, segsize}) IN
         /\ read \in Nat /\ <<head, head + read>> = Piece(cur, segsize, idx)
         /\ head + read = Min({Size[cur], (idx + 1) * segsize})
         /\ idx = 0 \/ idx * segsize < Size[cur]
         /\ idx + 1 <= head + read \/ (Size[cur] = 0 /\ idx + 1 <= 1)
<1> DEFINE p == idx * segsize
           S == Size[cur]
           read == Min({S - head, segsize})
           m == Min({S, p + segsize})
<1>1. /\ cur \in LayerFiles /\ S \in Nat /\ head \in Nat /\ idx \in Nat
      /\ segsize \in Nat /\ segsize > 0 /\ p \in Nat
      /\ (idx + 1) * segsize = p + segsize
      /\ head = Min({S, p}) /\ (idx <= head \/ (S = 0 /\ idx <= 1))
      /\ idx = 0 => p = 0
      /\ head < S \/ idx = 0
  BY ImageAssumption DEF Reading, ToolTypes
<1>2. Piece(cur, segsize, idx) = <<p, m>>
  BY <1>1 DEF Piece
<1> HIDE DEF p, S
<1>3. head <= S /\ head <= p /\ (head = S \/ head = p)
  BY <1>1, Smaller
<1>4. S - head \in Nat
  BY <1>1, <1>3
<1>5. /\ read \in Nat /\ read <= S - head /\ read <= segsize
      /\ read = S - head \/ read = segsize
  BY <1>1, <1>4, Smaller
<1>6. /\ m \in Nat /\ m <= S /\ m <= p + segsize /\ (m = S \/ m = p + segsize)
  BY <1>1, Smaller
<1> HIDE DEF read, m
<1>7. head = p
  BY <1>1, <1>3
<1>8. head + read = m
  BY <1>1, <1>3, <1>5, <1>6, <1>7
<1>9. idx = 0 \/ p < S
  BY <1>1, <1>3, <1>7
<1>10. idx + 1 <= head + read \/ (S = 0 /\ idx + 1 <= 1)
  BY <1>1, <1>3, <1>5, <1>7
<1> QED
  BY <1>1, <1>2, <1>5, <1>7, <1>8, <1>9, <1>10 DEF read, m, p, S

LEMMA EnqueueKeeps ==
  ASSUME ImageInv, Enqueue
  PROVE  ImageInv'
<1> DEFINE left == Size[cur] - head
           read == Min({left, segsize})
<1>1. /\ at = "enqueue" /\ at' \in {"arm", "start"}
      /\ src' \in {<<head, head + read>>, Torn}
      /\ \/ /\ job' = "running" \/ job' = job
            /\ head' = head + read /\ idx' = idx + 1 /\ (fault' = fault \/ fault' = "submit")
         \/ /\ fault' = fault \/ fault' = "set_data"
            /\ job' = job /\ head' = head /\ idx' = idx
      /\ UNCHANGED <<d, signalled, segsize, todo, cur, dst, begun, lost, out>>
  BY FailsFacts DEF Enqueue, Return, StartJob, SubmitJob
<1> HIDE DEF read
<1>2. /\ job = "none" /\ ~signalled /\ at \in UseSteps
  BY <1>1 DEF ImageInv, EngineInv, UseSteps
<1>3. EngineInv'
  <2>1. at' \in UseSteps /\ at' \notin {"construct", "enqueue"} \cup FileSteps
    BY <1>1 DEF UseSteps, FileSteps
  <2>2. d' = d /\ ~signalled' /\ (fault' = fault \/ fault' \notin {"workq", "event", "link"})
    BY <1>1, <1>2
  <2> QED
    BY <1>2, <2>1, <2>2, UseKeeps DEF ImageInv
<1>4. /\ ToolTypes /\ Reading /\ Whole(out[cur].seg, lost, cur, segsize, idx)
      /\ head < Size[cur] \/ idx = 0
      /\ cur \in LayerFiles /\ head \in Nat /\ idx \in Nat
  BY <1>1 DEF ImageInv, ToolInv, Written, Reading, ToolTypes
<1>5. /\ read \in Nat /\ <<head, head + read>> = Piece(cur, segsize, idx)
      /\ head + read = Min({Size[cur], (idx + 1) * segsize})
      /\ idx = 0 \/ idx * segsize < Size[cur]
      /\ idx + 1 <= head + read \/ (Size[cur] = 0 /\ idx + 1 <= 1)
  BY <1>4, NextPiece DEF read
<1>6. ToolTypes'
  BY <1>1, <1>4, <1>5 DEF ToolTypes
<1>7. Counted' /\ Written'
  BY <1>1 DEF ImageInv, ToolInv, Counted, Written, Total, Files, Whole
<1>8. InEngine'
  <2>1. CASE job' = "none"
    BY <1>1, <2>1 DEF InEngine
  <2>2. CASE job' = "running" /\ head' = head + read /\ idx' = idx + 1
    <3>1. idx' > 0 /\ idx' - 1 = idx /\ (idx = 0 => idx' <= 1)
      BY <1>4, <2>2
    <3>2. Reading'
      BY <1>1, <1>4, <1>5, <2>2, <3>1 DEF Reading
    <3>3. src' \in {Piece(cur, segsize, idx - 1), Torn}'
      BY <1>1, <1>5, <3>1 DEF Piece
    <3>4. Whole(out[cur].seg, lost, cur, segsize, idx - 1)'
      BY <1>1, <1>4, <3>1 DEF Whole
    <3> QED
      BY <1>1, <2>2, <3>1, <3>2, <3>3, <3>4 DEF InEngine
  <2> QED
    BY <1>1, <1>2, <2>1, <2>2
<1> QED
  BY <1>3, <1>6, <1>7, <1>8 DEF ImageInv, ToolInv

LEMMA StartKeeps ==
  ASSUME ImageInv, Start PROVE ImageInv'
<1>1. /\ at = "start" /\ at' = "loop"
      /\ UNCHANGED <<d, fault, busy, job, signalled, segsize, todo, cur, head, idx,
                     src, dst, begun, lost, out>>
  BY DEF Start
<1>2. at \in UseSteps /\ at' \in UseSteps /\ at' \notin {"construct", "enqueue"} \cup FileSteps
  BY <1>1 DEF UseSteps, FileSteps
<1>3. EngineInv'
  BY <1>1, <1>2, UseKeeps DEF ImageInv, EngineInv
<1>4. ToolInv'
  BY <1>1, StayKeeps DEF ImageInv
<1> QED
  BY <1>3, <1>4 DEF ImageInv

LEMMA JobEndsKeeps ==
  ASSUME ImageInv, JobEnds PROVE ImageInv'
<1>1. /\ job = "running" /\ job' \in {"done", "failed"}
      /\ job' = "done" => dst' = src
      /\ fault' = fault \/ fault' \notin {"workq", "event", "link"}
      /\ fault' = IF fault = "none" THEN fault' ELSE fault
      /\ UNCHANGED <<at, d, busy, segsize, todo, cur, head, idx, src, begun, lost, out>>
  BY DEF JobEnds, Finish, Fails
<1>2. at \notin CreateSteps \cup {"construct", "enqueue"} \cup FileSteps
  BY <1>1 DEF ImageInv, EngineInv
<1>3. EngineInv'
  <2>1. EngineReady'
    BY <1>1 DEF ImageInv, EngineInv, EngineReady
  <2>2. SetUp'
    BY <1>1 DEF ImageInv, EngineInv, SetUp
  <2>3. at' \notin {"first_arm", "mmap", "range", "map", "buf"}
    BY <1>1, <1>2 DEF CreateSteps
  <2>4. fault' \in {"workq", "event", "link"} => fault' = fault
    BY <1>1
  <2> QED
    BY <1>1, <1>2, <2>1, <2>2, <2>3, <2>4 DEF ImageInv, EngineInv
<1>4. ToolTypes' /\ Counted'
  BY <1>1 DEF ImageInv, ToolInv, ToolTypes, Counted, Total, Files, Whole
<1>5. at' \notin {"segment", "write", "enqueue", "total", "count"}
  BY <1>1, <1>2 DEF FileSteps
<1>6. Written'
  BY <1>5 DEF Written
<1>7. InEngine'
  BY <1>1, <1>5 DEF ImageInv, ToolInv, InEngine, Reading, Whole
<1> QED
  BY <1>3, <1>4, <1>6, <1>7 DEF ImageInv, ToolInv

LEMMA RetrieveKeeps ==
  ASSUME ImageInv, Retrieve PROVE ImageInv'
<1>1. /\ at = "loop" /\ signalled /\ d' = d
      /\ UNCHANGED <<segsize, todo, cur, head, idx, src, dst, begun, lost, out>>
      /\ fault' = fault \/ fault' \notin {"workq", "event", "link"}
  BY FailsFacts DEF Retrieve, HandleRead, toolVars
<1>2. at \in UseSteps
  BY <1>1 DEF UseSteps
<1>3. CASE at' = "loop" /\ busy' = busy /\ job' = job /\ signalled' = signalled
  <2>1. at' \in UseSteps /\ at' \notin {"construct", "enqueue"} \cup FileSteps
    BY <1>3 DEF UseSteps, FileSteps
  <2>2. EngineInv'
    BY <1>1, <1>2, <1>3, <2>1, UseKeeps DEF ImageInv, EngineInv
  <2>3. ToolInv'
    BY <1>1, <1>3, StayKeeps DEF ImageInv
  <2> QED
    BY <2>2, <2>3 DEF ImageInv
<1>4. CASE job = "done" /\ at' = "segment" /\ ~busy' /\ job' = "none" /\ ~signalled'
  <2>1. at' \in UseSteps
    BY <1>4 DEF UseSteps, FileSteps
  <2>2. EngineInv'
    BY <1>1, <1>2, <1>4, <2>1, UseKeeps DEF ImageInv
  <2>3. ToolTypes' /\ Counted' /\ Written'
    BY <1>1, <1>4 DEF ImageInv, ToolInv, ToolTypes, Counted, Written, Total, Files, Whole
  <2>4. InEngine'
    BY <1>1, <1>4 DEF ImageInv, ToolInv, InEngine, Reading, Whole
  <2> QED
    BY <2>2, <2>3, <2>4 DEF ImageInv, ToolInv
<1>5. CASE at' = "exit" /\ job' = job /\ ~signalled'
  <2>1. EngineInv'
    BY <1>1, <1>5, ExitKeeps DEF ImageInv
  <2>2. ToolInv'
    BY <1>1, <1>5, StayKeeps DEF ImageInv
  <2> QED
    BY <2>1, <2>2 DEF ImageInv
<1> QED
  BY <1>1, <1>3, <1>4, <1>5 DEF Retrieve, HandleRead, Clear

-----------------------------------------------------------------------------
(* The files. *)

\* The layer at hand has room for the segment that is written.
LEMMA RoomForSegment ==
  ASSUME ToolTypes, Reading, idx > 0
  PROVE  /\ cur \in LayerFiles /\ idx - 1 \in 0 .. MaxSegments - 1
         /\ idx \in 1 .. MaxSegments /\ head <= Size[cur]
<1> DEFINE p == idx * segsize
<1>1. /\ cur \in LayerFiles /\ Size[cur] \in Nat /\ head \in Nat /\ idx \in Nat
      /\ MaxSegments \in Nat /\ MaxSegments >= 1 /\ Size[cur] <= MaxSegments
      /\ p \in Nat /\ head = Min({Size[cur], p}) /\ (idx <= head \/ idx <= 1)
  BY ImageAssumption DEF Reading, ToolTypes
<1> HIDE DEF Reading, ToolTypes, p
<1>2. head <= Size[cur]
  BY <1>1, Smaller
<1> QED
  BY <1>1, <1>2

LEMMA PieceType ==
  ASSUME NEW l \in LayerFiles, NEW z \in SegmentSizes, NEW i \in Nat
  PROVE  Piece(l, z, i) \in Slice /\ Piece(l, z, i) \notin {None, Torn}
<1> DEFINE p == i * z
           q == (i + 1) * z
<1>1. p \in Nat /\ q \in Nat /\ Size[l] \in Nat
  BY ImageAssumption
<1> HIDE DEF p, q
<1>2. Min({Size[l], q}) \in Nat
  BY <1>1, Smaller
<1>3. Piece(l, z, i) = <<p, Min({Size[l], q})>>
  BY DEF Piece, p, q
<1> QED
  BY <1>1, <1>2, <1>3, ImageAssumption DEF Slice

\* A segment's file is written.
LEMMA SegmentWritten ==
  ASSUME ToolTypes, cur \in LayerFiles, NEW k \in 0 .. MaxSegments - 1,
         NEW v \in Slice \cup {None, Torn},
         out' = [out EXCEPT ![cur].seg[k] = v]
  PROVE  /\ out' \in [LayerFiles -> [seg : [0 .. MaxSegments - 1 -> Slice \cup {None, Torn}],
                                 total : Nat \cup {None, Torn}]]
         /\ out'[cur].seg[k] = v
         /\ \A i \in 0 .. MaxSegments - 1 : i # k => out'[cur].seg[i] = out[cur].seg[i]
         /\ \A l \in LayerFiles : out'[l].total = out[l].total
         /\ \A l \in LayerFiles : l # cur => out'[l] = out[l]
<1> DEFINE F == [0 .. MaxSegments - 1 -> Slice \cup {None, Torn}]
           O == [seg : F, total : Nat \cup {None, Torn}]
           o == [out[cur] EXCEPT !.seg[k] = v]
<1>1. out \in [LayerFiles -> O]
  BY DEF ToolTypes
<1>2. out[cur] \in O /\ out[cur].seg \in F
  BY <1>1
<1>3. /\ o.seg = [out[cur].seg EXCEPT ![k] = v] /\ o.total = out[cur].total
  BY <1>2
<1>4. [out[cur].seg EXCEPT ![k] = v] \in F
  BY <1>2
<1>5. o \in O
  BY <1>2, <1>4
<1>6. out' = [out EXCEPT ![cur] = o]
  OBVIOUS
<1>7. /\ o.seg[k] = v
      /\ \A i \in 0 .. MaxSegments - 1 : i # k => o.seg[i] = out[cur].seg[i]
  BY <1>2, <1>3
<1> HIDE DEF o, O
<1>8. /\ out' \in [LayerFiles -> O] /\ out'[cur] = o
      /\ \A l \in LayerFiles : l # cur => out'[l] = out[l]
  BY <1>1, <1>5, <1>6
<1> QED
  BY <1>3, <1>7, <1>8 DEF O

\* total_segment.txt is written.
LEMMA CountWritten ==
  ASSUME ToolTypes, cur \in LayerFiles, NEW v \in Nat \cup {None, Torn},
         out' = [out EXCEPT ![cur].total = v]
  PROVE  /\ out' \in [LayerFiles -> [seg : [0 .. MaxSegments - 1 -> Slice \cup {None, Torn}],
                                 total : Nat \cup {None, Torn}]]
         /\ out'[cur].total = v
         /\ \A l \in LayerFiles : out'[l].seg = out[l].seg
         /\ \A l \in LayerFiles : l # cur => out'[l] = out[l]
<1> DEFINE F == [0 .. MaxSegments - 1 -> Slice \cup {None, Torn}]
           O == [seg : F, total : Nat \cup {None, Torn}]
           o == [out[cur] EXCEPT !.total = v]
<1> HIDE DEF F
<1>1. out \in [LayerFiles -> O]
  BY DEF ToolTypes, F
<1>2. out[cur] \in O
  BY <1>1
<1>3. o.total = v /\ o.seg = out[cur].seg
  BY <1>2
<1>4. o \in O
  BY <1>2
<1>5. out' = [out EXCEPT ![cur] = o]
  OBVIOUS
<1> HIDE DEF o, O
<1>6. /\ out' \in [LayerFiles -> O] /\ out'[cur] = o
      /\ \A l \in LayerFiles : l # cur => out'[l] = out[l]
  BY <1>1, <1>4, <1>5
<1> QED
  BY <1>3, <1>6 DEF O, F

\* The layers whose files stay as they are.
LEMMA CountedElsewhere ==
  ASSUME Counted, NEW l \in LayerFiles, out'[l] = out[l],
         \A i : <<l, i>> \in lost' <=> <<l, i>> \in lost, l \in begun' <=> l \in begun
  PROVE  Files(out'[l].seg, l) /\ Total(out'[l].seg, lost', begun', l, out'[l].total)
BY DEF Counted, Files, Total, Whole

\* A step on the files leaves the engine alone.
LEMMA FilesLeaveEngine ==
  ASSUME EngineInv, at \in FileSteps, at' \in {"arm", "enqueue"} \cup FileSteps,
         UNCHANGED <<d, busy, job, signalled>>,
         fault' = fault \/ fault' \notin {"workq", "event", "link"}
  PROVE  EngineInv' /\ job = "none" /\ job' = "none"
<1>1. job = "none" /\ ~busy /\ ~signalled
  BY DEF EngineInv
<1>2. at \in UseSteps /\ at' \in UseSteps
  BY DEF UseSteps
<1>3. EngineInv'
  BY <1>1, <1>2, UseKeeps
<1> QED
  BY <1>1, <1>3

\* A segment's file of a layer that was begun is opened or written.
LEMMA SegmentCounted ==
  ASSUME ToolTypes, Counted, cur \in LayerFiles, NEW k \in 0 .. MaxSegments - 1,
         NEW v \in {Piece(cur, segsize, k), Torn},
         out' = [out EXCEPT ![cur].seg[k] = v], cur \in begun',
         \A l : l # cur => (l \in begun' <=> l \in begun),
         \A l, i : l # cur => (<<l, i>> \in lost' <=> <<l, i>> \in lost)
  PROVE  /\ out' \in [LayerFiles -> [seg : [0 .. MaxSegments - 1 -> Slice \cup {None, Torn}],
                                 total : Nat \cup {None, Torn}]]
         /\ out'[cur].seg[k] = v
         /\ \A i \in 0 .. MaxSegments - 1 : i # k => out'[cur].seg[i] = out[cur].seg[i]
         /\ Counted'
<1>1. segsize \in SegmentSizes /\ k \in Nat
  BY ImageAssumption DEF ToolTypes
<1>2. v \in Slice \cup {None, Torn} /\ v # None
  BY <1>1, PieceType, ImageAssumption
<1>3. /\ out' \in [LayerFiles -> [seg : [0 .. MaxSegments - 1 -> Slice \cup {None, Torn}],
                              total : Nat \cup {None, Torn}]]
      /\ out'[cur].seg[k] = v
      /\ \A i \in 0 .. MaxSegments - 1 : i # k => out'[cur].seg[i] = out[cur].seg[i]
      /\ out'[cur].total = out[cur].total
      /\ \A l \in LayerFiles : l # cur => out'[l] = out[l]
  BY <1>2, SegmentWritten
<1>4. Files(out'[cur].seg, cur)
  <2>1. v \in {None, Torn} \cup {Piece(cur, z, k) : z \in SegmentSizes}
    BY <1>1
  <2> QED
    BY <1>3, <2>1 DEF Counted, Files
<1>5. Total(out'[cur].seg, lost', begun', cur, out'[cur].total)
  <2> SUFFICES ASSUME out[cur].total \notin {None, Torn}
               PROVE  \E z \in SegmentSizes :
                        /\ Counts(cur, z, out[cur].total)
                        /\ out[cur].total \in 1 .. MaxSegments
                        /\ \A i \in 0 .. out[cur].total - 1 : out'[cur].seg[i] # None
    BY <1>3 DEF Total
  <2>1. PICK z \in SegmentSizes :
          /\ Counts(cur, z, out[cur].total) /\ out[cur].total \in 1 .. MaxSegments
          /\ \A i \in 0 .. out[cur].total - 1 : out[cur].seg[i] # None
    BY DEF Counted, Total
  <2>2. \A i \in 0 .. out[cur].total - 1 : i \in 0 .. MaxSegments - 1
    BY <2>1, ImageAssumption
  <2>3. \A i \in 0 .. out[cur].total - 1 : out'[cur].seg[i] # None
    BY <1>2, <1>3, <2>1, <2>2
  <2> QED
    BY <2>1, <2>3
<1>6. Counted'
  <2>1. ASSUME NEW l \in LayerFiles
        PROVE  Files(out'[l].seg, l) /\ Total(out'[l].seg, lost', begun', l, out'[l].total)
    <3>1. CASE l = cur
      BY <1>4, <1>5, <3>1
    <3>2. CASE l # cur
      BY <1>3, <3>2, CountedElsewhere
    <3> QED
      BY <3>1, <3>2
  <2> QED
    BY <2>1 DEF Counted, Files, Total, Whole, Counts, Piece
<1> QED
  BY <1>3, <1>6

LEMMA OpenSegmentKeeps ==
  ASSUME ImageInv, OpenSegment PROVE ImageInv'
<1>1. /\ at = "segment" /\ at' \in {"write", "arm"}
      /\ UNCHANGED <<d, busy, job, signalled, segsize, todo, cur, head, idx, src, dst, lost>>
      /\ fault' = fault \/ fault' = "open_segment"
      /\ at' = "write" =>
           out' = [out EXCEPT ![cur].seg[idx - 1] = Torn] /\ begun' = begun \cup {cur}
      /\ at' = "arm" => out' = out /\ begun' = begun
  BY FailsFacts DEF OpenSegment
<1>2. EngineInv' /\ job = "none" /\ job' = "none"
  BY <1>1, FilesLeaveEngine DEF ImageInv, FileSteps
<1>3. CASE at' = "arm"
  BY <1>1, <1>2, <1>3, IdleKeeps DEF ImageInv
<1>4. CASE at' = "write"
  <2>1. /\ ToolTypes /\ Counted /\ Reading /\ idx > 0 /\ dst = src
        /\ src \in {Piece(cur, segsize, idx - 1), Torn}
        /\ Whole(out[cur].seg, lost, cur, segsize, idx - 1)
    BY <1>1 DEF ImageInv, ToolInv, InEngine
  <2>2. /\ cur \in LayerFiles /\ idx - 1 \in 0 .. MaxSegments - 1
    BY <2>1, RoomForSegment
  <2>3. /\ out' = [out EXCEPT ![cur].seg[idx - 1] = Torn] /\ cur \in begun'
        /\ \A l : l # cur => (l \in begun' <=> l \in begun)
        /\ \A l, i : l # cur => (<<l, i>> \in lost' <=> <<l, i>> \in lost)
    BY <1>1, <1>4
  <2>4. /\ out' \in [LayerFiles -> [seg : [0 .. MaxSegments - 1 -> Slice \cup {None, Torn}],
                                total : Nat \cup {None, Torn}]]
        /\ \A i \in 0 .. MaxSegments - 1 : i # idx - 1 => out'[cur].seg[i] = out[cur].seg[i]
        /\ Counted'
    BY <2>1, <2>2, <2>3, SegmentCounted
  <2>5. ToolTypes'
    BY <1>1, <2>1, <2>4 DEF ToolTypes
  <2>6. Whole(out[cur].seg, lost, cur, segsize, idx - 1)'
    <3>1. \A i \in 0 .. idx - 2 : i \in 0 .. MaxSegments - 1 /\ i # idx - 1
      BY <2>1, <2>2, ImageAssumption DEF ToolTypes
    <3>2. idx - 1 - 1 = idx - 2
      BY <2>1 DEF ToolTypes
    <3> QED
      BY <1>1, <2>1, <2>4, <3>1, <3>2 DEF Whole, Piece
  <2>7. Reading'
    BY <1>1, <2>1 DEF Reading
  <2>8. InEngine'
    <3>1. (src \in {Piece(cur, segsize, idx - 1), Torn})'
      BY <1>1, <2>1 DEF Piece
    <3> QED
      BY <1>1, <2>1, <2>3, <2>6, <2>7, <3>1 DEF InEngine
  <2>9. Written'
    BY <1>4 DEF Written
  <2> QED
    BY <1>2, <2>4, <2>5, <2>8, <2>9 DEF ImageInv, ToolInv
<1> QED
  BY <1>1, <1>3, <1>4

LEMMA WriteSegmentKeeps ==
  ASSUME ImageInv, WriteSegment PROVE ImageInv'
<1>1. PICK bytes \in {dst, Torn} :
        /\ out' = [out EXCEPT ![cur].seg[idx - 1] = bytes]
        /\ lost' = IF bytes = Torn THEN lost \cup {<<cur, idx - 1>>}
                   ELSE lost \ {<<cur, idx - 1>>}
  BY DEF WriteSegment, WriteFile
<1>2. /\ at = "write"
      /\ at' = IF head >= Size[cur] THEN "total" ELSE "enqueue"
      /\ UNCHANGED <<d, fault, busy, job, signalled, segsize, todo, cur, head, idx,
                     src, dst, begun>>
  BY DEF WriteSegment, WriteFile
<1>3. EngineInv' /\ job = "none" /\ job' = "none"
  BY <1>2, FilesLeaveEngine DEF ImageInv, FileSteps
<1>4. /\ ToolTypes /\ Counted /\ Reading /\ idx > 0 /\ dst = src /\ cur \in begun
      /\ src \in {Piece(cur, segsize, idx - 1), Torn}
      /\ Whole(out[cur].seg, lost, cur, segsize, idx - 1)
  BY <1>2 DEF ImageInv, ToolInv, InEngine
<1>5. /\ cur \in LayerFiles /\ idx - 1 \in 0 .. MaxSegments - 1 /\ idx \in Nat
      /\ head <= Size[cur] /\ head \in Nat /\ Size[cur] \in Nat
  BY <1>4, RoomForSegment, ImageAssumption DEF ToolTypes
<1>6. /\ bytes \in {Piece(cur, segsize, idx - 1), Torn} /\ cur \in begun'
      /\ \A l : l # cur => (l \in begun' <=> l \in begun)
  BY <1>1, <1>2, <1>4
<1>7. /\ bytes = Torn => <<cur, idx - 1>> \in lost'
      /\ \A l, i : <<l, i>> # <<cur, idx - 1>> => (<<l, i>> \in lost' <=> <<l, i>> \in lost)
  BY <1>1
<1>8. /\ out' \in [LayerFiles -> [seg : [0 .. MaxSegments - 1 -> Slice \cup {None, Torn}],
                              total : Nat \cup {None, Torn}]]
      /\ out'[cur].seg[idx - 1] = bytes
      /\ \A i \in 0 .. MaxSegments - 1 : i # idx - 1 => out'[cur].seg[i] = out[cur].seg[i]
      /\ Counted'
  BY <1>1, <1>4, <1>5, <1>6, <1>7, SegmentCounted
<1>9. ToolTypes'
  BY <1>2, <1>4, <1>8 DEF ToolTypes
<1>10. Whole(out[cur].seg, lost, cur, segsize, idx)'
  <2> SUFFICES ASSUME NEW i \in 0 .. idx - 1
               PROVE  \/ out'[cur].seg[i] = Piece(cur, segsize, i)
                      \/ out'[cur].seg[i] = Torn /\ <<cur, i>> \in lost'
    BY <1>2 DEF Whole, Piece
  <2>1. CASE i = idx - 1
    BY <1>6, <1>7, <1>8, <2>1
  <2>2. CASE i # idx - 1
    <3>1. i \in 0 .. idx - 1 - 1 /\ i \in 0 .. MaxSegments - 1
      BY <1>5, <2>2, ImageAssumption
    <3>2. <<cur, i>> \in lost' <=> <<cur, i>> \in lost
      BY <1>7, <2>2
    <3> QED
      BY <1>4, <1>8, <2>2, <3>1, <3>2 DEF Whole
  <2> QED
    BY <2>1, <2>2
<1>11. Reading'
  BY <1>2, <1>4 DEF Reading
<1>12. Written'
  <2>1. CASE head >= Size[cur]
    <3>1. head = Size[cur] /\ at' = "total"
      BY <1>2, <1>5, <2>1
    <3> QED
      BY <1>2, <1>4, <1>10, <1>11, <3>1 DEF Written
  <2>2. CASE ~(head >= Size[cur])
    <3>1. head < Size[cur] /\ at' = "enqueue"
      BY <1>2, <1>5, <2>2
    <3> QED
      BY <1>2, <1>10, <1>11, <3>1 DEF Written
  <2> QED
    BY <2>1, <2>2
<1>13. InEngine'
  BY <1>2, <1>3 DEF InEngine
<1> QED
  BY <1>3, <1>8, <1>9, <1>12, <1>13 DEF ImageInv, ToolInv

LEMMA OpenTotalKeeps ==
  ASSUME ImageInv, OpenTotal PROVE ImageInv'
<1>1. /\ at = "total" /\ at' \in {"count", "arm"}
      /\ UNCHANGED <<d, busy, job, signalled, segsize, todo, cur, head, idx, src, dst,
                     begun, lost>>
      /\ fault' = fault \/ fault' = "open_total"
      /\ at' = "count" => out' = [out EXCEPT ![cur].total = Torn]
      /\ at' = "arm" => out' = out
  BY FailsFacts DEF OpenTotal
<1>2. EngineInv' /\ job = "none" /\ job' = "none"
  BY <1>1, FilesLeaveEngine DEF ImageInv, FileSteps
<1>3. CASE at' = "arm"
  BY <1>1, <1>2, <1>3, IdleKeeps DEF ImageInv
<1>4. CASE at' = "count"
  <2>1. /\ ToolTypes /\ Counted /\ Reading /\ Whole(out[cur].seg, lost, cur, segsize, idx)
        /\ head = Size[cur] /\ idx > 0 /\ cur \in LayerFiles
    BY <1>1 DEF ImageInv, ToolInv, Written, Reading
  <2>2. /\ out' \in [LayerFiles -> [seg : [0 .. MaxSegments - 1 -> Slice \cup {None, Torn}],
                                total : Nat \cup {None, Torn}]]
        /\ out'[cur].total = Torn /\ out'[cur].seg = out[cur].seg
        /\ \A l \in LayerFiles : l # cur => out'[l] = out[l]
    BY <1>1, <1>4, <2>1, CountWritten
  <2>3. ToolTypes'
    BY <1>1, <2>1, <2>2 DEF ToolTypes
  <2>4. Counted'
    <3>1. ASSUME NEW l \in LayerFiles
          PROVE  Files(out'[l].seg, l) /\ Total(out'[l].seg, lost', begun', l, out'[l].total)
      <4>1. CASE l = cur
        BY <2>1, <2>2, <4>1 DEF Counted, Total
      <4>2. CASE l # cur
        BY <1>1, <2>1, <2>2, <4>2, CountedElsewhere
      <4> QED
        BY <4>1, <4>2
    <3> QED
      BY <3>1 DEF Counted, Files, Total, Whole, Counts, Piece
  <2>5. Written'
    BY <1>1, <1>4, <2>1, <2>2 DEF Written, Reading, Whole, Piece
  <2>6. InEngine'
    BY <1>2, <1>4 DEF InEngine
  <2> QED
    BY <1>2, <2>3, <2>4, <2>5, <2>6 DEF ImageInv, ToolInv
<1> QED
  BY <1>1, <1>3, <1>4

LEMMA WriteTotalKeeps ==
  ASSUME ImageInv, WriteTotal PROVE ImageInv'
<1>1. PICK n \in {idx, Torn} : out' = [out EXCEPT ![cur].total = n]
  BY DEF WriteTotal
<1>2. /\ at = "count" /\ at' = "next"
      /\ UNCHANGED <<d, fault, busy, job, signalled, segsize, todo, cur, head, idx, lost>>
      /\ begun' = begun \ {cur}
  BY DEF WriteTotal
<1>3. EngineInv' /\ job = "none" /\ job' = "none"
  BY <1>2, FilesLeaveEngine DEF ImageInv, FileSteps
<1>4. /\ ToolTypes /\ Counted /\ Reading /\ Whole(out[cur].seg, lost, cur, segsize, idx)
      /\ head = Size[cur] /\ idx > 0 /\ cur \in LayerFiles /\ segsize \in SegmentSizes
  BY <1>2 DEF ImageInv, ToolInv, Written, Reading, ToolTypes
<1>5. idx \in 1 .. MaxSegments /\ idx \in Nat
  BY <1>4, RoomForSegment DEF ToolTypes
<1>6. /\ out' \in [LayerFiles -> [seg : [0 .. MaxSegments - 1 -> Slice \cup {None, Torn}],
                              total : Nat \cup {None, Torn}]]
      /\ out'[cur].total = n /\ out'[cur].seg = out[cur].seg
      /\ \A l \in LayerFiles : l # cur => out'[l] = out[l]
  BY <1>1, <1>4, <1>5, CountWritten
<1>7. ToolTypes'
  BY <1>2, <1>4, <1>6 DEF ToolTypes
<1>8. Counts(cur, segsize, idx)
  <2> DEFINE p == idx * segsize
             q == (idx - 1) * segsize
  <2>1. /\ p \in Nat /\ q \in Nat /\ Size[cur] \in Nat
        /\ Size[cur] = Min({Size[cur], p}) /\ (idx = 1 \/ q < Size[cur])
    BY <1>4, <1>5, ImageAssumption DEF Reading
  <2> HIDE DEF p, q
  <2>2. Size[cur] <= p
    BY <2>1, Smaller
  <2> QED
    BY <2>1, <2>2 DEF Counts, p, q
<1>9. \A i \in 0 .. idx - 1 : out[cur].seg[i] # None
  <2>1. \A i \in 0 .. idx - 1 : i \in Nat
    BY <1>5
  <2> QED
    BY <1>4, <2>1, PieceType, ImageAssumption DEF Whole
<1>10. Counted'
  <2>1. ASSUME NEW l \in LayerFiles
        PROVE  Files(out'[l].seg, l) /\ Total(out'[l].seg, lost', begun', l, out'[l].total)
    <3>1. CASE l = cur
      <4>1. Files(out'[cur].seg, cur)
        BY <1>4, <1>6 DEF Counted
      <4>2. Total(out[cur].seg, lost, begun', cur, n)
        <5>1. CASE n = idx
          BY <1>4, <1>5, <1>8, <1>9, <5>1 DEF Total
        <5>2. CASE n = Torn
          BY <5>2 DEF Total
        <5> QED
          BY <5>1, <5>2
      <4> QED
        BY <1>2, <1>6, <3>1, <4>1, <4>2
    <3>2. CASE l # cur
      BY <1>2, <1>4, <1>6, <3>2, CountedElsewhere
    <3> QED
      BY <3>1, <3>2
  <2> QED
    BY <2>1 DEF Counted, Files, Total, Whole, Counts, Piece
<1>11. InEngine' /\ Written'
  BY <1>2, <1>3 DEF InEngine, Written
<1> QED
  BY <1>3, <1>7, <1>10, <1>11 DEF ImageInv, ToolInv

LEMMA ArmKeeps ==
  ASSUME ImageInv, ArmAgain PROVE ImageInv'
<1>1. /\ at = "arm" /\ at' = "loop"
      /\ signalled' => signalled \/ job \in {"done", "failed"}
      /\ fault' = fault \/ fault' = "arm"
      /\ UNCHANGED <<d, busy, job, segsize, todo, cur, head, idx, src, dst, begun, lost,
                     out>>
  <2>1. signalled' => signalled \/ job \in {"done", "failed"}
    BY Zenon DEF ArmAgain, Arm
  <2> QED
    BY <2>1, FailsFacts DEF ArmAgain, Arm, toolVars
<1>2. at \in UseSteps /\ at' \in UseSteps /\ at' \notin {"construct", "enqueue"} \cup FileSteps
  BY <1>1 DEF UseSteps, FileSteps
<1>3. signalled' => job' \in {"done", "failed"}
  BY <1>1 DEF ImageInv, EngineInv
<1>4. EngineInv'
  BY <1>1, <1>2, <1>3, UseKeeps DEF ImageInv
<1>5. ToolInv'
  BY <1>1, StayKeeps DEF ImageInv
<1> QED
  BY <1>4, <1>5 DEF ImageInv

LEMMA CrashKeeps ==
  ASSUME ImageInv, Crash PROVE ImageInv'
<1>1. /\ at # "exit" /\ at' = "exit" /\ (fault' = fault \/ fault' = "crash")
      /\ UNCHANGED <<d, busy, job, signalled, segsize, todo, cur, head, idx, src, dst,
                     begun, lost, out>>
  BY FailsFacts DEF Crash, toolVars
<1>2. EngineInv'
  BY <1>1, ExitKeeps DEF ImageInv
<1>3. ToolInv'
  BY <1>1, StayKeeps DEF ImageInv
<1> QED
  BY <1>2, <1>3 DEF ImageInv

LEMMA RerunKeeps ==
  ASSUME ImageInv, Rerun PROVE ImageInv'
<1>1. /\ at' = "open" /\ d' = NoObjects /\ fault' = "none" /\ ~busy' /\ job' = "none"
      /\ ~signalled' /\ todo' = LayerFiles /\ head' = 0 /\ idx' = 0
      /\ segsize' \in SegmentSizes /\ UNCHANGED <<begun, lost, out>>
  BY DEF Rerun
<1>2. EngineInv'
  BY <1>1 DEF EngineInv, SetUp, CreateSteps, FileSteps, UseSteps, NoObjects, Side
<1>3. ToolTypes'
  BY <1>1 DEF ImageInv, ToolInv, ToolTypes
<1>4. InEngine' /\ Written'
  BY <1>1 DEF InEngine, Written
<1>5. Counted'
  BY <1>1 DEF ImageInv, ToolInv, Counted, Total, Files, Whole
<1> QED
  BY <1>2, <1>3, <1>4, <1>5 DEF ImageInv, ToolInv

LEMMA ImageSteps == ImageInv /\ [ImageNext]_imageVars => ImageInv'
<1> SUFFICES ASSUME ImageInv, [ImageNext]_imageVars PROVE ImageInv'
  OBVIOUS
<1>1. CASE Create
  BY <1>1, CreateStep
<1>2. CASE Construct
  BY <1>2, FileKeeps DEF Construct
<1>3. CASE NextLayer
  BY <1>3, FileKeeps DEF NextLayer
<1>4. CASE ArmAgain
  BY <1>4, ArmKeeps
<1>5. CASE UNCHANGED imageVars
  <2>1. UNCHANGED <<at, d, fault, busy, job, signalled, segsize, todo, cur, head, idx,
                    src, dst, begun, lost, out>>
    BY <1>5 DEF imageVars, engineVars, toolVars
  <2>2. EngineInv'
    BY <2>1 DEF ImageInv, EngineInv, SetUp, CoreReady, EngineReady, NoObjects, Side,
                AnyObjects, Objects
  <2>3. ToolInv'
    BY <2>1 DEF ImageInv, ToolInv, ToolTypes, InEngine, Written, Counted, Reading, Whole,
                Files, Total
  <2> QED
    BY <2>2, <2>3 DEF ImageInv
<1> QED
  BY <1>1, <1>2, <1>3, <1>4, <1>5, EnqueueKeeps, StartKeeps, JobEndsKeeps, RetrieveKeeps,
     OpenSegmentKeeps, WriteSegmentKeeps, OpenTotalKeeps, WriteTotalKeeps, CrashKeeps,
     RerunKeeps DEF ImageNext, Step

-----------------------------------------------------------------------------
\* Where image_compress is and what it has written: how far
\* CompressEngine::create and DocaCore::create are and which objects exist, that
\* a job is only in an engine that is set up, that the files <i>.tar.gz of the
\* layer at hand are its segments up to head_, and what every total counts.
THEOREM ImageInvariance == ImageSpec => []ImageInv
<1>1. ImageInit => ImageInv
  BY ImageStarts
<1>2. ImageInv /\ [ImageNext]_imageVars => ImageInv'
  BY ImageSteps
<1> QED
  BY <1>1, <1>2, PTL DEF ImageSpec

\* onTaskSuccess writes total_segment.txt last: with a number in it, the segments
\* it counts are there and make up the layer, but for the ones whose bytes were
\* not read or written, and but for a layer that a run has begun to write over:
\* for every folder and every series of segment sizes, however often the tool was
\* killed, wherever, and run again.
THEOREM AlwaysTotalMeansComplete == ImageSpec => []TotalMeansComplete
<1>1. ImageInv => TotalMeansComplete
  <2> SUFFICES ASSUME ImageInv, NEW l \in LayerFiles, out[l].total \notin {None, Torn}
               PROVE  \E z \in SegmentSizes :
                        /\ Counts(l, z, out[l].total)
                        /\ \A i \in 0 .. out[l].total - 1 :
                             \/ out[l].seg[i] = Piece(l, z, i)
                             \/ out[l].seg[i] = Torn /\ (<<l, i>> \in lost \/ l \in begun)
                             \/ /\ l \in begun
                                /\ \E y \in SegmentSizes : out[l].seg[i] = Piece(l, y, i)
    BY DEF TotalMeansComplete
  <2> DEFINE f == out[l].seg
             n == out[l].total
  <2>1. Files(f, l) /\ Total(f, lost, begun, l, n)
    BY DEF ImageInv, ToolInv, Counted
  <2> HIDE DEF f
  <2>2. PICK z \in SegmentSizes :
          /\ Counts(l, z, n) /\ n \in 1 .. MaxSegments
          /\ \A i \in 0 .. n - 1 : f[i] # None
          /\ l \notin begun => Whole(f, lost, l, z, n)
    BY <2>1 DEF Total
  <2> HIDE DEF n
  <2>3. ASSUME NEW i \in 0 .. n - 1
        PROVE  \/ f[i] = Piece(l, z, i)
               \/ f[i] = Torn /\ (<<l, i>> \in lost \/ l \in begun)
               \/ l \in begun /\ \E y \in SegmentSizes : f[i] = Piece(l, y, i)
    <3>1. CASE l \in begun
      <4>1. i \in 0 .. MaxSegments - 1
        BY <2>2, ImageAssumption
      <4>2. f[i] \in {Torn} \cup {Piece(l, y, i) : y \in SegmentSizes}
        BY <2>1, <2>2, <4>1 DEF Files
      <4> QED
        BY <3>1, <4>2
    <3>2. CASE l \notin begun
      BY <2>2, <3>2 DEF Whole
    <3> QED
      BY <3>1, <3>2
  <2> QED
    BY <2>2, <2>3 DEF f, n
<1> QED
  BY <1>1, ImageInvariance, PTL

\* handleRead is only called when retrieve_job_once has a job to give it, and
\* start_job's assertion holds: the result of the last job was taken.
THEOREM NeverSpuriousRetrieve == ImageSpec => []NoSpuriousRetrieve
<1>1. ImageInv => NoSpuriousRetrieve
  BY DEF ImageInv, EngineInv, NoSpuriousRetrieve
<1> QED
  BY <1>1, ImageInvariance, PTL

\* No job reaches a CompressEngine that is only partly set up, and the labels of
\* DocaCore::create undo each object once and leave the device open only.
THEOREM AlwaysSetUpOrUndone == ImageSpec => []SetUpOrUndone
<1>1. ImageInv => SetUpOrUndone
  BY DEF ImageInv, EngineInv, UseSteps, SetUpOrUndone
<1> QED
  BY <1>1, ImageInvariance, PTL

=============================================================================
