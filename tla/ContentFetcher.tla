--------------------------- MODULE ContentFetcher ---------------------------
(***************************************************************************)
(* The DPU's fetcher: OffloadServer's loop thread calls fetch() for every  *)
(* layer of an image, the fetcher's loop thread asks the content server    *)
(* for segment 0 of the layer, learns from the response how many there     *)
(* are, and puts the requests for the others in FRONT of everything that   *)
(* still waits.  Segments go on to submitDecompressTask as they arrive;    *)
(* nothing behind that point sorts them, so their order is made here.      *)
(*                                                                         *)
(* The exchange itself is the FIFO channel RdmaRpc is shown to be: what is *)
(* kept of it is the number of free send buffers and the two queues.       *)
(***************************************************************************)
EXTENDS Naturals, Sequences, FiniteSets

CONSTANTS Images,      \* image name tags
          Layers,      \* layer digests
          ImageLayers, \* [Images -> Seq(Layers)], the layers of an image
          Segs,        \* [Layers -> Nat \ {0}], total_segment.txt
          Nc,          \* FLAGS_content_client_rdma_mem_num
          MaxMissing   \* bound: segment files missing from the registry

ASSUME FetcherAssumption ==
  /\ ImageLayers \in [Images -> Seq(Layers)]
  /\ Segs \in [Layers -> Nat \ {0}]
  /\ Nc \in Nat \ {0} /\ MaxMissing \in Nat

VARIABLES
  asked,      \* images whose OffloadRequest has arrived
  calls,      \* fetch() calls handleOffloadRequest still has to make
  functors,   \* the fetcher loop's pendingFunctors_: fetch() calls queued
  client,     \* clients_: no ContentClient yet, connecting, or conn_ set
  unsend,     \* unsend_reqs_
  free,       \* free send buffers of the connection
  requests,   \* requests on their way to the content server
  replies,    \* responses on their way back
  submitted,  \* the segments given to submitDecompressTask, in order
  missing     \* segment files the registry lacks (fixed)

vars == <<asked, calls, functors, client, unsend, free, requests, replies,
          submitted, missing>>

Req(i, l, k) == [image |-> i, layer |-> l, index |-> k]
SegFiles == UNION {{l} \X (0 .. Segs[l] - 1) : l \in Layers}
Requests == {Req(i, f[1], f[2]) : i \in Images, f \in SegFiles}

Init ==
  /\ asked = {} /\ calls = <<>> /\ functors = <<>>
  /\ client = "none" /\ unsend = <<>> /\ free = Nc
  /\ requests = <<>> /\ replies = <<>> /\ submitted = <<>>
  /\ missing \in {m \in SUBSET SegFiles : Cardinality(m) <= MaxMissing}

-----------------------------------------------------------------------------
(* OffloadServer's loop thread. *)

\* handleOffloadRequest begins: one fetch() per layer of the image.
Offload(i) ==
  /\ calls = <<>> /\ i \notin asked
  /\ asked' = asked \cup {i}
  /\ calls' = [n \in DOMAIN ImageLayers[i] |-> Req(i, ImageLayers[i][n], 0)]
  /\ UNCHANGED <<functors, client, unsend, free, requests, replies, submitted,
                 missing>>

\* One fetch(): runInLoop from another thread queues a functor.
CallFetch ==
  /\ calls # <<>>
  /\ calls' = Tail(calls)
  /\ functors' = Append(functors, Head(calls))
  /\ UNCHANGED <<asked, client, unsend, free, requests, replies, submitted,
                 missing>>

-----------------------------------------------------------------------------
(* The fetcher's loop thread. *)

\* Mutant: trySendRequests sends one request per call.
TrySendOne(queue, bufs) ==
  LET n == IF queue = <<>> \/ bufs = 0 THEN 0 ELSE 1
  IN  /\ unsend' = SubSeq(queue, n + 1, Len(queue))
      /\ free' = bufs - n
      /\ requests' = requests \o SubSeq(queue, 1, n)

\* trySendRequests: send until the queue or the free send buffers run out.
TrySend(queue, bufs) ==
  LET n == IF Len(queue) < bufs THEN Len(queue) ELSE bufs
  IN  /\ unsend' = SubSeq(queue, n + 1, Len(queue))
      /\ free' = bufs - n
      /\ requests' = requests \o SubSeq(queue, 1, n)

\* The first functor creates the client, enqueues its request, then connects.
FetchFirst ==
  /\ functors # <<>> /\ client = "none"
  /\ functors' = Tail(functors)
  /\ unsend' = Append(unsend, Head(functors))
  /\ client' = "connecting"
  /\ UNCHANGED <<asked, calls, free, requests, replies, submitted, missing>>

\* Mutant: trySendRequests does not look at conn_.
FetchMoreUnguarded ==
  /\ functors # <<>> /\ client # "none"
  /\ functors' = Tail(functors)
  /\ TrySend(Append(unsend, Head(functors)), free)
  /\ UNCHANGED <<asked, calls, client, replies, submitted, missing>>

\* Later ones enqueue and trySendRequests, which returns while conn_ is null.
FetchMore ==
  /\ functors # <<>> /\ client # "none"
  /\ functors' = Tail(functors)
  /\ IF client = "up"
       THEN TrySend(Append(unsend, Head(functors)), free)
       ELSE /\ unsend' = Append(unsend, Head(functors))
            /\ UNCHANGED <<free, requests>>
  /\ UNCHANGED <<asked, calls, client, replies, submitted, missing>>

\* onConnected, once the RDMA handshake is through.
OnConnected ==
  /\ client = "connecting"
  /\ client' = "up"
  /\ TrySend(unsend, free)
  /\ UNCHANGED <<asked, calls, functors, replies, submitted, missing>>

\* Mutant: pushed to the front from the first to the last.
FollowUpsReversed(r) ==
  [k \in 1 .. (IF r.index = 0 THEN Segs[r.layer] - 1 ELSE 0) |->
     Req(r.image, r.layer, Segs[r.layer] - k)]

\* The requests for segments 1 .. n - 1 that the response to segment 0 puts
\* in front of the others: pushed one by one, the last segment first.
FollowUps(r) ==
  [k \in 1 .. (IF r.index = 0 THEN Segs[r.layer] - 1 ELSE 0) |->
     Req(r.image, r.layer, k)]

\* onRecvSuccess: the send buffer comes back, the segment goes on, the
\* follow-ups are queued and as many requests as possible are sent.
OnRecvSuccess ==
  /\ replies # <<>>
  /\ replies' = Tail(replies)
  /\ submitted' = Append(submitted, Head(replies))
  /\ TrySend(FollowUps(Head(replies)) \o unsend, free + 1)
  /\ UNCHANGED <<asked, calls, functors, client, missing>>

-----------------------------------------------------------------------------
(* The content server's onRecvSuccess: a segment whose file is missing or   *)
(* empty gets no answer at all.                                             *)

Serve ==
  /\ requests # <<>>
  /\ requests' = Tail(requests)
  /\ replies' = IF <<Head(requests).layer, Head(requests).index>> \in missing
                  THEN replies
                  ELSE Append(replies, Head(requests))
  /\ UNCHANGED <<asked, calls, functors, client, unsend, free, submitted,
                 missing>>

-----------------------------------------------------------------------------
Next ==
  \/ \E i \in Images : Offload(i)
  \/ CallFetch \/ FetchFirst \/ FetchMore \/ OnConnected \/ OnRecvSuccess
  \/ Serve

\* The three loops run forever and the connector retries until the handshake
\* is through.  Nothing forces a pull.
Fairness ==
  /\ WF_vars(CallFetch) /\ WF_vars(FetchFirst) /\ WF_vars(FetchMore)
  /\ WF_vars(OnConnected) /\ WF_vars(OnRecvSuccess) /\ WF_vars(Serve)

Spec == Init /\ [][Next]_vars

FairSpec == Spec /\ Fairness

-----------------------------------------------------------------------------
(* Properties. *)

\* All variables stay in their domains; a send buffer is free or stands for
\* a request that is under way or was never answered.
TypeOK ==
  /\ asked \subseteq Images /\ missing \subseteq SegFiles
  /\ calls \in Seq(Requests) /\ functors \in Seq(Requests)
  /\ client \in {"none", "connecting", "up"}
  /\ unsend \in Seq(Requests) /\ free \in 0 .. Nc
  /\ requests \in Seq(Requests) /\ replies \in Seq(Requests)
  /\ submitted \in Seq(Requests)
  /\ Len(requests) + Len(replies) <= Nc - free

SameLayer(p, q) == p.image = q.image /\ p.layer = q.layer

\* The segments of a layer are handed on in order and once each, although the
\* requests of other layers and images are mixed with theirs and later ones
\* overtake earlier ones in unsend_reqs_; only segments the registry lacks
\* are left out.
SegmentsInOrder ==
  \A n \in DOMAIN submitted :
    {submitted[m].index : m \in {k \in 1 .. n - 1 :
                                   SameLayer(submitted[k], submitted[n])}}
      = {k \in 0 .. submitted[n].index - 1 :
           <<submitted[n].layer, k>> \notin missing}

\* The assertion of onConnected: fetches that arrive while the client is
\* connecting neither send nor drop the request that opened the connection.
OnConnectedAssertion ==
  client = "connecting" => unsend # <<>> /\ free > 0

Available(l, k) == {<<l, 0>>, <<l, k>>} \cap missing = {}

\* Send buffers whose request will never be answered.
Lost == Nc - free - Len(requests) - Len(replies)

\* Every segment of every layer of a pulled image is handed on in the end,
\* unless it or the layer's first one is missing, or every send buffer has
\* been used for a request that got no answer and the window is closed.
EventuallyFetched ==
  \A i \in Images : \A n \in DOMAIN ImageLayers[i] :
    LET l == ImageLayers[i][n] IN
      \A k \in 0 .. Segs[l] - 1 :
        (i \in asked /\ Available(l, k))
          ~> (Lost = Nc \/ \E m \in DOMAIN submitted :
                             submitted[m] = Req(i, l, k))
=============================================================================
