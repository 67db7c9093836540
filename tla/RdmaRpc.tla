------------------------------ MODULE RdmaRpc ------------------------------
(***************************************************************************)
(* The buffer discipline under every RDMA exchange of Poby, instantiated   *)
(* here for ContentClient (DPU) and ContentServer (host).                  *)
(*                                                                         *)
(* Each side registers mem_num buffer pairs.  A send is an ibv_post_send   *)
(* of one of the send buffers; the NIC reads that memory later, when it    *)
(* delivers the message into the receive buffer at the head of the peer's  *)
(* receive queue and raises a completion there.  handleRead reposts the    *)
(* receive buffer BEFORE it runs the callback that reads it, and the       *)
(* server returns its send buffer to the free list immediately AFTER the   *)
(* post.  Nothing in the code waits for a send completion: only the        *)
(* client's window (a send buffer comes back with the response) and the    *)
(* FIFO order of all queues keep the memory from being overwritten.        *)
(*                                                                         *)
(* A message is the number of the request it belongs to; a response        *)
(* carries the number of its request.                                      *)
(***************************************************************************)
EXTENDS Naturals, Sequences

CONSTANTS Nc,      \* mem_num of the client's connection
          Ns,      \* mem_num of the server's connection
          MaxReq,  \* bound: requests the layers above issue
          MaxLost  \* bound: requests the server leaves unanswered

ASSUME NcAssumption == Nc \in Nat \ {0}
ASSUME NsAssumption == Ns \in Nat \ {0}
\* The deployment gives both sides the same mem_num.
ASSUME WindowAssumption == Nc <= Ns
ASSUME BoundsAssumption == MaxReq \in Nat /\ MaxLost \in Nat

VARIABLES
  unsent,    \* client: unsend_reqs_
  cfree,     \* client: free_bufpairs_
  inflight,  \* client: inflight_sends_
  csend,     \* client: memory of the send buffers
  crecv,     \* client: memory of the receive buffers
  crq,       \* client: receive queue, the posted receive buffers
  ccq,       \* client: receive completions not yet handled
  cpc,       \* client: what its loop thread is doing
  chandled,  \* client: the buffer handed to recvSuccessCallback_
  c2s,       \* client: posted sends the NIC has not delivered
  sfree, ssend, srecv, srq, scq, spc, shandled, s2c,  \* the same, server
  nreq,      \* requests issued so far
  nlost,     \* requests left unanswered so far
  delivered  \* what the client handed to submitDecompressTask

cvars == <<unsent, cfree, inflight, csend, crq, cpc, chandled>>
svars == <<sfree, ssend, srq, spc, shandled>>
vars ==
  <<cvars, crecv, ccq, c2s, svars, srecv, scq, s2c, nreq, nlost, delivered>>

CBuf == 0 .. Nc - 1
SBuf == 0 .. Ns - 1
Msg  == 0 .. MaxReq        \* 0 is the initial content of a buffer

\* The order in which RdmaConnection's constructor fills free_bufpairs_.
InOrder(n) == [i \in 1 .. n |-> i - 1]

\* Variants of the code, one plausible slip each; the mutants of the
\* properties put them in place of the definitions they follow.
FillRqAllButOne(n) == [i \in 1 .. n - 1 |-> i - 1]

\* fillRq posts every receive buffer before the queue pair can send.
FillRq(n) == InOrder(n)

ReleaseSendBufToFront(free, b) == <<b>> \o free

ForgetSendBuf(free, b) == free

\* releaseSendBuf returns a buffer to the tail of free_bufpairs_, which
\* acquireFreeSendBuf takes from the head.
ReleaseSendBuf(free, b) == Append(free, b)

\* acquireFreeSendBuf, which callers ask only when a buffer is free.
AcquireFreeSendBuf(free) == Tail(free)

\* postSend and postRecv: to the end of the queue pair's send queue and of
\* its receive queue.
PostSend(sq, b) == Append(sq, b)
PostRecv(rq, b) == Append(rq, b)

Init ==
  /\ unsent = <<>> /\ inflight = <<>>
  /\ cfree = InOrder(Nc) /\ crq = FillRq(Nc)
  /\ csend = [b \in CBuf |-> 0] /\ crecv = [b \in CBuf |-> 0]
  /\ sfree = InOrder(Ns) /\ srq = FillRq(Ns)
  /\ ssend = [b \in SBuf |-> 0] /\ srecv = [b \in SBuf |-> 0]
  /\ ccq = <<>> /\ scq = <<>> /\ c2s = <<>> /\ s2c = <<>>
  /\ cpc = "idle" /\ spc = "idle" /\ chandled = 0 /\ shandled = 0
  /\ nreq = 0 /\ nlost = 0 /\ delivered = <<>>

-----------------------------------------------------------------------------
(* The client's loop thread. *)

\* fetch() runs in the loop: enqueueRequest, then trySendRequests.
Fetch ==
  /\ cpc = "idle" /\ nreq < MaxReq
  /\ nreq' = nreq + 1
  /\ unsent' = Append(unsent, nreq + 1)
  /\ cpc' = "send"
  /\ UNCHANGED <<cfree, inflight, csend, crecv, crq, ccq, chandled, c2s,
                 svars, srecv, scq, s2c, nlost, delivered>>

\* Mutant: the request is posted before it is written to the buffer.
PostBeforeSerialize ==
  /\ cpc = "send" /\ unsent # <<>> /\ cfree # <<>>
  /\ cfree' = AcquireFreeSendBuf(cfree)
  /\ unsent' = Tail(unsent)
  /\ \E seen \in {csend[Head(cfree)], Head(unsent)} :
       csend' = [csend EXCEPT ![Head(cfree)] = seen]
  /\ c2s' = PostSend(c2s, Head(cfree))
  /\ inflight' = Append(inflight, Head(cfree))
  /\ UNCHANGED <<crecv, crq, ccq, cpc, chandled, svars, srecv, scq, s2c,
                 nreq, nlost, delivered>>

\* One iteration of trySendRequests' loop: sendRequest.
SendRequest ==
  /\ cpc = "send" /\ unsent # <<>> /\ cfree # <<>>
  /\ cfree' = AcquireFreeSendBuf(cfree)
  /\ unsent' = Tail(unsent)
  /\ csend' = [csend EXCEPT ![Head(cfree)] = Head(unsent)]
  /\ c2s' = PostSend(c2s, Head(cfree))
  /\ inflight' = Append(inflight, Head(cfree))
  /\ UNCHANGED <<crecv, crq, ccq, cpc, chandled, svars, srecv, scq, s2c,
                 nreq, nlost, delivered>>

\* The loop's exit: nothing left to send, or the window is closed.
SendDone ==
  /\ cpc = "send" /\ (unsent = <<>> \/ cfree = <<>>)
  /\ cpc' = "idle"
  /\ UNCHANGED <<unsent, cfree, inflight, csend, crecv, crq, ccq, chandled,
                 c2s, svars, srecv, scq, s2c, nreq, nlost, delivered>>

\* handleRead takes a receive completion and reposts the buffer at once.
ClientPoll ==
  /\ cpc = "idle" /\ ccq # <<>>
  /\ ccq' = Tail(ccq)
  /\ crq' = PostRecv(crq, Head(ccq))
  /\ chandled' = Head(ccq)
  /\ cpc' = "recv"
  /\ UNCHANGED <<unsent, cfree, inflight, csend, crecv, c2s,
                 svars, srecv, scq, s2c, nreq, nlost, delivered>>

\* ContentClient::onRecvSuccess up to its trailing trySendRequests.
ClientRecv ==
  /\ cpc = "recv" /\ inflight # <<>>
  /\ cfree' = ReleaseSendBuf(cfree, Head(inflight))
  /\ inflight' = Tail(inflight)
  /\ delivered' = Append(delivered, crecv[chandled])
  /\ cpc' = "send"
  /\ UNCHANGED <<unsent, csend, crecv, crq, ccq, chandled, c2s,
                 svars, srecv, scq, s2c, nreq, nlost>>

-----------------------------------------------------------------------------
(* The server's loop thread. *)

ServerPoll ==
  /\ spc = "idle" /\ scq # <<>>
  /\ scq' = Tail(scq)
  /\ srq' = PostRecv(srq, Head(scq))
  /\ shandled' = Head(scq)
  /\ spc' = "recv"
  /\ UNCHANGED <<cvars, crecv, ccq, c2s, sfree, ssend, srecv, s2c,
                 nreq, nlost, delivered>>

\* Mutant: the response is posted and its buffer is not released.
ServerReplyKeepsBuf ==
  /\ spc = "recv" /\ sfree # <<>>
  /\ sfree' = AcquireFreeSendBuf(sfree)
  /\ ssend' = [ssend EXCEPT ![Head(sfree)] = srecv[shandled]]
  /\ s2c' = PostSend(s2c, Head(sfree))
  /\ spc' = "idle"
  /\ UNCHANGED <<cvars, crecv, ccq, c2s, srq, shandled, srecv, scq,
                 nreq, nlost, delivered>>

\* ContentServer::onRecvSuccess, the segment was read: post the response and
\* release its buffer, which goes to the tail of the free list.
ServerReply ==
  /\ spc = "recv" /\ sfree # <<>>
  /\ sfree' = ReleaseSendBuf(AcquireFreeSendBuf(sfree), Head(sfree))
  /\ ssend' = [ssend EXCEPT ![Head(sfree)] = srecv[shandled]]
  /\ s2c' = PostSend(s2c, Head(sfree))
  /\ spc' = "idle"
  /\ UNCHANGED <<cvars, crecv, ccq, c2s, srq, shandled, srecv, scq,
                 nreq, nlost, delivered>>

\* The segment file is empty or missing: no answer.
ServerDrop ==
  /\ spc = "recv" /\ nlost < MaxLost
  /\ nlost' = nlost + 1
  /\ spc' = "idle"
  /\ UNCHANGED <<cvars, crecv, ccq, c2s, sfree, ssend, srq, shandled, srecv,
                 scq, s2c, nreq, delivered>>

\* Reading the segment file fails after the send buffer was acquired and
\* written to: no answer, and the buffer is never released.
ServerLeak ==
  /\ spc = "recv" /\ sfree # <<>> /\ nlost < MaxLost
  /\ sfree' = AcquireFreeSendBuf(sfree)
  /\ ssend' = [ssend EXCEPT ![Head(sfree)] = srecv[shandled]]
  /\ nlost' = nlost + 1
  /\ spc' = "idle"
  /\ UNCHANGED <<cvars, crecv, ccq, c2s, srq, shandled, srecv, scq, s2c,
                 nreq, delivered>>

-----------------------------------------------------------------------------
(* The NIC (external): a reliable connection delivers posted sends in order *)
(* and each consumes the receive buffer at the head of the peer's queue.    *)

DeliverToServer ==
  /\ c2s # <<>> /\ srq # <<>>
  /\ srecv' = [srecv EXCEPT ![Head(srq)] = csend[Head(c2s)]]
  /\ scq' = Append(scq, Head(srq))
  /\ srq' = Tail(srq)
  /\ c2s' = Tail(c2s)
  /\ UNCHANGED <<cvars, crecv, ccq, sfree, ssend, spc, shandled, s2c,
                 nreq, nlost, delivered>>

DeliverToClient ==
  /\ s2c # <<>> /\ crq # <<>>
  /\ crecv' = [crecv EXCEPT ![Head(crq)] = ssend[Head(s2c)]]
  /\ ccq' = Append(ccq, Head(crq))
  /\ crq' = Tail(crq)
  /\ s2c' = Tail(s2c)
  /\ UNCHANGED <<unsent, cfree, inflight, csend, cpc, chandled, c2s, svars,
                 srecv, scq, nreq, nlost, delivered>>

-----------------------------------------------------------------------------
Next ==
  \/ Fetch \/ SendRequest \/ SendDone \/ ClientPoll \/ ClientRecv
  \/ ServerPoll \/ ServerReply \/ ServerDrop \/ ServerLeak
  \/ DeliverToServer \/ DeliverToClient

\* Both loop threads run forever and the NIC keeps delivering.  Nothing
\* forces a new fetch or a fault.
Fairness ==
  /\ WF_vars(SendRequest) /\ WF_vars(SendDone)
  /\ WF_vars(ClientPoll) /\ WF_vars(ClientRecv)
  /\ WF_vars(ServerPoll) /\ WF_vars(ServerReply)
  /\ WF_vars(DeliverToServer) /\ WF_vars(DeliverToClient)

Spec == Init /\ [][Next]_vars

FairSpec == Spec /\ Fairness

-----------------------------------------------------------------------------
(* Properties. *)

Injective(s) == \A i, j \in DOMAIN s : s[i] = s[j] => i = j

\* All variables stay in their domains.
TypeOK ==
  /\ unsent \in Seq(Msg) /\ delivered \in Seq(Msg)
  /\ cfree \in Seq(CBuf) /\ inflight \in Seq(CBuf) /\ c2s \in Seq(CBuf)
  /\ crq \in Seq(CBuf) /\ ccq \in Seq(CBuf) /\ chandled \in CBuf
  /\ csend \in [CBuf -> Msg] /\ crecv \in [CBuf -> Msg]
  /\ sfree \in Seq(SBuf) /\ s2c \in Seq(SBuf)
  /\ srq \in Seq(SBuf) /\ scq \in Seq(SBuf) /\ shandled \in SBuf
  /\ ssend \in [SBuf -> Msg] /\ srecv \in [SBuf -> Msg]
  /\ cpc \in {"idle", "recv", "send"} /\ spc \in {"idle", "recv"}
  /\ nreq \in 0 .. MaxReq /\ nlost \in 0 .. MaxLost

\* The memory of a posted send does not change until the NIC has delivered
\* it, although neither side waits for a send completion before it gives the
\* buffer back: the server releases it right after the post, the client on
\* the next response whichever it is.
SendBufsStable ==
  [][/\ \A i \in DOMAIN c2s : csend'[c2s[i]] = csend[c2s[i]]
     /\ \A i \in DOMAIN s2c : ssend'[s2c[i]] = ssend[s2c[i]]]_vars

\* A received message is not overwritten by a later one before its callback
\* has read it, although handleRead gave the buffer back to the receive queue
\* before it called the callback.
RecvBufsStable ==
  [][/\ \A i \in DOMAIN scq : srecv'[scq[i]] = srecv[scq[i]]
     /\ \A i \in DOMAIN ccq : crecv'[ccq[i]] = crecv[ccq[i]]
     /\ spc = "recv" => srecv'[shandled] = srecv[shandled]
     /\ cpc = "recv" => crecv'[chandled] = crecv[chandled]]_vars

\* A message never reaches a side with an empty receive queue, which after
\* rnr_retry attempts would fail the work request and end the process.
ReceiversReady ==
  /\ c2s # <<>> => srq # <<>>
  /\ s2c # <<>> => crq # <<>>

\* ContentServer dereferences what acquireFreeSendBuf returned and
\* ContentClient takes inflight_sends_.front(), both unchecked: neither is
\* ever empty then, even after send buffers were leaked on the error path.
CallbacksSafe ==
  /\ spc = "recv" => sfree # <<>>
  /\ cpc = "recv" => inflight # <<>>

\* The bytes behind the buffers of a queue.
InMemory(mem, q) == [i \in DOMAIN q |-> mem[q[i]]]

\* The requests between the client's post and the end of the server's
\* callback, oldest first, as their bytes are in memory now.
RequestsInMemory ==
  (IF spc = "recv" THEN <<srecv[shandled]>> ELSE <<>>)
    \o InMemory(srecv, scq) \o InMemory(csend, c2s)

\* The responses between the server's post and the end of the client's read.
RepliesInMemory ==
  (IF cpc = "recv" THEN <<crecv[chandled]>> ELSE <<>>)
    \o InMemory(crecv, ccq) \o InMemory(ssend, s2c)

Channel == INSTANCE RpcChannel WITH
             Window    <- Nc,
             sent      <- nreq - Len(unsent),
             requests  <- RequestsInMemory,
             replies   <- RepliesInMemory

\* Read through the buffers' memory, the exchange is an exactly-once FIFO
\* request/response channel with at most Nc requests outstanding.
ImplementsRpcChannel == Channel!Spec

\* Every request that is not lost gets its response, unless as many were
\* lost as the client has send buffers: each lost one shrinks the window for
\* good, and only the last one closes it.
AllAnswered ==
  (nreq = MaxReq) ~> (Len(delivered) + nlost = MaxReq \/ nlost >= Nc)

-----------------------------------------------------------------------------
(* The inductive invariant behind the four safety properties. *)

\* Every send buffer of the client is free or in flight, exactly once.
ClientBufsPartition ==
  /\ Len(cfree) + Len(inflight) = Nc
  /\ Injective(cfree) /\ Injective(inflight)
  /\ \A i \in DOMAIN cfree, j \in DOMAIN inflight : cfree[i] # inflight[j]

\* Every receive buffer is posted or completed, exactly once, and the buffer
\* a callback is reading is the one posted last.
RecvQueues ==
  /\ Len(crq) + Len(ccq) = Nc /\ Len(srq) + Len(scq) = Ns
  /\ Injective(crq) /\ Injective(ccq) /\ Injective(srq) /\ Injective(scq)
  /\ \A i \in DOMAIN crq, j \in DOMAIN ccq : crq[i] # ccq[j]
  /\ \A i \in DOMAIN srq, j \in DOMAIN scq : srq[i] # scq[j]
  /\ cpc = "recv" => crq # <<>> /\ chandled = crq[Len(crq)]
  /\ spc = "recv" => srq # <<>> /\ shandled = srq[Len(srq)]

\* s is the tail end of t.
Newest(s, t) ==
  /\ Len(s) <= Len(t)
  /\ \A i \in DOMAIN s : s[i] = t[Len(t) - Len(s) + i]

\* Undelivered sends are the newest of the buffers in flight (client) and of
\* the released buffers (server).
UndeliveredAreNewest ==
  Newest(c2s, inflight) /\ Newest(s2c, sfree) /\ Injective(sfree)

One(b) == IF b THEN 1 ELSE 0

\* Each buffer in flight stands for at most one message on its way to the
\* server, in the server, on its way back or in the client, or for one send
\* buffer the server leaked.
WindowBoundsTraffic ==
  /\ Len(sfree) <= Ns
  /\ Len(c2s) + Len(scq) + One(spc = "recv") + Len(s2c) + Len(ccq)
       + One(cpc = "recv") + (Ns - Len(sfree)) <= Len(inflight)

IInv ==
  TypeOK /\ ClientBufsPartition /\ RecvQueues /\ UndeliveredAreNewest
         /\ WindowBoundsTraffic
=============================================================================
