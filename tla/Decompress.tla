----------------------------- MODULE Decompress -----------------------------
(***************************************************************************)
(* From submitDecompressTask on the DPU to UntarEngine::untar on the host: *)
(* DecompressClientEpoll, the CompressEngine it drives, the blob pool it   *)
(* shares with the fetcher and DecompressServerEpoll.                      *)
(*                                                                         *)
(* A compressed segment is copied from its blob into a source buffer, the  *)
(* DOCA engine inflates it straight into the host's destination buffer,    *)
(* and a DecompressFinishRequest tells the host to copy it out.  The buffer*)
(* pair is free again only when the host's response is back.  Segments that*)
(* were stored uncompressed travel inside the request.                     *)
(*                                                                         *)
(* Segments are numbered in the order they are submitted; the number is    *)
(* both the name a segment carries (image, layer, index) and its bytes, so *)
(* that a buffer overwritten too early shows as a name with the wrong      *)
(* bytes.  The RDMA exchange is the FIFO channel RdmaRpc is shown to be.   *)
(***************************************************************************)
EXTENDS Naturals, Sequences, SequencesExt, FiniteSets

CONSTANTS MaxSeg,   \* bound: segments the fetcher submits
          MemNums,  \* values of FLAGS_decompress_client_rdma_mem_num
          Nb,       \* FLAGS_decompress_client_doca_mem_num
          NBlobs,   \* FLAGS_blob_num
          KInc,     \* BlobPool::kInc
          MaxFault, \* bound: DOCA calls that fail
          ArmSeesPending  \* does doca_workq_event_handle_arm raise the event
                          \* of a job that finished before it (external)

ASSUME DecompressAssumption ==
  /\ MaxSeg \in Nat /\ MaxFault \in Nat /\ NBlobs \in Nat
  /\ MemNums \subseteq Nat \ {0} /\ Nb \in Nat \ {0} /\ KInc \in Nat \ {0}
  /\ ArmSeesPending \in BOOLEAN

VARIABLES
  compressed,  \* FLAGS_content_server_layer_is_compressed (fixed)
  nbuf,        \* send buffers: FLAGS_decompress_client_rdma_mem_num (fixed)
  nsub,        \* segments submitted so far
  pool,        \* BlobPool::blobs_, a stack
  blobmem,     \* the bytes of every blob allocated so far
  functors,    \* submitDecompressTask functors queued for the loop
  conn,        \* conn_ null, MmapInfoRequest sent, connected_; or the DPU's
               \* process crashed
  pendC,       \* pending_compress_jobs_
  pendR,       \* pending_rdma_jobs_
  cfree,       \* free send buffers
  reqs, resps, \* the messages under way
  busy,        \* decompress_busy_
  job,         \* compress_job_
  freebp,      \* CompressEngine::free_bufpairs_, a stack
  src, dst,    \* the bytes of the source and destination buffers
  engine,      \* the accelerator: "idle", "running" or "done"
  armed,       \* will the accelerator raise an event when a job is done
  event,       \* the event is up: epoll reports the engine's channel
  pc,          \* "loop", or "arm" between handleRead's callback and its arm
  out,         \* what the host gave to UntarEngine::untar
  nfault       \* DOCA faults so far

memvars == <<pool, blobmem>>
hwvars  == <<engine, armed, event, pc>>
jobvars == <<busy, job, freebp, src, pendC, engine, nfault>>
vars == <<compressed, nbuf, nsub, pool, blobmem, functors, conn, pendC, pendR, cfree,
          reqs, resps, busy, job, freebp, src, dst, engine, armed, event, pc,
          out, nfault>>

BP == 0 .. Nb - 1
NoName == 0     \* the moved-from strings a failed start leaves in the queue

Init ==
  /\ compressed \in BOOLEAN /\ nbuf \in MemNums /\ nsub = 0
  /\ pool = [n \in 1 .. NBlobs |-> n]
  /\ blobmem = [n \in 1 .. NBlobs |-> 0]
  /\ functors = <<>> /\ conn = "none" /\ pendC = <<>> /\ pendR = <<>>
  /\ cfree = nbuf /\ reqs = <<>> /\ resps = <<>>
  /\ busy = FALSE /\ job = [name |-> NoName, bp |-> 0]
  /\ freebp = [n \in 1 .. Nb |-> n - 1]
  /\ src = [b \in BP |-> 0] /\ dst = [b \in BP |-> 0]
  /\ engine = "idle" /\ armed = TRUE /\ event = FALSE /\ pc = "loop"
  /\ out = <<>> /\ nfault = 0

-----------------------------------------------------------------------------
(* The fetcher's thread: take a blob, fill it, queue the task. *)

\* releaseBlob, releaseFreeBufpair, acquireFreeBufpair: both are stacks.
ReleaseBlob(p, b) == Append(p, b)
ReleaseFreeBufpair(f, id) == Append(f, id)
AcquireFreeBufpair(f) == Front(f)

\* acquireBlob's pool after it has grown, if it was empty.
GrownPool ==
  IF pool = <<>> THEN [n \in 1 .. KInc |-> Len(blobmem) + n] ELSE pool
GrownMem ==
  IF pool = <<>> THEN blobmem \o [n \in 1 .. KInc |-> 0] ELSE blobmem

\* Mutant: acquireBlob leaves the blob in the pool.
SubmitSharesBlob ==
  /\ nsub < MaxSeg /\ conn # "crash"
  /\ nsub' = nsub + 1
  /\ LET blob == Last(GrownPool)
     IN  /\ pool' = GrownPool
         /\ blobmem' = [GrownMem EXCEPT ![blob] = nsub + 1]
         /\ functors' = Append(functors, [name |-> nsub + 1, blob |-> blob])
  /\ UNCHANGED <<compressed, nbuf, conn, pendC, pendR, cfree, reqs, resps, busy, job,
                 freebp, src, dst, hwvars, out, nfault>>

\* acquireBlob, parse the response into the blob, submitDecompressTask.
Submit ==
  /\ nsub < MaxSeg /\ conn # "crash"
  /\ nsub' = nsub + 1
  /\ LET blob == Last(GrownPool)
     IN  /\ pool' = Front(GrownPool)
         /\ blobmem' = [GrownMem EXCEPT ![blob] = nsub + 1]
         /\ functors' = Append(functors, [name |-> nsub + 1, blob |-> blob])
  /\ UNCHANGED <<compressed, nbuf, conn, pendC, pendR, cfree, reqs, resps, busy, job,
                 freebp, src, dst, hwvars, out, nfault>>

-----------------------------------------------------------------------------
(* The decompress loop's thread. *)

\* startDecompressJob on the first of q with the top of f: copy the segment,
\* give its blob back, start the engine.
StartJob(q, f) ==
  /\ src' = [src EXCEPT ![Last(f)] = blobmem[Head(q).blob]]
  /\ pool' = ReleaseBlob(pool, Head(q).blob)
  /\ job' = [name |-> Head(q).name, bp |-> Last(f)]
  /\ freebp' = AcquireFreeBufpair(f)
  /\ pendC' = Tail(q)
  /\ busy' = TRUE
  /\ \/ engine' = "running" /\ UNCHANGED nfault
     \* start_job ignores what submit_job returns.
     \/ nfault < MaxFault /\ nfault' = nfault + 1 /\ engine' = "idle"

\* set_data_by_offset fails: the buffer pair is gone, the task stays first in
\* the queue, its strings already moved into compress_job_.
FailJob(q, f) ==
  /\ nfault < MaxFault /\ nfault' = nfault + 1
  /\ src' = [src EXCEPT ![Last(f)] = blobmem[Head(q).blob]]
  /\ job' = [name |-> Head(q).name, bp |-> Last(f)]
  /\ freebp' = AcquireFreeBufpair(f)
  /\ pendC' = [q EXCEPT ![1].name = NoName]
  /\ busy' = FALSE /\ engine' = "idle"
  /\ UNCHANGED pool

\* tryStartDecompressJob, given the task queue and the free buffer pairs at
\* the time of the call.  Every caller has seen decompress_busy_ false.
TryStart(q, f) ==
  \/ /\ q = <<>> \/ f = <<>>
     /\ pendC' = q /\ freebp' = f /\ busy' = FALSE /\ engine' = "idle"
     /\ UNCHANGED <<src, job, pool, nfault>>
  \/ q # <<>> /\ f # <<>> /\ (StartJob(q, f) \/ FailJob(q, f))

FinishReq(info, bytes) ==
  [type |-> "finish", name |-> info.name, bp |-> info.bp, bytes |-> bytes]

\* onDecompressTaskSuccess's own part: announce a finished job with a free
\* send buffer, or queue the announcement.
Announce(info) ==
  IF cfree > 0
    THEN /\ cfree' = cfree - 1
         /\ reqs' = Append(reqs, FinishReq(info, 0))
         /\ UNCHANGED pendR
    ELSE /\ pendR' = Append(pendR, info)
         /\ UNCHANGED <<cfree, reqs>>

\* Mutant: the send buffer is released while announcements wait.
ReleaseOnly(bytes) == cfree' = cfree + 1 /\ UNCHANGED <<reqs, pendR>>

\* The send buffer of an answered announcement goes to the oldest one that
\* waits, or is released.
ReuseOrRelease(bytes) ==
  IF pendR # <<>>
    THEN /\ reqs' = Append(reqs, FinishReq(Head(pendR), bytes))
         /\ pendR' = Tail(pendR)
         /\ UNCHANGED cfree
    ELSE cfree' = cfree + 1 /\ UNCHANGED <<reqs, pendR>>

\* submitDecompressTask's functor for a compressed segment.
RunSubmit ==
  /\ pc = "loop" /\ compressed /\ functors # <<>>
  /\ functors' = Tail(functors)
  /\ IF conn = "up" /\ ~busy
       THEN TryStart(Append(pendC, Head(functors)), freebp)
       ELSE /\ pendC' = Append(pendC, Head(functors))
            /\ UNCHANGED <<busy, job, freebp, src, engine, nfault, pool>>
  /\ UNCHANGED <<compressed, nbuf, nsub, blobmem, conn, pendR, cfree, reqs, resps,
                 dst, armed, event, pc, out>>

\* The same for an uncompressed one: send it inside the request or queue it.
\* conn_ is used without a check: it is null until onConnected.
RunSubmitInline ==
  /\ pc = "loop" /\ ~compressed /\ functors # <<>> /\ conn # "crash"
  /\ functors' = Tail(functors)
  /\ conn' = IF conn = "none" THEN "crash" ELSE conn
  /\ LET info == [name |-> Head(functors).name, bp |-> 0,
                  blob |-> Head(functors).blob]
     IN  \/ conn = "none" /\ UNCHANGED <<pendR, cfree, reqs, pool>>
         \/ /\ conn # "none" /\ cfree = 0
            /\ pendR' = Append(pendR, info)
            /\ UNCHANGED <<cfree, reqs, pool>>
         \/ /\ conn # "none" /\ cfree > 0
            /\ cfree' = cfree - 1
            /\ reqs' = Append(reqs, FinishReq(info, blobmem[info.blob]))
            /\ pool' = ReleaseBlob(pool, info.blob)
            /\ UNCHANGED pendR
  /\ UNCHANGED <<compressed, nbuf, nsub, blobmem, resps, dst, armed, event, pc,
                 out, jobvars>>

\* onConnected: ask the host for its destination buffers.
OnConnected ==
  /\ pc = "loop" /\ conn = "none"
  /\ conn' = "mmap"
  /\ cfree' = cfree - 1
  /\ reqs' = Append(reqs, [type |-> "mmap"])
  /\ UNCHANGED <<compressed, nbuf, nsub, memvars, functors, pendR, resps, dst, armed,
                 event, pc, out, jobvars>>

\* onRecvSuccess, handleMmapInfoResponse: the host's buffers are mapped, or
\* that fails and the client stays unconnected.
OnMmapResponse ==
  /\ pc = "loop" /\ resps # <<>> /\ Head(resps).type = "mmap"
  /\ resps' = Tail(resps)
  /\ cfree' = cfree + 1
  /\ \/ conn' = "up" /\ TryStart(pendC, freebp)
     \/ /\ nfault < MaxFault /\ nfault' = nfault + 1
        /\ UNCHANGED <<conn, pool, busy, job, freebp, src, pendC, engine>>
  /\ UNCHANGED <<compressed, nbuf, nsub, blobmem, functors, pendR, reqs, dst, armed,
                 event, pc, out>>

\* Mutant: the buffer pair is free as soon as its job is announced.
OnDecompressTaskSuccessFrees ==
  /\ pc = "loop" /\ event /\ engine = "done"
  /\ event' = FALSE /\ pc' = "arm"
  /\ Announce(job)
  /\ TryStart(pendC, ReleaseFreeBufpair(freebp, job.bp))
  /\ UNCHANGED <<compressed, nbuf, nsub, blobmem, functors, conn, resps, dst, armed,
                 out>>

\* CompressEngine::handleRead up to its last line: one job is retrieved and
\* onDecompressTaskSuccess announces it to the host, or queues the
\* announcement, and starts the next one.
OnDecompressTaskSuccess ==
  /\ pc = "loop" /\ event /\ engine = "done"
  /\ event' = FALSE /\ pc' = "arm"
  /\ Announce(job)
  /\ TryStart(pendC, freebp)
  /\ UNCHANGED <<compressed, nbuf, nsub, blobmem, functors, conn, resps, dst, armed,
                 out>>

\* handleRead's last line.
Arm ==
  /\ pc = "arm" /\ pc' = "loop"
  /\ IF engine = "done" /\ ArmSeesPending
       THEN event' = TRUE /\ armed' = FALSE
       ELSE armed' = TRUE /\ UNCHANGED event
  /\ UNCHANGED <<compressed, nbuf, nsub, memvars, functors, conn, pendR, cfree, reqs,
                 resps, dst, out, jobvars>>

\* onRecvSuccess, handleDecompressFinishResponse for a compressed segment:
\* the send buffer that came back goes to the oldest queued announcement, the
\* buffer pair is free, the engine is started if it stands still.
OnFinishResponse ==
  /\ pc = "loop" /\ compressed /\ resps # <<>> /\ Head(resps).type = "finish"
  /\ resps' = Tail(resps)
  /\ ReuseOrRelease(0)
  /\ LET f == ReleaseFreeBufpair(freebp, Head(resps).bp)
     IN  IF ~busy
           THEN TryStart(pendC, f)
           ELSE /\ freebp' = f
                /\ UNCHANGED <<busy, job, src, pendC, engine, nfault, pool>>
  /\ UNCHANGED <<compressed, nbuf, nsub, blobmem, functors, conn, dst, armed, event,
                 pc, out>>

\* The same for an uncompressed one: no buffer pair, the queued announcement
\* carries its segment.
OnFinishResponseInline ==
  /\ pc = "loop" /\ ~compressed /\ resps # <<>> /\ Head(resps).type = "finish"
  /\ resps' = Tail(resps)
  /\ ReuseOrRelease(blobmem[Head(pendR).blob])
  /\ pool' = IF pendR = <<>> THEN pool ELSE ReleaseBlob(pool, Head(pendR).blob)
  /\ UNCHANGED <<compressed, nbuf, nsub, blobmem, functors, conn, dst, armed, event,
                 pc, out, jobvars>>

-----------------------------------------------------------------------------
(* The accelerator (external) inflates into the host's memory. *)

EngineDone ==
  /\ engine = "running" /\ engine' = "done"
  /\ dst' = [dst EXCEPT ![job.bp] = src[job.bp]]
  /\ event' = (event \/ armed) /\ armed' = FALSE
  /\ UNCHANGED <<compressed, nbuf, nsub, memvars, functors, conn, pendC, pendR, cfree,
                 reqs, resps, busy, job, freebp, src, pc, out, nfault>>

-----------------------------------------------------------------------------
(* The host's loop thread, DecompressServerEpoll. *)

HandleMmapInfoRequest ==
  /\ reqs # <<>> /\ Head(reqs).type = "mmap"
  /\ reqs' = Tail(reqs)
  /\ resps' = Append(resps, [type |-> "mmap"])
  /\ UNCHANGED <<compressed, nbuf, nsub, memvars, functors, conn, pendR, cfree, dst,
                 armed, event, pc, out, jobvars>>

\* handleDecompressFinishRequest copies the segment out, then responds, then
\* untars its copy.
HandleDecompressFinishRequest ==
  /\ reqs # <<>> /\ Head(reqs).type = "finish"
  /\ reqs' = Tail(reqs)
  /\ resps' = Append(resps, [type |-> "finish", bp |-> Head(reqs).bp])
  /\ out' = Append(out, [name |-> Head(reqs).name,
                         bytes |-> IF compressed THEN dst[Head(reqs).bp]
                                                 ELSE Head(reqs).bytes])
  /\ UNCHANGED <<compressed, nbuf, nsub, memvars, functors, conn, pendR, cfree, dst,
                 armed, event, pc, jobvars>>

-----------------------------------------------------------------------------
Next ==
  \/ Submit \/ RunSubmit \/ RunSubmitInline \/ OnConnected \/ OnMmapResponse
  \/ OnDecompressTaskSuccess \/ Arm \/ OnFinishResponse
  \/ OnFinishResponseInline \/ EngineDone \/ HandleMmapInfoRequest
  \/ HandleDecompressFinishRequest

\* The loops of both machines run forever, the connection is established in
\* the end and a job that was submitted finishes.  Submissions and DOCA
\* faults are not forced.
Fairness ==
  /\ WF_vars(RunSubmit) /\ WF_vars(RunSubmitInline) /\ WF_vars(OnConnected)
  /\ WF_vars(OnMmapResponse) /\ WF_vars(OnDecompressTaskSuccess)
  /\ WF_vars(Arm) /\ WF_vars(OnFinishResponse)
  /\ WF_vars(OnFinishResponseInline) /\ WF_vars(EngineDone)
  /\ WF_vars(HandleMmapInfoRequest) /\ WF_vars(HandleDecompressFinishRequest)

Spec == Init /\ [][Next]_vars

FairSpec == Spec /\ Fairness

-----------------------------------------------------------------------------
(* Properties. *)

Seg == 0 .. MaxSeg
Blobs == DOMAIN blobmem

\* All variables stay in their domains.
TypeOK ==
  /\ compressed \in BOOLEAN /\ nbuf \in MemNums /\ nsub \in Seg
  /\ pool \in Seq(Blobs) /\ blobmem \in Seq(Seg)
  /\ functors \in Seq([name : Seg, blob : Blobs])
  /\ pendC \in Seq([name : Seg, blob : Blobs])
  /\ conn \in {"none", "mmap", "up", "crash"} /\ cfree \in 0 .. nbuf
  /\ \A n \in DOMAIN pendR : pendR[n].name \in Seg /\ pendR[n].bp \in BP
  /\ \A n \in DOMAIN reqs : reqs[n].type \in {"mmap", "finish"}
  /\ \A n \in DOMAIN resps : resps[n].type \in {"mmap", "finish"}
  /\ busy \in BOOLEAN /\ job \in [name : Seg, bp : BP]
  /\ freebp \in Seq(BP) /\ src \in [BP -> Seg] /\ dst \in [BP -> Seg]
  /\ engine \in {"idle", "running", "done"} /\ armed \in BOOLEAN
  /\ event \in BOOLEAN /\ pc \in {"loop", "arm"}
  /\ out \in Seq([name : Seg, bytes : Seg]) /\ nfault \in 0 .. MaxFault

\* The bytes the host untars under a segment's name are the bytes that were
\* submitted under it, and no segment is untarred twice: the blob, the source
\* buffer, the destination buffer and the send buffer are each left alone
\* until the next stage has its copy.  A set_data failure loses the name.
OutIntact ==
  /\ \A n \in DOMAIN out :
       out[n].name = out[n].bytes \/ (out[n].name = NoName /\ nfault > 0)
  /\ \A m, n \in DOMAIN out : out[m].bytes = out[n].bytes => m = n

\* Compressed segments reach the host in the order they were submitted, none
\* left out: tar reads them as one stream.  A job that found no send buffer
\* free waits in pending_rdma_jobs_ and is not overtaken by a later one.
OutInOrder ==
  compressed => \A n \in DOMAIN out : out[n].bytes = n

\* The host's copy is made from a buffer the engine no longer writes to: the
\* destination of an announced job is stable until the host has read it.
DstStable ==
  [][compressed =>
       /\ \A n \in DOMAIN pendR : dst'[pendR[n].bp] = dst[pendR[n].bp]
       /\ \A n \in DOMAIN reqs : reqs[n].type = "finish" =>
            dst'[reqs[n].bp] = dst[reqs[n].bp]]_vars

\* The MmapInfoRequest had the only send buffer while every segment was queued:
\* handleMmapInfoResponse gets it back and does not look at pending_rdma_jobs_.
Stranded == ~compressed /\ nbuf = 1 /\ Len(pendR) = MaxSeg

\* Every submitted segment is untarred in the end, unless DOCA failed, an
\* uncompressed one met a null conn_, or there is one send buffer and all the
\* segments came, uncompressed, before the host's buffers were known.
AllUntarred ==
  (nsub = MaxSeg) ~>
    (Len(out) = MaxSeg \/ nfault > 0 \/ conn = "crash" \/ Stranded)
=============================================================================
