-------------------------- MODULE Decompress_proofs --------------------------
(***************************************************************************)
(* From submitDecompressTask to UntarEngine::untar, for any number of      *)
(* segments, send buffers, buffer pairs, blobs and DOCA faults: the host   *)
(* untars the bytes that were submitted under a segment's name, none of    *)
(* them twice, compressed ones in the order of their submission, out of    *)
(* buffers nobody writes to any more.                                      *)
(*                                                                         *)
(* The argument gives every segment under way its number.  Compressed ones *)
(* form one line: out, the requests, pending_rdma_jobs_, compress_job_,    *)
(* pending_compress_jobs_ and the functors hold the segments 1 .. nsub one *)
(* after the other (Upstream, Downstream).  Because two numbers in the line*)
(* differ, two places of it never share a blob or a buffer; that what is   *)
(* free is not in use either is BlobsApart and PairsApart.  Uncompressed   *)
(* ones may overtake each other, so for them only the names in the four    *)
(* places are shown to be different ones (Inline).                         *)
(***************************************************************************)
EXTENDS Decompress, SequenceTheorems, TLAPS

\* The elements of the sequences.  A blob is named by its number.
Task == [name : Seg, blob : Nat]
Info == [name : Seg, bp : BP] \cup [name : Seg, bp : BP, blob : Nat]
Request ==
  [type : {"mmap"}]
    \cup [type : {"finish"}, name : Seg, bp : BP, bytes : Seg]
Response == [type : {"mmap"}] \cup [type : {"finish"}, bp : BP]
Result == [name : Seg, bytes : Seg]

\* Types, and the send buffers: each is free or under way, and nothing is
\* sent before the connection is there.
Types ==
  /\ compressed \in BOOLEAN /\ nbuf \in MemNums /\ nsub \in Seg
  /\ conn \in {"none", "mmap", "up", "crash"}
  /\ pool \in Seq(Nat) /\ blobmem \in Seq(Seg)
  /\ functors \in Seq(Task) /\ pendC \in Seq(Task) /\ pendR \in Seq(Info)
  /\ reqs \in Seq(Request) /\ resps \in Seq(Response) /\ out \in Seq(Result)
  /\ cfree \in Nat /\ cfree + Len(reqs) + Len(resps) = nbuf
  /\ conn = "none" => reqs = <<>> /\ resps = <<>>
  /\ busy \in BOOLEAN /\ job \in [name : Seg, bp : BP]
  /\ freebp \in Seq(BP) /\ src \in [BP -> Seg] /\ dst \in [BP -> Seg]
  /\ engine \in {"idle", "running", "done"} /\ armed \in BOOLEAN
  /\ event \in BOOLEAN /\ pc \in {"loop", "arm"} /\ nfault \in 0 .. MaxFault

\* No blob is in the stack s and in a task of q; all are blobs of mem.
BlobsApart(s, q, mem) ==
  /\ \A n \in DOMAIN q : q[n].blob \in DOMAIN mem
  /\ \A m \in DOMAIN s, n \in DOMAIN q : s[m] # q[n].blob

\* The blob pool, and the functors that wait for the loop.
Blob ==
  /\ IsInjective(pool) /\ \A n \in DOMAIN pool : pool[n] \in DOMAIN blobmem
  /\ BlobsApart(pool, functors, blobmem)
  /\ Len(functors) <= nsub
  /\ \A n \in DOMAIN functors :
       /\ functors[n].name = nsub - Len(functors) + n
       /\ blobmem[functors[n].blob] = nsub - Len(functors) + n

\* What a name may be when the bytes are those of segment k: start fails with
\* the strings of the task moved away.
Named(name, k, nf) == name = k \/ (name = NoName /\ nf > 0)

\* Job and tasks hold the segments after the first k, up to the l-th.
Upstream(k, l, b, j, sr, q, mem, nf) ==
  LET held == IF b THEN 1 ELSE 0 IN
  /\ l = k + held + Len(q)
  /\ b => sr[j.bp] = k + 1 /\ Named(j.name, k + 1, nf)
  /\ \A n \in DOMAIN q : /\ mem[q[n].blob] = k + held + n
                         /\ Named(q[n].name, k + held + n, nf)

\* Results, requests and announcements hold the first segments.
Downstream(o, rs, pr, ds, nf) ==
  /\ \A n \in DOMAIN o : o[n].bytes = n /\ Named(o[n].name, n, nf)
  /\ \A n \in DOMAIN rs : /\ rs[n].type = "finish"
                          /\ ds[rs[n].bp] = Len(o) + n
                          /\ Named(rs[n].name, Len(o) + n, nf)
  /\ \A n \in DOMAIN pr :
       /\ ds[pr[n].bp] = Len(o) + Len(rs) + n
       /\ Named(pr[n].name, Len(o) + Len(rs) + n, nf)

\* The buffer pair bp is not in the records of s.
NotIn(bp, s) == \A n \in DOMAIN s : s[n].bp # bp

\* Free buffer pairs, those of responses and the job's are not in use
\* elsewhere.
PairsApart(f, b, bp, rs, pr, rp) ==
  /\ IsInjective(f)
  /\ \A m, n \in DOMAIN rp : rp[m].bp = rp[n].bp => m = n
  /\ \A n \in DOMAIN f : NotIn(f[n], rs) /\ NotIn(f[n], pr) /\ NotIn(f[n], rp)
  /\ \A n \in DOMAIN rp :
       rp[n].type = "finish" /\ NotIn(rp[n].bp, rs) /\ NotIn(rp[n].bp, pr)
  /\ b => /\ NotIn(bp, rs) /\ NotIn(bp, pr) /\ NotIn(bp, rp)
          /\ \A n \in DOMAIN f : f[n] # bp

\* Before the client is connected there is at most the MmapInfoRequest.
Quiet ==
  /\ Len(reqs) + Len(resps) <= 1 /\ out = <<>> /\ pendR = <<>> /\ ~busy
  /\ \A n \in DOMAIN reqs : reqs[n].type = "mmap"
  /\ \A n \in DOMAIN resps : resps[n].type = "mmap"
  /\ IsInjective(freebp)

Announced == Len(out) + Len(reqs) + Len(pendR)

\* Segments that were stored compressed.
Line ==
  /\ BlobsApart(pool, pendC, blobmem)
  /\ engine # "idle" => busy
  /\ busy /\ engine = "done" => dst[job.bp] = src[job.bp]
  /\ Upstream(IF conn = "up" THEN Announced ELSE 0, nsub - Len(functors),
              busy, job, src, pendC, blobmem, nfault)
  /\ conn = "up" =>
       /\ Downstream(out, reqs, pendR, dst, nfault)
       /\ PairsApart(freebp, busy, job.bp, reqs, pendR, resps)
       /\ cfree > 0 => pendR = <<>>
  /\ conn # "up" => Quiet

\* The names in s are those of segments up to the l-th, each is there once.
NamesOnce(s, l) ==
  /\ \A n \in DOMAIN s : s[n].name \in 1 .. l
  /\ \A m, n \in DOMAIN s : s[m].name = s[n].name => m = n

NamesApart(s, t) == \A m \in DOMAIN s, n \in DOMAIN t : s[m].name # t[n].name

\* The requests of rs that announce a segment: they carry its bytes, and it
\* is announced once, and neither in o nor in pr.
Finish(rs) == {n \in DOMAIN rs : rs[n].type = "finish"}

RequestsOnce(rs, o, pr, l) ==
  /\ \A n \in Finish(rs) : rs[n].name = rs[n].bytes /\ rs[n].name \in 1 .. l
  /\ \A m, n \in Finish(rs) : rs[m].name = rs[n].name => m = n
  /\ \A m \in Finish(rs) :
       /\ \A n \in DOMAIN o : rs[m].name # o[n].name
       /\ \A n \in DOMAIN pr : rs[m].name # pr[n].name

\* Segments that were stored uncompressed.
Inline ==
  /\ pendC = <<>> /\ engine = "idle"
  /\ \A n \in DOMAIN pendR : pendR[n] \in [name : Seg, bp : BP, blob : Nat]
  /\ BlobsApart(pool, pendR, blobmem)
  /\ \A n \in DOMAIN pendR : blobmem[pendR[n].blob] = pendR[n].name
  /\ \A n \in DOMAIN out : out[n].name = out[n].bytes
  /\ NamesOnce(out, nsub - Len(functors))
  /\ NamesOnce(pendR, nsub - Len(functors))
  /\ NamesApart(out, pendR)
  /\ RequestsOnce(reqs, out, pendR, nsub - Len(functors))

\* The inductive invariant.
DInv ==
  /\ Types /\ Blob
  /\ compressed => Line
  /\ ~compressed => Inline
-----------------------------------------------------------------------------
(* Sequences as queues and stacks. *)

\* t is s with e at its end; s without its first element.
Added(s, e, t) ==
  /\ Len(t) = Len(s) + 1 /\ t[Len(s) + 1] = e
  /\ \A n \in 1 .. Len(s) : t[n] = s[n]

Dropped(s, t) ==
  /\ Len(s) = Len(t) + 1
  /\ \A n \in 1 .. Len(t) : t[n] = s[n + 1]

\* Append, element by element.
LEMMA AppendAdds ==
  ASSUME NEW S, NEW s \in Seq(S), NEW e \in S
  PROVE  Append(s, e) \in Seq(S) /\ Added(s, e, Append(s, e))
  BY DEF Added

\* Head and Tail, element by element.
LEMMA TailDrops ==
  ASSUME NEW S, NEW s \in Seq(S), s # <<>>
  PROVE  /\ Tail(s) \in Seq(S) /\ Dropped(s, Tail(s))
         /\ Head(s) = s[1] /\ Head(s) \in S
  BY DEF Dropped

\* The stack's top and what is under it.
LEMMA FrontAdds ==
  ASSUME NEW S, NEW s \in Seq(S), s # <<>>
  PROVE  /\ Front(s) \in Seq(S) /\ Last(s) \in S /\ Len(s) \in Nat \ {0}
         /\ Last(s) = s[Len(s)] /\ Len(Front(s)) = Len(s) - 1
         /\ \A n \in 1 .. Len(s) - 1 : Front(s)[n] = s[n]
<1>1. Len(s) \in Nat \ {0} /\ DOMAIN s = 1 .. Len(s)
  OBVIOUS
<1>2. ASSUME NEW k \in Nat, k <= Len(s)
      PROVE  /\ SubSeq(s, 1, k) \in Seq(S) /\ Len(SubSeq(s, 1, k)) = k
             /\ \A n \in 1 .. k : SubSeq(s, 1, k)[n] = s[n]
  <2>1. 1 \in Int /\ k \in Int /\ \A i \in 1 .. k : s[i] \in S
    BY <1>1, <1>2
  <2>2. /\ SubSeq(s, 1, k) \in Seq(S)
        /\ Len(SubSeq(s, 1, k)) = IF 1 <= k THEN k - 1 + 1 ELSE 0
        /\ \A i \in 1 .. k - 1 + 1 : SubSeq(s, 1, k)[i] = s[1 + i - 1]
    BY <2>1, SubSeqProperties
  <2> QED
    BY <2>2
<1>3. Front(s) = SubSeq(s, 1, Len(s) - 1) /\ Len(s) - 1 \in Nat
  BY <1>1 DEF Front
<1>4. Last(s) = s[Len(s)] /\ s[Len(s)] \in S
  BY <1>1 DEF Last
<1> QED
  BY <1>1, <1>2, <1>3, <1>4

\* Lengths and domains.
LEMMA Domains ==
  ASSUME NEW S
  PROVE  \A s \in Seq(S) :
           /\ DOMAIN s = 1 .. Len(s) /\ Len(s) \in Nat
           /\ (s = <<>> <=> Len(s) = 0)
           /\ \A n \in 1 .. Len(s) : s[n] \in S
  OBVIOUS

\* A sequence is one over any set that holds its elements.
LEMMA Retyped ==
  ASSUME NEW S, NEW T, NEW s \in Seq(S), \A n \in 1 .. Len(s) : s[n] \in T
  PROVE  s \in Seq(T)
  OBVIOUS
-----------------------------------------------------------------------------
(* tryStartDecompressJob. *)

\* Its three outcomes, element by element.
NotStarted(q, f) ==
  /\ pendC' = q /\ freebp' = f /\ ~busy' /\ engine' = "idle"
  /\ src' = src /\ job' = job /\ pool' = pool /\ nfault' = nfault

Started(q, f) ==
  /\ q # <<>> /\ Dropped(q, pendC') /\ Added(freebp', job'.bp, f)
  /\ job'.name = q[1].name /\ job'.bp \in BP
  /\ src' = [src EXCEPT ![job'.bp] = blobmem[q[1].blob]]
  /\ Added(pool, q[1].blob, pool')
  /\ busy' /\ engine' \in {"idle", "running"} /\ nfault <= nfault'

FailedToStart(q, f) ==
  /\ q # <<>> /\ Len(pendC') = Len(q) /\ Added(freebp', job'.bp, f)
  /\ \A n \in 1 .. Len(q) :
       /\ pendC'[n].blob = q[n].blob
       /\ pendC'[n].name \in {q[n].name, NoName}
  /\ ~busy' /\ engine' = "idle" /\ pool' = pool /\ nfault' = nfault + 1

Tried(q, f) ==
  /\ pendC' \in Seq(Task) /\ freebp' \in Seq(BP) /\ busy' \in BOOLEAN
  /\ job' \in [name : Seg, bp : BP] /\ src' \in [BP -> Seg]
  /\ pool' \in Seq(Nat) /\ nfault' \in 0 .. MaxFault
  /\ nfault <= nfault' /\ engine' \in {"idle", "running", "done"}
  /\ NotStarted(q, f) \/ Started(q, f) \/ FailedToStart(q, f)

\* It ends in one of them.
LEMMA TryStartOutcome ==
  ASSUME Types, NEW q \in Seq(Task), NEW f \in Seq(BP), TryStart(q, f),
         \A n \in DOMAIN q : q[n].blob \in DOMAIN blobmem
  PROVE  Tried(q, f)
<1> USE DEF Tried
<1>1. nfault \in Nat /\ MaxFault \in Nat /\ nfault <= MaxFault
  BY DecompressAssumption DEF Types
<1>2. CASE /\ q = <<>> \/ f = <<>>
           /\ pendC' = q /\ freebp' = f /\ busy' = FALSE /\ engine' = "idle"
           /\ UNCHANGED <<src, job, pool, nfault>>
  <2>1. /\ job \in [name : Seg, bp : BP] /\ src \in [BP -> Seg]
        /\ pool \in Seq(Nat)
    BY DEF Types
  <2>2. NotStarted(q, f)
    BY <1>2 DEF NotStarted
  <2>3. nfault' = nfault /\ pendC' = q /\ freebp' = f /\ busy' = FALSE
    BY <1>2
  <2>4. nfault' \in 0 .. MaxFault /\ nfault <= nfault'
    BY <1>1, <2>3
  <2> QED
    BY <1>2, <2>1, <2>2, <2>3, <2>4
<1>3. CASE q # <<>> /\ f # <<>> /\ (StartJob(q, f) \/ FailJob(q, f))
  <2>1. /\ Tail(q) \in Seq(Task) /\ Dropped(q, Tail(q))
        /\ Head(q) = q[1] /\ q[1] \in Task /\ DOMAIN q = 1 .. Len(q)
        /\ Len(q) \in Nat \ {0}
    BY <1>3, TailDrops, Domains
  <2>2. /\ Front(f) \in Seq(BP) /\ Last(f) \in BP /\ Added(Front(f), Last(f), f)
    <3>1. /\ Front(f) \in Seq(BP) /\ Last(f) \in BP /\ Len(f) \in Nat \ {0}
          /\ Last(f) = f[Len(f)] /\ Len(Front(f)) = Len(f) - 1
          /\ \A n \in 1 .. Len(f) - 1 : Front(f)[n] = f[n]
      BY <1>3, FrontAdds
    <3> HIDE DEF Front, Last
    <3> QED
      BY <3>1 DEF Added
  <2> DEFINE bp == Last(f)
             fr == Front(f)
             tl == Tail(q)
             bytes == blobmem[q[1].blob]
  <2>3. /\ q[1].blob \in Nat /\ q[1].name \in Seg
        /\ q[1].blob \in DOMAIN blobmem /\ bytes \in Seg
    <3>1. \A n \in DOMAIN blobmem : blobmem[n] \in Seg
      BY DEF Types
    <3> QED
      BY <2>1, <3>1 DEF Task
  <2>4. /\ Append(pool, q[1].blob) \in Seq(Nat)
        /\ Added(pool, q[1].blob, Append(pool, q[1].blob))
    BY <2>3, AppendAdds DEF Types
  <2> DEFINE pl == Append(pool, q[1].blob)
  <2>5. CASE StartJob(q, f)
    <3>1. /\ src' = [src EXCEPT ![bp] = bytes] /\ pool' = pl
          /\ job' = [name |-> q[1].name, bp |-> bp] /\ freebp' = fr
          /\ pendC' = tl /\ busy' = TRUE /\ engine' \in {"idle", "running"}
          /\ nfault' = nfault \/ (nfault < MaxFault /\ nfault' = nfault + 1)
      BY <2>1, <2>5 DEF StartJob, ReleaseBlob, AcquireFreeBufpair
    <3>2. src \in [BP -> Seg]
      BY DEF Types
    <3> HIDE DEF bp, fr, tl, pl, bytes
    <3>3. src' \in [BP -> Seg] /\ nfault' \in 0 .. MaxFault /\ nfault <= nfault'
      <4>1. nfault' \in 0 .. MaxFault /\ nfault <= nfault'
        BY <1>1, <3>1
      <4>2. src' \in [BP -> Seg]
        BY <2>3, <3>1, <3>2
      <4> QED
        BY <4>1, <4>2
    <3>4. /\ job' \in [name : Seg, bp : BP] /\ job'.bp = bp
          /\ job'.name = q[1].name
      BY <2>2, <2>3, <3>1 DEF bp
    <3>5. Started(q, f)
      BY <1>3, <2>1, <2>2, <2>4, <3>1, <3>3, <3>4
         DEF Started, bp, fr, tl, pl, bytes
    <3> QED
      BY <2>1, <2>2, <2>4, <3>1, <3>3, <3>4, <3>5 DEF bp, fr, tl, pl
  <2>6. CASE FailJob(q, f)
    <3> DEFINE qq == [q EXCEPT ![1].name = NoName]
    <3>1. /\ src' = [src EXCEPT ![bp] = bytes] /\ pool' = pool
          /\ job' = [name |-> q[1].name, bp |-> bp] /\ freebp' = fr
          /\ pendC' = qq /\ busy' = FALSE /\ engine' = "idle"
          /\ nfault < MaxFault /\ nfault' = nfault + 1
      BY <2>1, <2>6 DEF FailJob, AcquireFreeBufpair
    <3>2. src \in [BP -> Seg] /\ pool \in Seq(Nat)
      BY DEF Types
    <3>3. NoName \in Seg
      BY DecompressAssumption DEF NoName, Seg
    <3>4. /\ qq \in Seq(Task) /\ Len(qq) = Len(q)
          /\ \A n \in 1 .. Len(q) :
               /\ qq[n].blob = q[n].blob
               /\ qq[n].name \in {q[n].name, NoName}
      <4> DEFINE e == [q[1] EXCEPT !.name = NoName]
      <4>1. e \in Task /\ e.blob = q[1].blob /\ e.name = NoName
        BY <2>1, <3>3 DEF Task
      <4>2. qq = [q EXCEPT ![1] = e]
        BY <2>1
      <4> HIDE DEF e, qq
      <4> QED
        BY <2>1, <4>1, <4>2
    <3> HIDE DEF bp, fr, qq, bytes
    <3>5. src' \in [BP -> Seg] /\ nfault' \in 0 .. MaxFault /\ nfault <= nfault'
      <4>1. nfault' \in 0 .. MaxFault /\ nfault <= nfault'
        BY <1>1, <3>1
      <4>2. src' \in [BP -> Seg]
        BY <2>3, <3>1, <3>2
      <4> QED
        BY <4>1, <4>2
    <3>6. job' \in [name : Seg, bp : BP] /\ job'.bp = bp
      BY <2>2, <2>3, <3>1 DEF bp
    <3>7. FailedToStart(q, f)
      BY <1>3, <2>2, <3>1, <3>4, <3>6 DEF FailedToStart, bp, fr
    <3> QED
      BY <2>2, <3>1, <3>2, <3>4, <3>5, <3>6, <3>7 DEF fr
  <2> QED
    BY <1>3, <2>5, <2>6
<1> QED
  BY <1>2, <1>3 DEF TryStart

\* More faults allow more names.
LEMMA NamedStays ==
  ASSUME NEW x \in Nat, NEW y \in Nat, x <= y
  PROVE  \A name, k : Named(name, k, x) => Named(name, k, y)
  BY DEF Named

\* The line goes on where it did: the first task has become the job, or not.
LEMMA TryStartUpstream ==
  ASSUME Types, NEW q \in Seq(Task), NEW f \in Seq(BP), Tried(q, f),
         NEW k \in Nat, NEW l \in Nat,
         Upstream(k, l, FALSE, job, src, q, blobmem, nfault)
  PROVE  Upstream(k, l, busy', job', src', pendC', blobmem, nfault')
<1>1. /\ l = k + Len(q) /\ Len(q) \in Nat /\ DOMAIN q = 1 .. Len(q)
      /\ \A n \in 1 .. Len(q) : /\ blobmem[q[n].blob] = k + n
                                /\ Named(q[n].name, k + n, nfault)
  BY Domains DEF Upstream
<1>2. \A name, i : Named(name, i, nfault) => Named(name, i, nfault')
  <2>1. nfault \in Nat /\ nfault' \in Nat /\ nfault <= nfault'
    BY DecompressAssumption DEF Types, Tried
  <2> QED
    BY <2>1, NamedStays
<1>3. /\ DOMAIN pendC' = 1 .. Len(pendC') /\ Len(pendC') \in Nat
      /\ \A i \in Nat : k + 0 + i = k + i /\ k + 1 + i = k + (i + 1)
  <2>1. DOMAIN pendC' = 1 .. Len(pendC') /\ Len(pendC') \in Nat
    BY Domains DEF Tried
  <2>2. \A i \in Nat : k + 0 + i = k + i /\ k + 1 + i = k + (i + 1)
    OBVIOUS
  <2> QED
    BY <2>1, <2>2
<1>4. CASE NotStarted(q, f)
  <2>1. pendC' = q /\ ~busy' /\ nfault' = nfault
    BY <1>4 DEF NotStarted
  <2> QED
    BY <1>1, <2>1 DEF Upstream
<1>5. CASE Started(q, f)
  <2>1. /\ Len(q) = Len(pendC') + 1 /\ busy' /\ job'.name = q[1].name
        /\ \A n \in 1 .. Len(pendC') : pendC'[n] = q[n + 1]
        /\ src'[job'.bp] = blobmem[q[1].blob] /\ q # <<>>
    BY <1>5 DEF Started, Dropped, Types
  <2>2. src'[job'.bp] = k + 1 /\ Named(job'.name, k + 1, nfault')
    <3>1. 1 \in 1 .. Len(q)
      BY <1>3, <2>1
    <3>2. blobmem[q[1].blob] = k + 1 /\ Named(q[1].name, k + 1, nfault)
      BY ONLY <1>1, <3>1
    <3> QED
      BY ONLY <1>2, <2>1, <3>2
  <2>3. ASSUME NEW n \in 1 .. Len(pendC')
        PROVE  /\ blobmem[pendC'[n].blob] = k + 1 + n
               /\ Named(pendC'[n].name, k + 1 + n, nfault')
    <3>1. n + 1 \in 1 .. Len(q) /\ k + 1 + n = k + (n + 1)
      BY <1>1, <1>3, <2>1
    <3> QED
      BY <1>1, <1>2, <2>1, <3>1
  <2>4. l = k + 1 + Len(pendC')
    BY <1>1, <1>3, <2>1
  <2> QED
    BY <1>3, <2>1, <2>2, <2>3, <2>4 DEF Upstream
<1>6. CASE FailedToStart(q, f)
  <2>1. /\ Len(pendC') = Len(q) /\ ~busy' /\ nfault' > 0
        /\ \A n \in 1 .. Len(q) : /\ pendC'[n].blob = q[n].blob
                                  /\ pendC'[n].name \in {q[n].name, NoName}
    BY <1>6, DecompressAssumption DEF FailedToStart, Types
  <2>2. ASSUME NEW n \in 1 .. Len(pendC')
        PROVE  /\ blobmem[pendC'[n].blob] = k + n
               /\ Named(pendC'[n].name, k + n, nfault')
    <3>1. Named(NoName, k + n, nfault')
      BY <2>1 DEF Named
    <3> QED
      BY <1>1, <1>2, <2>1, <3>1
  <2> QED
    BY <1>1, <1>3, <2>1, <2>2 DEF Upstream
<1> QED
  BY <1>4, <1>5, <1>6 DEF Tried

\* The blob of a started task goes back to the pool; nobody else has it.
LEMMA TryStartBlobs ==
  ASSUME Types, NEW q \in Seq(Task), NEW f \in Seq(BP), Tried(q, f),
         NEW k \in Nat, NEW l \in Nat, NEW fs \in Seq(Task),
         Upstream(k, l, FALSE, job, src, q, blobmem, nfault),
         \A n \in DOMAIN fs : blobmem[fs[n].blob] = l + n,
         IsInjective(pool), \A n \in DOMAIN pool : pool[n] \in DOMAIN blobmem,
         BlobsApart(pool, q, blobmem), BlobsApart(pool, fs, blobmem)
  PROVE  /\ IsInjective(pool') /\ BlobsApart(pool', pendC', blobmem)
         /\ BlobsApart(pool', fs, blobmem)
         /\ \A n \in DOMAIN pool' : pool'[n] \in DOMAIN blobmem
<1>1. /\ l = k + Len(q) /\ Len(q) \in Nat /\ DOMAIN q = 1 .. Len(q)
      /\ \A n \in 1 .. Len(q) : blobmem[q[n].blob] = k + n
  BY Domains DEF Upstream
<1>2. /\ DOMAIN pendC' = 1 .. Len(pendC') /\ Len(pendC') \in Nat
      /\ DOMAIN pool = 1 .. Len(pool) /\ Len(pool) \in Nat
      /\ DOMAIN pool' = 1 .. Len(pool') /\ Len(pool') \in Nat
      /\ DOMAIN fs = 1 .. Len(fs) /\ Len(fs) \in Nat
  BY Domains DEF Tried, Types
<1>3. /\ \A n \in 1 .. Len(q) : q[n].blob \in DOMAIN blobmem
      /\ \A m \in 1 .. Len(pool), n \in 1 .. Len(q) : pool[m] # q[n].blob
      /\ \A n \in 1 .. Len(fs) : fs[n].blob \in DOMAIN blobmem
      /\ \A m \in 1 .. Len(pool), n \in 1 .. Len(fs) : pool[m] # fs[n].blob
  BY <1>1, <1>2 DEF BlobsApart
<1>4. CASE NotStarted(q, f)
  <2>1. pendC' = q /\ pool' = pool
    BY <1>4 DEF NotStarted
  <2> QED
    BY <2>1
<1>5. CASE Started(q, f)
  <2> DEFINE b == q[1].blob
  <2>1. /\ Len(q) = Len(pendC') + 1 /\ Len(pool') = Len(pool) + 1
        /\ \A n \in 1 .. Len(pendC') : pendC'[n] = q[n + 1]
        /\ pool'[Len(pool) + 1] = b
        /\ \A n \in 1 .. Len(pool) : pool'[n] = pool[n]
    BY <1>5 DEF Started, Dropped, Added
  <2>2. 1 \in 1 .. Len(q) /\ blobmem[b] = k + 1 /\ b \in DOMAIN blobmem
    BY <1>1, <1>2, <1>3, <2>1
  <2>3. \A n \in 1 .. Len(pendC') :
          /\ n + 1 \in 1 .. Len(q) /\ k + (n + 1) # k + 1
          /\ blobmem[q[n + 1].blob] # blobmem[b]
    BY <1>1, <1>2, <2>1, <2>2
  <2>4. \A n \in 1 .. Len(fs) : blobmem[fs[n].blob] # blobmem[b]
    BY <1>1, <1>2, <2>1, <2>2
  <2> HIDE DEF b
  <2>5. \A n \in 1 .. Len(pendC') :
          pendC'[n].blob \in DOMAIN blobmem /\ pendC'[n].blob # b
    BY <1>3, <2>1, <2>3
  <2>6. \A m \in 1 .. Len(pool), n \in 1 .. Len(pendC') :
          pool[m] # pendC'[n].blob
    BY <1>3, <2>1, <2>3
  <2>7. \A n \in 1 .. Len(pool') :
          (n \in 1 .. Len(pool) /\ pool'[n] = pool[n])
            \/ (n = Len(pool) + 1 /\ pool'[n] = b)
    BY <1>2, <2>1
  <2>8. \A n \in 1 .. Len(pool) : pool[n] # b
    BY <1>3, <2>2 DEF b
  <2>9. IsInjective(pool')
    BY <1>2, <2>7, <2>8 DEF IsInjective
  <2>10. BlobsApart(pool', pendC', blobmem)
    BY <1>2, <2>5, <2>6, <2>7 DEF BlobsApart
  <2>11. BlobsApart(pool', fs, blobmem)
    BY <1>2, <1>3, <2>4, <2>7 DEF BlobsApart
  <2> QED
    BY <1>2, <2>2, <2>7, <2>9, <2>10, <2>11
<1>6. CASE FailedToStart(q, f)
  <2>1. /\ Len(pendC') = Len(q) /\ pool' = pool
        /\ \A n \in 1 .. Len(q) : pendC'[n].blob = q[n].blob
    BY <1>6 DEF FailedToStart
  <2>2. BlobsApart(pool', pendC', blobmem)
    BY <1>2, <1>3, <2>1 DEF BlobsApart
  <2> QED
    BY <2>1, <2>2
<1> QED
  BY <1>4, <1>5, <1>6 DEF Tried

\* The job takes the top of the stack of free buffer pairs.
LEMMA TryStartPairs ==
  ASSUME NEW q \in Seq(Task), NEW f \in Seq(BP), Tried(q, f),
         NEW rs, NEW pr, NEW rp, NEW bp,
         PairsApart(f, FALSE, bp, rs, pr, rp)
  PROVE  PairsApart(freebp', busy', job'.bp, rs, pr, rp)
<1>1. /\ DOMAIN f = 1 .. Len(f) /\ Len(f) \in Nat
      /\ DOMAIN freebp' = 1 .. Len(freebp') /\ Len(freebp') \in Nat
  BY Domains DEF Tried
<1>2. CASE NotStarted(q, f)
  <2>1. freebp' = f /\ ~busy'
    BY <1>2 DEF NotStarted
  <2> QED
    BY <2>1 DEF PairsApart
<1>3. CASE Added(freebp', job'.bp, f)
  <2>1. /\ Len(f) = Len(freebp') + 1 /\ f[Len(freebp') + 1] = job'.bp
        /\ \A n \in 1 .. Len(freebp') : freebp'[n] = f[n]
    BY <1>3 DEF Added
  <2>2. Len(freebp') + 1 \in DOMAIN f
    BY <1>1, <2>1
  <2>3. \A n \in 1 .. Len(freebp') : n \in DOMAIN f /\ freebp'[n] = f[n]
                                     /\ n # Len(freebp') + 1
    BY <1>1, <2>1
  <2>4. \A n \in 1 .. Len(freebp') : freebp'[n] # job'.bp
    BY <2>1, <2>2, <2>3 DEF PairsApart, IsInjective
  <2>5. IsInjective(freebp')
    BY <1>1, <2>3 DEF PairsApart, IsInjective
  <2>6. /\ NotIn(job'.bp, rs) /\ NotIn(job'.bp, pr) /\ NotIn(job'.bp, rp)
    BY <2>1, <2>2 DEF PairsApart
  <2> QED
    BY <1>1, <2>3, <2>4, <2>5, <2>6 DEF PairsApart
<1> QED
  BY <1>2, <1>3 DEF Tried, Started, FailedToStart

\* More faults leave the first segments what they are.
LEMMA DownstreamStays ==
  ASSUME NEW x \in Nat, NEW y \in Nat, x <= y,
         NEW o, NEW rs, NEW pr, NEW ds, Downstream(o, rs, pr, ds, x)
  PROVE  Downstream(o, rs, pr, ds, y)
  BY NamedStays DEF Downstream

\* A handler that ends in tryStartDecompressJob has the line in order before
\* that call, and so behind it.
LEMMA TryStartLine ==
  ASSUME Types, NEW q \in Seq(Task), NEW f \in Seq(BP), Tried(q, f),
         conn' = "up", blobmem' = blobmem, functors' \in Seq(Task),
         Announced' \in Nat, nsub' - Len(functors') \in Nat,
         Len(functors') <= nsub',
         \A n \in DOMAIN functors' :
           /\ functors'[n].name = nsub' - Len(functors') + n
           /\ blobmem[functors'[n].blob] = nsub' - Len(functors') + n,
         Upstream(Announced', nsub' - Len(functors'), FALSE, job, src, q,
                  blobmem, nfault),
         IsInjective(pool), \A n \in DOMAIN pool : pool[n] \in DOMAIN blobmem,
         BlobsApart(pool, q, blobmem), BlobsApart(pool, functors', blobmem),
         Downstream(out', reqs', pendR', dst', nfault),
         PairsApart(f, FALSE, job.bp, reqs', pendR', resps'),
         cfree' > 0 => pendR' = <<>>
  PROVE  Blob' /\ Line'
<1> DEFINE k == Announced'
           l == nsub' - Len(functors')
<1>1. Upstream(k, l, busy', job', src', pendC', blobmem, nfault')
  <2> HIDE DEF k, l
  <2> QED
    BY TryStartUpstream DEF k, l
<1>2. /\ IsInjective(pool') /\ BlobsApart(pool', pendC', blobmem)
      /\ BlobsApart(pool', functors', blobmem)
      /\ \A n \in DOMAIN pool' : pool'[n] \in DOMAIN blobmem
  <2>1. \A n \in DOMAIN functors' : blobmem[functors'[n].blob] = l + n
    OBVIOUS
  <2> HIDE DEF k, l
  <2>2. /\ Upstream(k, l, FALSE, job, src, q, blobmem, nfault)
        /\ k \in Nat /\ l \in Nat
    BY DEF k, l
  <2> QED
    BY <2>1, <2>2, TryStartBlobs
<1>3. PairsApart(freebp', busy', job'.bp, reqs', pendR', resps')
  BY TryStartPairs
<1>4. Downstream(out', reqs', pendR', dst', nfault')
  <2>1. nfault \in Nat /\ nfault' \in Nat /\ nfault <= nfault'
    BY DecompressAssumption DEF Types, Tried
  <2> QED
    BY <2>1, DownstreamStays
<1>5. (engine' # "idle" => busy') /\ engine' # "done"
  BY DEF Tried, NotStarted, Started, FailedToStart
<1>6. Blob'
  BY <1>2 DEF Blob
<1>7. Line'
  BY <1>1, <1>2, <1>3, <1>4, <1>5 DEF Line
<1> QED
  BY <1>6, <1>7
-----------------------------------------------------------------------------
(* The invariant holds at first, and every step keeps it. *)

\* The constants, and zero as a name, a byte and a buffer pair.
LEMMA Consts ==
  /\ MaxSeg \in Nat /\ MaxFault \in Nat /\ NBlobs \in Nat
  /\ Nb \in Nat \ {0} /\ KInc \in Nat \ {0}
  /\ 0 \in Seg /\ 0 \in BP /\ Seg \subseteq Nat /\ BP \subseteq Nat
  BY DecompressAssumption DEF Seg, BP

\* Initially everything is empty, and all buffers are free.
LEMMA InitDInv == Init => DInv
<1> SUFFICES ASSUME Init PROVE DInv
  OBVIOUS
<1>1. /\ pool \in Seq(Nat) /\ DOMAIN pool = 1 .. NBlobs
      /\ IsInjective(pool)
      /\ blobmem \in Seq(Seg) /\ DOMAIN blobmem = 1 .. NBlobs
      /\ \A n \in 1 .. NBlobs : pool[n] = n
  <2>1. pool = [n \in 1 .. NBlobs |-> n] /\ blobmem = [n \in 1 .. NBlobs |-> 0]
    BY DEF Init
  <2> QED
    BY <2>1, Consts DEF IsInjective
<1>2. freebp \in Seq(BP) /\ IsInjective(freebp)
  <2>1. freebp = [n \in 1 .. Nb |-> n - 1]
    BY DEF Init
  <2>2. freebp \in Seq(BP)
    BY <2>1, Consts DEF BP
  <2>3. IsInjective(freebp)
    BY <2>1, Consts DEF IsInjective
  <2> QED
    BY <2>2, <2>3
<1>3. /\ functors = <<>> /\ pendC = <<>> /\ pendR = <<>> /\ reqs = <<>>
      /\ resps = <<>> /\ out = <<>> /\ nsub = 0 /\ conn = "none"
      /\ busy = FALSE /\ engine = "idle" /\ nfault = 0 /\ cfree = nbuf /\ nbuf \in MemNums
      /\ Len(<<>>) = 0 /\ DOMAIN <<>> = {}
  BY DEF Init
<1>4. Types
  <2>1. src \in [BP -> Seg] /\ dst \in [BP -> Seg] /\ compressed \in BOOLEAN
    BY Consts DEF Init
  <2>2. job \in [name : Seg, bp : BP] /\ armed \in BOOLEAN /\ event \in BOOLEAN
        /\ pc \in {"loop", "arm"}
    BY Consts DEF Init, NoName
  <2>3. cfree \in Nat /\ cfree + Len(reqs) + Len(resps) = nbuf
        /\ nfault \in 0 .. MaxFault
    BY <1>3, Consts, DecompressAssumption
  <2> QED
    BY <1>1, <1>2, <1>3, <2>1, <2>2, <2>3, Consts DEF Types
<1>5. Blob
  BY <1>1, <1>3 DEF Blob, BlobsApart
<1>6. Line
  <2>1. Quiet
    BY <1>2, <1>3 DEF Quiet
  <2>2. /\ Upstream(0, 0, FALSE, job, src, pendC, blobmem, nfault)
        /\ nsub - Len(functors) = 0
    <3>0. nsub = 0 /\ Len(functors) = 0 /\ Len(pendC) = 0
      BY <1>3, Zenon
    <3>1. nsub - Len(functors) = 0 /\ 0 = 0 + 0 + Len(pendC)
      BY <3>0
    <3>2. \A n \in DOMAIN pendC : FALSE
      BY <1>3
    <3> QED
      BY <3>1, <3>2 DEF Upstream
  <2> QED
    BY <1>3, <2>1, <2>2 DEF Line, BlobsApart
<1>7. Inline
  BY <1>3 DEF Inline, BlobsApart, NamesOnce, NamesApart, Finish,
                    RequestsOnce
<1> QED
  BY <1>4, <1>5, <1>6, <1>7 DEF DInv

\* The pool before a blob is taken out of it.
LEMMA Growing ==
  ASSUME Types, Blob
  PROVE  /\ GrownPool \in Seq(Nat) /\ GrownPool # <<>> /\ GrownMem \in Seq(Seg)
         /\ Len(blobmem) <= Len(GrownMem)
         /\ \A n \in 1 .. Len(blobmem) : GrownMem[n] = blobmem[n]
         /\ IsInjective(GrownPool)
         /\ \A n \in DOMAIN GrownPool :
              /\ GrownPool[n] \in 1 .. Len(GrownMem)
              /\ GrownPool[n] \in 1 .. Len(blobmem) =>
                   \E m \in DOMAIN pool : pool[m] = GrownPool[n]
<1>1. /\ pool \in Seq(Nat) /\ blobmem \in Seq(Seg) /\ Len(blobmem) \in Nat
      /\ DOMAIN blobmem = 1 .. Len(blobmem) /\ IsInjective(pool)
      /\ \A n \in DOMAIN pool : pool[n] \in DOMAIN blobmem
  BY Domains DEF Types, Blob
<1>2. CASE pool # <<>>
  <2>1. GrownPool = pool /\ GrownMem = blobmem
    BY <1>2 DEF GrownPool, GrownMem
  <2> QED
    BY <1>1, <1>2, <2>1
<1>3. CASE pool = <<>>
  <2> DEFINE L == Len(blobmem)
             p == [n \in 1 .. KInc |-> L + n]
             z == [n \in 1 .. KInc |-> 0]
             m == blobmem \o z
  <2>1. GrownPool = p /\ GrownMem = m
    BY <1>3 DEF GrownPool, GrownMem
  <2>2. p \in Seq(Nat) /\ Len(p) = KInc /\ DOMAIN p = 1 .. KInc /\ p # <<>>
    BY <1>1, Consts
  <2>3. z \in Seq(Seg) /\ Len(z) = KInc
    BY Consts
  <2> HIDE DEF z
  <2>4. /\ m \in Seq(Seg) /\ Len(m) = L + KInc
        /\ \A n \in 1 .. L : m[n] = blobmem[n]
    <3>1. /\ blobmem \o z \in Seq(Seg) /\ Len(blobmem \o z) = L + Len(z)
          /\ \A n \in 1 .. L + Len(z) :
               (blobmem \o z)[n] = IF n <= L THEN blobmem[n] ELSE z[n - L]
      BY <1>1, <2>3, ConcatProperties
    <3> HIDE DEF m
    <3>2. /\ m \in Seq(Seg) /\ Len(m) = L + KInc
          /\ \A n \in 1 .. L + KInc :
               m[n] = IF n <= L THEN blobmem[n] ELSE z[n - L]
      BY <2>3, <3>1 DEF m
    <3> QED
      BY <1>1, <3>2, Consts
  <2> HIDE DEF m
  <2>5. IsInjective(p)
    BY <1>1, Consts DEF IsInjective
  <2>6. \A n \in 1 .. KInc :
          p[n] \in 1 .. L + KInc /\ p[n] \notin 1 .. L
    BY <1>1, Consts
  <2> HIDE DEF p
  <2> QED
    BY <1>1, <2>1, <2>2, <2>4, <2>5, <2>6, Consts
<1> QED
  BY <1>2, <1>3

\* What another holder of a blob sees of acquireBlob and the parsing into the
\* blob that follows: nothing.
Acquired(b) ==
  /\ pool' \in Seq(Nat) /\ blobmem' \in Seq(Seg) /\ b \in DOMAIN blobmem'
  /\ IsInjective(pool') /\ \A n \in DOMAIN pool' : pool'[n] \in DOMAIN blobmem'
  /\ \A n \in DOMAIN pool' : pool'[n] # b
  /\ blobmem'[b] = nsub + 1
  /\ \A x \in DOMAIN blobmem :
       x \in DOMAIN blobmem' /\ (x # b => blobmem'[x] = blobmem[x])
  /\ \A x \in DOMAIN blobmem : (\A n \in DOMAIN pool : pool[n] # x) =>
       x # b /\ \A n \in DOMAIN pool' : pool'[n] # x

\* Submit takes the last blob of the grown pool.
LEMMA SubmitAcquires ==
  ASSUME Types, Blob, Submit
  PROVE  Acquired(Last(GrownPool))
<1> DEFINE b == Last(GrownPool)
           P == GrownPool
           M == GrownMem
<1>1. /\ P \in Seq(Nat) /\ P # <<>> /\ M \in Seq(Seg)
      /\ Len(blobmem) <= Len(M)
      /\ \A n \in 1 .. Len(blobmem) : M[n] = blobmem[n]
      /\ IsInjective(P)
      /\ \A n \in DOMAIN P :
           /\ P[n] \in 1 .. Len(M)
           /\ P[n] \in 1 .. Len(blobmem) =>
                \E m \in DOMAIN pool : pool[m] = P[n]
  BY Growing
<1>2. /\ pool' = Front(P) /\ blobmem' = [M EXCEPT ![b] = nsub + 1]
      /\ nsub + 1 \in Seg
  BY Consts DEF Submit, Types, Seg
<1> HIDE DEF P, M
<1>3. /\ Front(P) \in Seq(Nat) /\ Len(P) \in Nat \ {0}
      /\ Last(P) = P[Len(P)] /\ Len(Front(P)) = Len(P) - 1
      /\ \A n \in 1 .. Len(P) - 1 : Front(P)[n] = P[n]
  BY <1>1, FrontAdds
<1>4. /\ b = P[Len(P)] /\ DOMAIN P = 1 .. Len(P) /\ b \in 1 .. Len(M)
      /\ DOMAIN M = 1 .. Len(M) /\ Len(M) \in Nat
      /\ DOMAIN blobmem = 1 .. Len(blobmem) /\ Len(blobmem) \in Nat
  <2>1. b = P[Len(P)] /\ DOMAIN P = 1 .. Len(P)
    BY <1>1, <1>3, Domains DEF P
  <2>2. /\ DOMAIN M = 1 .. Len(M) /\ Len(M) \in Nat
        /\ DOMAIN blobmem = 1 .. Len(blobmem) /\ Len(blobmem) \in Nat
    BY <1>1, Domains DEF Types
  <2>3. Len(P) \in DOMAIN P
    BY <1>3, <2>1
  <2> QED
    BY <1>1, <2>1, <2>2, <2>3
<1> HIDE DEF b
<1>5. /\ pool' \in Seq(Nat) /\ DOMAIN pool' = 1 .. Len(P) - 1
      /\ \A n \in 1 .. Len(P) - 1 : pool'[n] = P[n] /\ n \in DOMAIN P
  BY <1>2, <1>3, <1>4, Domains
<1>6. /\ blobmem' \in Seq(Seg) /\ DOMAIN blobmem' = 1 .. Len(M)
      /\ blobmem'[b] = nsub + 1
      /\ \A x \in 1 .. Len(M) : x # b => blobmem'[x] = M[x]
  BY <1>1, <1>2, <1>4
<1>7. IsInjective(pool') /\ \A n \in DOMAIN pool' : pool'[n] # b
  <2>1. Len(P) \in DOMAIN P /\ \A n \in 1 .. Len(P) - 1 : n # Len(P)
    BY <1>3, <1>4
  <2>2. \A n, m \in DOMAIN P : P[n] = P[m] => n = m
    BY <1>1 DEF IsInjective
  <2>3. \A n \in DOMAIN pool' :
          pool'[n] = P[n] /\ n \in DOMAIN P /\ n # Len(P)
    BY <1>5, <2>1, Zenon
  <2>4. \A n \in DOMAIN pool' : pool'[n] # b
    BY <1>4, <2>1, <2>2, <2>3, Zenon
  <2>5. IsInjective(pool')
    BY <2>2, <2>3, Zenon DEF IsInjective
  <2> QED
    BY <2>4, <2>5
<1>8. \A n \in DOMAIN pool' : pool'[n] \in DOMAIN blobmem'
  BY <1>1, <1>5, <1>6
<1>9. \A x \in DOMAIN blobmem :
        x \in DOMAIN blobmem' /\ (x # b => blobmem'[x] = blobmem[x])
  BY <1>1, <1>4, <1>6
<1>10. ASSUME NEW x \in DOMAIN blobmem, \A n \in DOMAIN pool : pool[n] # x
       PROVE  x # b /\ \A n \in DOMAIN pool' : pool'[n] # x
  <2>1. \A n \in DOMAIN P : P[n] # x
    BY <1>1, <1>4, <1>10
  <2>2. Len(P) \in DOMAIN P
    BY <1>3, <1>4
  <2> QED
    BY <1>4, <1>5, <2>1, <2>2
<1>11. Acquired(b)
  BY <1>4, <1>5, <1>6, <1>7, <1>8, <1>9, <1>10 DEF Acquired
<1> QED
  BY <1>11 DEF b, P

\* Tasks that are apart from the pool stay so, and keep their bytes.
LEMMA AcquiredApart ==
  ASSUME NEW b, Acquired(b), NEW q, BlobsApart(pool, q, blobmem)
  PROVE  /\ BlobsApart(pool', q, blobmem')
         /\ \A n \in DOMAIN q :
              q[n].blob # b /\ blobmem'[q[n].blob] = blobmem[q[n].blob]
<1>1. \A n \in DOMAIN q :
        /\ q[n].blob \in DOMAIN blobmem
        /\ \A m \in DOMAIN pool : pool[m] # q[n].blob
  BY Zenon DEF BlobsApart
<1>2. /\ \A x \in DOMAIN blobmem :
           x \in DOMAIN blobmem' /\ (x # b => blobmem'[x] = blobmem[x])
      /\ \A x \in DOMAIN blobmem : (\A n \in DOMAIN pool : pool[n] # x) =>
           x # b /\ \A n \in DOMAIN pool' : pool'[n] # x
  BY DEF Acquired
<1>3. \A n \in DOMAIN q :
        /\ q[n].blob \in DOMAIN blobmem' /\ q[n].blob # b
        /\ blobmem'[q[n].blob] = blobmem[q[n].blob]
        /\ \A m \in DOMAIN pool' : pool'[m] # q[n].blob
  BY <1>1, <1>2, Zenon
<1> QED
  BY <1>3, Zenon DEF BlobsApart

\* The fetcher hands a segment on.
LEMMA SubmitKeeps ==
  ASSUME DInv, Submit
  PROVE  DInv'
<1> DEFINE b == Last(GrownPool)
           e == [name |-> nsub + 1, blob |-> b]
<1>1. Types /\ Blob
  BY DEF DInv
<1>2. Acquired(b)
  BY <1>1, SubmitAcquires
<1>3. /\ nsub' = nsub + 1 /\ nsub \in Nat /\ nsub' \in Seg
      /\ functors' = Append(functors, e)
      /\ UNCHANGED <<compressed, nbuf, conn, pendC, pendR, cfree, reqs, resps, busy,
                     job, freebp, src, dst, engine, armed, event, pc, out,
                     nfault>>
  BY <1>1, Consts DEF Submit, Types, Seg, hwvars
<1> HIDE DEF b
<1>4. e \in Task
  <2>1. b \in Nat /\ nsub + 1 \in Seg
    BY <1>2, <1>3, Domains DEF Acquired
  <2> QED
    BY <2>1 DEF Task
<1>5. e.name = nsub + 1 /\ e.blob = b
  OBVIOUS
<1> HIDE DEF e
<1>6. /\ functors' \in Seq(Task) /\ Added(functors, e, functors')
      /\ functors \in Seq(Task)
  BY <1>1, <1>3, <1>4, AppendAdds DEF Types
<1>7. /\ Len(functors) \in Nat /\ Len(functors') = Len(functors) + 1
      /\ DOMAIN functors = 1 .. Len(functors)
      /\ DOMAIN functors' = 1 .. Len(functors')
      /\ functors'[Len(functors) + 1] = e
      /\ \A n \in DOMAIN functors : functors'[n] = functors[n]
  BY <1>6, Domains DEF Added
<1>8. Types'
  <2>1. pool' \in Seq(Nat) /\ blobmem' \in Seq(Seg)
    BY <1>2 DEF Acquired
  <2> QED
    BY <1>1, <1>3, <1>6, <2>1 DEF Types
<1> DEFINE l == nsub - Len(functors)
<1>9. nsub' - Len(functors') = l /\ l \in Nat /\ Len(functors') <= nsub'
  BY <1>1, <1>3, <1>7 DEF Blob
<1>10. /\ BlobsApart(pool', functors, blobmem')
       /\ \A n \in DOMAIN functors :
            blobmem'[functors[n].blob] = blobmem[functors[n].blob]
  BY <1>1, <1>2, AcquiredApart DEF Blob
<1>11. \A n \in DOMAIN functors' :
         (n \in DOMAIN functors /\ functors'[n] = functors[n])
           \/ (n = Len(functors) + 1 /\ functors'[n] = e)
  BY <1>7
<1>12. \A n \in DOMAIN functors' :
         functors'[n].name = l + n /\ blobmem'[functors'[n].blob] = l + n
  <2>1. /\ \A n \in DOMAIN functors :
             functors[n].name = l + n /\ blobmem[functors[n].blob] = l + n
        /\ blobmem'[b] = nsub + 1 /\ nsub + 1 = l + (Len(functors) + 1)
    BY <1>1, <1>2, <1>3, <1>7 DEF Blob, Acquired
  <2> HIDE DEF l
  <2> QED
    BY <1>5, <1>10, <1>11, <2>1, Zenon
<1>13. BlobsApart(pool', functors', blobmem')
  <2>1. b \in DOMAIN blobmem' /\ \A n \in DOMAIN pool' : pool'[n] # b
    BY <1>2 DEF Acquired
  <2> QED
    BY <1>5, <1>10, <1>11, <2>1, Zenon DEF BlobsApart
<1>14. Blob'
  BY <1>2, <1>9, <1>12, <1>13 DEF Blob, Acquired
<1>15. ASSUME compressed PROVE Line'
  <2>1. Line
    BY <1>15 DEF DInv
  <2>2. /\ BlobsApart(pool', pendC, blobmem')
        /\ \A n \in DOMAIN pendC :
             blobmem'[pendC[n].blob] = blobmem[pendC[n].blob]
    BY <1>2, <2>1, AcquiredApart DEF Line
  <2> DEFINE k == IF conn = "up" THEN Announced ELSE 0
  <2>3. Upstream(k, l, busy, job, src, pendC, blobmem', nfault)
    <3>1. Upstream(k, l, busy, job, src, pendC, blobmem, nfault)
      BY <2>1 DEF Line
    <3> HIDE DEF k, l
    <3> QED
      BY <2>2, <3>1 DEF Upstream
  <2>4. k' = k
    BY <1>3 DEF Announced
  <2>5. (conn # "up" => Quiet)' /\ (engine # "idle" => busy)'
    BY <1>3, <2>1 DEF Line, Quiet
  <2> QED
    BY <1>3, <1>9, <2>1, <2>2, <2>3, <2>4, <2>5 DEF Line
<1>16. ASSUME ~compressed PROVE Inline'
  <2>1. Inline
    BY <1>16 DEF DInv
  <2>2. /\ BlobsApart(pool', pendR, blobmem')
        /\ \A n \in DOMAIN pendR :
             blobmem'[pendR[n].blob] = blobmem[pendR[n].blob]
    BY <1>2, <2>1, AcquiredApart DEF Inline
  <2> QED
    BY <1>3, <1>9, <2>1, <2>2 DEF Inline
<1> QED
  BY <1>3, <1>8, <1>14, <1>15, <1>16 DEF DInv

\* A task moves from the functors to pending_compress_jobs_.
LEMMA RunSubmitKeeps ==
  ASSUME DInv, RunSubmit
  PROVE  DInv'
<1> DEFINE h == Head(functors)
           q == Append(pendC, h)
           l == nsub - Len(functors)
           k == IF conn = "up" THEN Announced ELSE 0
<1>1. Types /\ Blob /\ compressed /\ Line
  BY DEF DInv, RunSubmit
<1>2. /\ functors # <<>> /\ functors' = Tail(functors)
      /\ UNCHANGED <<compressed, nbuf, nsub, blobmem, conn, pendR, cfree, reqs, resps,
                     dst, armed, event, pc, out>>
  BY DEF RunSubmit
<1>3. /\ functors' \in Seq(Task) /\ Dropped(functors, functors')
      /\ h = functors[1] /\ h \in Task /\ functors \in Seq(Task)
      /\ pendC \in Seq(Task)
  BY <1>1, <1>2, TailDrops DEF Types
<1>4. q \in Seq(Task) /\ Added(pendC, h, q)
  BY <1>3, AppendAdds
<1>5. \/ conn = "up" /\ ~busy /\ TryStart(q, freebp)
      \/ /\ ~(conn = "up" /\ ~busy) /\ pendC' = q
         /\ UNCHANGED <<busy, job, freebp, src, engine, nfault, pool>>
  BY DEF RunSubmit
<1> HIDE DEF h, q
<1>6. /\ Len(functors) = Len(functors') + 1 /\ Len(functors') \in Nat
      /\ DOMAIN functors = 1 .. Len(functors)
      /\ DOMAIN functors' = 1 .. Len(functors')
      /\ \A n \in DOMAIN functors' :
           functors'[n] = functors[n + 1] /\ n + 1 \in DOMAIN functors
      /\ 1 \in DOMAIN functors
  <2>1. /\ DOMAIN functors = 1 .. Len(functors) /\ Len(functors') \in Nat
        /\ DOMAIN functors' = 1 .. Len(functors')
    BY <1>3, Domains
  <2> QED
    BY <1>3, <2>1 DEF Dropped
<1>7. /\ Len(q) = Len(pendC) + 1 /\ Len(pendC) \in Nat
      /\ DOMAIN pendC = 1 .. Len(pendC) /\ DOMAIN q = 1 .. Len(q)
      /\ \A n \in DOMAIN q : (n \in DOMAIN pendC /\ q[n] = pendC[n])
                               \/ (n = Len(pendC) + 1 /\ q[n] = h)
  <2>1. /\ DOMAIN pendC = 1 .. Len(pendC) /\ Len(pendC) \in Nat
        /\ DOMAIN q = 1 .. Len(q)
    BY <1>3, <1>4, Domains
  <2> QED
    BY <1>4, <2>1 DEF Added
<1>8. /\ nsub' - Len(functors') = l + 1 /\ l \in Nat /\ l + 1 \in Nat
      /\ Len(functors') <= nsub' /\ Len(functors) <= nsub
  <2>1. Len(functors) <= nsub /\ nsub \in Nat
    BY <1>1, Consts DEF Blob, Types
  <2> QED
    BY <1>2, <1>6, <2>1
<1>9. \A n \in DOMAIN functors :
        functors[n].name = l + n /\ blobmem[functors[n].blob] = l + n
  BY <1>1 DEF Blob
<1>10. \A n \in DOMAIN functors' :
         /\ functors'[n].name = l + 1 + n
         /\ blobmem[functors'[n].blob] = l + 1 + n
  <2>1. \A n \in DOMAIN functors' : l + (n + 1) = l + 1 + n
    BY <1>6, <1>8
  <2> HIDE DEF l
  <2> QED
    BY <1>6, <1>9, <2>1
<1>11. blobmem[h.blob] = l + 1 /\ h.name = l + 1
  BY <1>3, <1>6, <1>9
<1>12. k \in Nat
  BY <1>1, Domains DEF Announced, Types
<1>13. Upstream(k, l + 1, busy, job, src, q, blobmem, nfault)
  <2> DEFINE held == IF busy THEN 1 ELSE 0
  <2>1. /\ l = k + held + Len(pendC) /\ held \in Nat
        /\ busy => src[job.bp] = k + 1 /\ Named(job.name, k + 1, nfault)
        /\ \A n \in DOMAIN pendC : /\ blobmem[pendC[n].blob] = k + held + n
                                   /\ Named(pendC[n].name, k + held + n, nfault)
    BY <1>1 DEF Line, Upstream
  <2>2. l + 1 = k + held + (Len(pendC) + 1) /\ l + 1 = k + held + Len(q)
    <3>1. /\ Len(q) = Len(pendC) + 1 /\ Len(pendC) \in Nat /\ l \in Nat
          /\ k \in Nat /\ l = k + held + Len(pendC) /\ held \in Nat
      BY <1>7, <1>8, <1>12, <2>1
    <3> HIDE DEF l, k, held
    <3> QED
      BY <3>1
  <2>3. Named(h.name, l + 1, nfault)
    BY <1>11 DEF Named
  <2> HIDE DEF held, k, l
  <2>4. \A n \in DOMAIN q : /\ blobmem[q[n].blob] = k + held + n
                            /\ Named(q[n].name, k + held + n, nfault)
    BY <1>7, <1>11, <2>1, <2>2, <2>3, Zenon
  <2> QED
    BY <2>1, <2>2, <2>4 DEF Upstream, held
<1>14. /\ BlobsApart(pool, q, blobmem) /\ BlobsApart(pool, functors', blobmem)
       /\ IsInjective(pool) /\ \A n \in DOMAIN pool : pool[n] \in DOMAIN blobmem
  <2>1. /\ BlobsApart(pool, pendC, blobmem)
        /\ BlobsApart(pool, functors, blobmem)
        /\ IsInjective(pool)
        /\ \A n \in DOMAIN pool : pool[n] \in DOMAIN blobmem
    BY <1>1 DEF Line, Blob
  <2>2. BlobsApart(pool, functors', blobmem)
    BY <1>6, <2>1, Zenon DEF BlobsApart
  <2>3. BlobsApart(pool, q, blobmem)
    <3>1. /\ h.blob \in DOMAIN blobmem
          /\ \A m \in DOMAIN pool : pool[m] # h.blob
      BY <1>3, <1>6, <2>1, Zenon DEF BlobsApart
    <3>2. \A n \in DOMAIN q : (n \in DOMAIN pendC /\ q[n] = pendC[n])
                                \/ q[n] = h
      BY <1>7, Zenon
    <3> QED
      BY <2>1, <3>1, <3>2, Zenon DEF BlobsApart
  <2> QED
    BY <2>1, <2>2, <2>3
<1>15. CASE conn = "up" /\ ~busy /\ TryStart(q, freebp)
  <2>1. freebp \in Seq(BP) /\ \A n \in DOMAIN q : q[n].blob \in DOMAIN blobmem
    BY <1>1, <1>14 DEF Types, BlobsApart
  <2>2. Tried(q, freebp)
    BY <1>1, <1>4, <1>15, <2>1, TryStartOutcome
  <2>3. /\ Downstream(out', reqs', pendR', dst', nfault)
        /\ PairsApart(freebp, FALSE, job.bp, reqs', pendR', resps')
        /\ cfree' > 0 => pendR' = <<>>
    <3>1. busy = FALSE
      BY <1>1, <1>15 DEF Types
    <3> QED
      BY <1>1, <1>2, <1>15, <3>1 DEF Line
  <2>4. Announced' = k /\ conn' = "up"
    BY <1>2, <1>15 DEF Announced
  <2>5. Upstream(k, l + 1, FALSE, job, src, q, blobmem, nfault)
    <3>1. busy = FALSE
      BY <1>1, <1>15 DEF Types
    <3> QED
      BY <1>13, <3>1
  <2> HIDE DEF k, l
  <2>6. Blob' /\ Line'
    BY <1>1, <1>2, <1>3, <1>4, <1>8, <1>10, <1>12, <1>14, <2>1, <2>2, <2>3,
       <2>4, <2>5, TryStartLine
  <2>7. Types'
    BY <1>1, <1>2, <1>3, <2>2 DEF Types, Tried
  <2> QED
    BY <1>1, <1>2, <2>6, <2>7 DEF DInv
<1>16. CASE /\ ~(conn = "up" /\ ~busy) /\ pendC' = q
            /\ UNCHANGED <<busy, job, freebp, src, engine, nfault, pool>>
  <2>1. Types'
    BY <1>1, <1>2, <1>3, <1>4, <1>16 DEF Types
  <2>2. Blob'
    BY <1>2, <1>8, <1>10, <1>14, <1>16 DEF Blob
  <2>3. k' = k
    BY <1>2 DEF Announced
  <2>4. (conn # "up" => Quiet)'
    BY <1>1, <1>2, <1>16 DEF Line, Quiet
  <2> HIDE DEF k, l
  <2>5. Line'
    BY <1>1, <1>2, <1>8, <1>13, <1>14, <1>16, <2>3, <2>4 DEF Line, k
  <2> QED
    BY <1>1, <1>2, <2>1, <2>2, <2>5 DEF DInv
<1> QED
  BY <1>5, <1>15, <1>16

\* The records that make up the sequences.
LEMMA Records ==
  /\ [type |-> "mmap"] \in Request /\ [type |-> "mmap"] \in Response
  /\ [type |-> "mmap"].type = "mmap"
  /\ \A x \in Request :
       /\ x.type \in {"mmap", "finish"}
       /\ x.type = "finish" => x.name \in Seg /\ x.bp \in BP /\ x.bytes \in Seg
  /\ \A x \in Response :
       x.type \in {"mmap", "finish"} /\ (x.type = "finish" => x.bp \in BP)
  /\ \A x \in Info : x.name \in Seg /\ x.bp \in BP
  /\ \A x \in Task : x.name \in Seg /\ x.blob \in Nat
  /\ \A x \in Result : x.name \in Seg /\ x.bytes \in Seg
<1>1. /\ [type |-> "mmap"] \in Request /\ [type |-> "mmap"] \in Response
      /\ [type |-> "mmap"].type = "mmap"
  BY DEF Request, Response
<1>2. \A x \in Request :
        /\ x.type \in {"mmap", "finish"}
        /\ x.type = "finish" => x.name \in Seg /\ x.bp \in BP /\ x.bytes \in Seg
  BY DEF Request
<1>3. \A x \in Response :
        x.type \in {"mmap", "finish"} /\ (x.type = "finish" => x.bp \in BP)
  BY DEF Response
<1>4. \A x \in Info : x.name \in Seg /\ x.bp \in BP
  BY DEF Info
<1>5. \A x \in Task : x.name \in Seg /\ x.blob \in Nat
  BY DEF Task
<1>6. \A x \in Result : x.name \in Seg /\ x.bytes \in Seg
  BY DEF Result
<1> QED
  BY <1>1, <1>2, <1>3, <1>4, <1>5, <1>6

\* A DecompressFinishRequest.
LEMMA FinishReqs ==
  ASSUME NEW x, x.name \in Seg, x.bp \in BP, NEW bytes \in Seg
  PROVE  /\ FinishReq(x, bytes) \in Request
         /\ FinishReq(x, bytes).type = "finish"
         /\ FinishReq(x, bytes).name = x.name /\ FinishReq(x, bytes).bp = x.bp
         /\ FinishReq(x, bytes).bytes = bytes
  BY DEF FinishReq, Request

\* onConnected.
LEMMA OnConnectedKeeps ==
  ASSUME DInv, OnConnected
  PROVE  DInv'
<1> DEFINE e == [type |-> "mmap"]
<1>1. /\ conn = "none" /\ conn' = "mmap" /\ reqs' = Append(reqs, e)
      /\ cfree' = cfree - 1
      /\ UNCHANGED <<compressed, nbuf, nsub, pool, blobmem, functors, pendR, resps,
                     dst, armed, event, pc, out, busy, job, freebp, src, pendC,
                     engine, nfault>>
  BY DEF OnConnected, memvars, jobvars
<1>2. Types /\ Blob /\ reqs = <<>> /\ resps = <<>>
  BY <1>1 DEF DInv, Types
<1>3. e \in Request /\ e.type = "mmap"
  BY Records
<1> HIDE DEF e
<1>4. reqs' \in Seq(Request) /\ Len(reqs') = 1 /\ reqs'[1] = e
      /\ DOMAIN reqs' = 1 .. 1
  BY <1>1, <1>2, <1>3
<1>5. cfree' \in Nat /\ cfree' + Len(reqs') + Len(resps') = nbuf
  <2>1. /\ cfree \in Nat /\ cfree + Len(reqs) + Len(resps) = nbuf
        /\ Len(reqs) = 0 /\ Len(resps) = 0 /\ nbuf \in Nat \ {0}
    BY <1>2, DecompressAssumption DEF Types
  <2>2. cfree = nbuf
    BY <2>1
  <2>3. Len(resps') = 0
    BY <1>1, <2>1
  <2> QED
    BY <1>1, <1>4, <2>1, <2>2, <2>3
<1>6. Types'
  BY <1>1, <1>2, <1>4, <1>5 DEF Types
<1>7. Blob'
  BY <1>1, <1>2 DEF Blob
<1>8. ASSUME compressed PROVE Line'
  <2>1. Line /\ Quiet
    BY <1>1, <1>8 DEF DInv, Line
  <2>2. /\ Len(reqs') + Len(resps') <= 1
        /\ \A n \in DOMAIN reqs' : reqs'[n].type = "mmap"
    <3>1. Len(resps') = 0
      BY <1>1, <1>2
    <3>2. \A n \in DOMAIN reqs' : n = 1
      BY <1>4
    <3> QED
      BY <1>3, <1>4, <3>1, <3>2
  <2>3. Quiet'
    BY <1>1, <2>1, <2>2 DEF Quiet
  <2> QED
    BY <1>1, <2>1, <2>3 DEF Line
<1>9. ASSUME ~compressed PROVE Inline'
  <2>1. Inline
    BY <1>9 DEF DInv
  <2>2. Finish(reqs') = {}
    BY <1>3, <1>4 DEF Finish
  <2>3. RequestsOnce(reqs', out', pendR', nsub' - Len(functors'))
    BY <2>2 DEF RequestsOnce
  <2> QED
    BY <1>1, <2>1, <2>3 DEF Inline
<1> QED
  BY <1>1, <1>6, <1>7, <1>8, <1>9 DEF DInv

\* handleMmapInfoResponse.
LEMMA OnMmapResponseKeeps ==
  ASSUME DInv, OnMmapResponse
  PROVE  DInv'
<1>1. /\ resps # <<>> /\ Head(resps).type = "mmap" /\ resps' = Tail(resps)
      /\ cfree' = cfree + 1
      /\ UNCHANGED <<compressed, nbuf, nsub, blobmem, functors, pendR, reqs, dst,
                     armed, event, pc, out>>
      /\ \/ conn' = "up" /\ TryStart(pendC, freebp)
         \/ /\ nfault < MaxFault /\ nfault' = nfault + 1
            /\ UNCHANGED <<conn, pool, busy, job, freebp, src, pendC, engine>>
  BY DEF OnMmapResponse
<1>2. Types /\ Blob
  BY DEF DInv
<1>3. /\ resps' \in Seq(Response) /\ Dropped(resps, resps')
      /\ resps[1].type = "mmap" /\ resps \in Seq(Response)
  BY <1>1, <1>2, TailDrops DEF Types
<1>4. /\ Len(resps) = Len(resps') + 1 /\ Len(resps') \in Nat
      /\ DOMAIN resps = 1 .. Len(resps) /\ DOMAIN resps' = 1 .. Len(resps')
      /\ \A n \in DOMAIN resps' :
           resps'[n] = resps[n + 1] /\ n + 1 \in DOMAIN resps
      /\ 1 \in DOMAIN resps
  <2>1. /\ DOMAIN resps = 1 .. Len(resps) /\ Len(resps') \in Nat
        /\ DOMAIN resps' = 1 .. Len(resps')
    BY <1>3, Domains
  <2> QED
    BY <1>3, <2>1 DEF Dropped
<1>5. /\ cfree' \in Nat /\ cfree' + Len(reqs') + Len(resps') = nbuf
      /\ Len(reqs) \in Nat
  <2>1. /\ cfree \in Nat /\ cfree + Len(reqs) + Len(resps) = nbuf
        /\ Len(reqs) \in Nat
    BY <1>2, Domains DEF Types
  <2>2. Len(reqs') = Len(reqs)
    BY <1>1
  <2> QED
    BY <1>1, <1>4, <2>1, <2>2
<1>6. conn # "none"
  BY <1>1, <1>2 DEF Types
<1>7. CASE conn' = "up" /\ TryStart(pendC, freebp)
  <2>1. CASE compressed
    <3>1. Line
      BY <2>1 DEF DInv
    <3>2. conn # "up"
      <4>1. SUFFICES ASSUME conn = "up" PROVE FALSE
        OBVIOUS
      <4>2. resps[1].type = "finish"
        BY <1>4, <3>1, <4>1 DEF Line, PairsApart
      <4> QED
        BY <1>3, <4>2
    <3>3. Quiet
      BY <3>1, <3>2 DEF Line
    <3>4. /\ Len(reqs) = 0 /\ Len(resps') = 0 /\ reqs = <<>> /\ out = <<>>
          /\ pendR = <<>> /\ resps' = <<>> /\ busy = FALSE
      <4>1. Len(reqs) + Len(resps) <= 1 /\ out = <<>> /\ pendR = <<>> /\ ~busy
        BY <3>3 DEF Quiet
      <4>2. Len(reqs) = 0 /\ Len(resps') = 0
        BY <1>4, <1>5, <4>1
      <4> QED
        BY <1>2, <1>3, <4>1, <4>2, Domains DEF Types
    <3>5. /\ pendC \in Seq(Task) /\ freebp \in Seq(BP)
          /\ \A n \in DOMAIN pendC : pendC[n].blob \in DOMAIN blobmem
      BY <1>2, <3>1 DEF Types, Line, BlobsApart
    <3>6. Tried(pendC, freebp)
      BY <1>2, <1>7, <3>5, TryStartOutcome
    <3>7. /\ reqs' = <<>> /\ pendR' = <<>> /\ out' = <<>>
          /\ functors' = functors /\ nsub' = nsub /\ blobmem' = blobmem
      BY <1>1, <3>4
    <3>8. Announced' = 0
      <4>1. Len(reqs') = 0 /\ Len(pendR') = 0 /\ Len(out') = 0
        BY <3>7
      <4> QED
        BY <4>1 DEF Announced
    <3>9. Downstream(out', reqs', pendR', dst', nfault)
      BY <3>7 DEF Downstream
    <3>10. PairsApart(freebp, FALSE, job.bp, reqs', pendR', resps')
      BY <3>3, <3>4, <3>7 DEF PairsApart, NotIn, Quiet
    <3>11. Upstream(0, nsub - Len(functors), FALSE, job, src, pendC, blobmem,
                    nfault)
      BY <3>1, <3>2, <3>4 DEF Line
    <3>12. /\ functors \in Seq(Task) /\ Len(functors) <= nsub
           /\ nsub - Len(functors) \in Nat
      <4>1. functors \in Seq(Task) /\ nsub \in Nat /\ Len(functors) <= nsub
        BY <1>2, Consts DEF Types, Blob
      <4> QED
        BY <4>1, Domains
    <3>13. /\ BlobsApart(pool, pendC, blobmem)
           /\ BlobsApart(pool, functors, blobmem)
           /\ IsInjective(pool)
           /\ \A n \in DOMAIN pool : pool[n] \in DOMAIN blobmem
           /\ \A n \in DOMAIN functors :
                /\ functors[n].name = nsub - Len(functors) + n
                /\ blobmem[functors[n].blob] = nsub - Len(functors) + n
      BY <1>2, <3>1 DEF Line, Blob
    <3>14. Blob' /\ Line'
      BY <1>2, <1>7, <3>5, <3>6, <3>7, <3>8, <3>9, <3>10, <3>11, <3>12, <3>13,
         TryStartLine
    <3>15. Types'
      BY <1>1, <1>2, <1>3, <1>5, <1>7, <3>6 DEF Types, Tried
    <3> QED
      BY <1>1, <2>1, <3>14, <3>15 DEF DInv
  <2>2. CASE ~compressed
    <3>1. Inline /\ pendC = <<>>
      BY <2>2 DEF DInv, Inline
    <3>2. /\ pendC' = pendC /\ freebp' = freebp /\ busy' = FALSE
          /\ engine' = "idle" /\ UNCHANGED <<src, job, pool, nfault>>
      BY <1>7, <3>1 DEF TryStart
    <3>3. Types'
      BY <1>1, <1>2, <1>3, <1>5, <1>7, <3>2 DEF Types
    <3>4. Blob' /\ Inline'
      BY <1>1, <1>2, <3>1, <3>2 DEF Blob, Inline
    <3> QED
      BY <1>1, <2>2, <3>3, <3>4 DEF DInv
  <2> QED
    BY <2>1, <2>2
<1>8. CASE /\ nfault < MaxFault /\ nfault' = nfault + 1
           /\ UNCHANGED <<conn, pool, busy, job, freebp, src, pendC, engine>>
  <2>1. /\ nfault \in Nat /\ nfault' \in Nat /\ nfault <= nfault'
        /\ nfault' \in 0 .. MaxFault
    BY <1>2, <1>8, Consts DEF Types
  <2>2. Types'
    BY <1>1, <1>2, <1>3, <1>5, <1>6, <1>8, <2>1 DEF Types
  <2>3. Blob'
    BY <1>1, <1>2, <1>8 DEF Blob
  <2>4. ASSUME compressed PROVE Line'
    <3>1. Line
      BY <2>4 DEF DInv
    <3>2. conn # "up"
      <4>1. SUFFICES ASSUME conn = "up" PROVE FALSE
        OBVIOUS
      <4>2. resps[1].type = "finish"
        BY <1>4, <3>1, <4>1 DEF Line, PairsApart
      <4> QED
        BY <1>3, <4>2
    <3>3. Quiet
      BY <3>1, <3>2 DEF Line
    <3>4. Upstream(0, nsub - Len(functors), busy, job, src, pendC, blobmem,
                   nfault')
      <4>1. Upstream(0, nsub - Len(functors), busy, job, src, pendC, blobmem,
                     nfault)
        BY <3>1, <3>2 DEF Line
      <4>2. \A name, k : Named(name, k, nfault) => Named(name, k, nfault')
        BY <2>1, NamedStays
      <4> QED
        BY <4>1, <4>2 DEF Upstream
    <3>5. Quiet'
      <4>1. Len(reqs') + Len(resps') <= 1
        <5>1. Len(reqs') = Len(reqs) /\ Len(reqs) + Len(resps) <= 1
          BY <1>1, <3>3 DEF Quiet
        <5> QED
          BY <1>4, <1>5, <5>1
      <4>2. \A n \in DOMAIN resps' : resps'[n].type = "mmap"
        BY <1>4, <3>3 DEF Quiet
      <4> QED
        BY <1>1, <1>8, <3>3, <4>1, <4>2 DEF Quiet
    <3> QED
      BY <1>1, <1>8, <3>1, <3>2, <3>4, <3>5 DEF Line
  <2>5. ASSUME ~compressed PROVE Inline'
    BY <1>1, <1>8, <2>5 DEF DInv, Inline
  <2> QED
    BY <1>1, <2>2, <2>3, <2>4, <2>5 DEF DInv
<1> QED
  BY <1>1, <1>7, <1>8

\* Which elements a sequence has that something was added to, or dropped from.
LEMMA AddedFacts ==
  ASSUME NEW S, NEW s \in Seq(S), NEW t \in Seq(S), NEW e, Added(s, e, t)
  PROVE  /\ Len(s) \in Nat /\ Len(t) = Len(s) + 1
         /\ Len(s) + 1 \in DOMAIN t /\ t[Len(s) + 1] = e
         /\ Len(s) + 1 \notin DOMAIN s
         /\ \A n \in DOMAIN s : n \in DOMAIN t /\ t[n] = s[n]
         /\ \A n \in DOMAIN t : (n \in DOMAIN s /\ t[n] = s[n])
                                  \/ (n = Len(s) + 1 /\ t[n] = e)
<1>1. /\ DOMAIN s = 1 .. Len(s) /\ DOMAIN t = 1 .. Len(t)
      /\ Len(s) \in Nat /\ Len(t) \in Nat
  BY Domains
<1>2. /\ Len(t) = Len(s) + 1 /\ t[Len(s) + 1] = e
      /\ \A n \in 1 .. Len(s) : t[n] = s[n]
  BY DEF Added
<1> QED
  BY <1>1, <1>2

\* And one whose first element is gone.
LEMMA DroppedFacts ==
  ASSUME NEW S, NEW s \in Seq(S), NEW t \in Seq(S), Dropped(s, t)
  PROVE  /\ Len(t) \in Nat /\ Len(s) = Len(t) + 1 /\ 1 \in DOMAIN s
         /\ \A n \in DOMAIN t : /\ n \in Nat /\ n + 1 \in DOMAIN s /\ n + 1 # 1
                                /\ t[n] = s[n + 1]
<1>1. /\ DOMAIN s = 1 .. Len(s) /\ DOMAIN t = 1 .. Len(t)
      /\ Len(s) \in Nat /\ Len(t) \in Nat
  BY Domains
<1>2. Len(s) = Len(t) + 1 /\ \A n \in 1 .. Len(t) : t[n] = s[n + 1]
  BY DEF Dropped
<1> QED
  BY <1>1, <1>2

\* A buffer pair that is not among some is not among fewer of them, nor among
\* those with another one.
LEMMA NotInFacts ==
  ASSUME NEW S, NEW s \in Seq(S), NEW t \in Seq(S), NEW bp, NotIn(bp, s)
  PROVE  /\ Dropped(s, t) => NotIn(bp, t)
         /\ \A e : Added(s, e, t) /\ e.bp # bp => NotIn(bp, t)
<1>1. ASSUME Dropped(s, t) PROVE NotIn(bp, t)
  BY <1>1, DroppedFacts DEF NotIn
<1>2. ASSUME NEW e, Added(s, e, t), e.bp # bp PROVE NotIn(bp, t)
  <2>1. \A n \in DOMAIN t : (n \in DOMAIN s /\ t[n] = s[n]) \/ t[n] = e
    BY <1>2, AddedFacts
  <2> QED
    BY <1>2, <2>1, Zenon DEF NotIn
<1> QED
  BY <1>1, <1>2

\* Segment number k + 1 is announced in a request, when none waits; or waits
\* behind the others.
LEMMA DownstreamSend ==
  ASSUME NEW o \in Seq(Result), NEW rs \in Seq(Request), NEW x \in Seq(Request),
         NEW ds, NEW nf, NEW e,
         Downstream(o, rs, <<>>, ds, nf), Added(rs, e, x), e.type = "finish",
         ds[e.bp] = Len(o) + Len(rs) + 1,
         Named(e.name, Len(o) + Len(rs) + 1, nf)
  PROVE  Downstream(o, x, <<>>, ds, nf)
<1>1. /\ Len(o) \in Nat /\ Len(rs) \in Nat /\ Len(x) = Len(rs) + 1
      /\ \A n \in DOMAIN x : (n \in DOMAIN rs /\ x[n] = rs[n])
                               \/ (n = Len(rs) + 1 /\ x[n] = e)
  BY AddedFacts, Domains
<1>2. Len(o) + Len(rs) + 1 = Len(o) + (Len(rs) + 1)
  BY <1>1
<1>3. \A n \in DOMAIN x : /\ x[n].type = "finish" /\ ds[x[n].bp] = Len(o) + n
                          /\ Named(x[n].name, Len(o) + n, nf)
  BY <1>1, <1>2, Zenon DEF Downstream
<1>4. \A n \in DOMAIN <<>> : FALSE
  OBVIOUS
<1> QED
  BY <1>3, <1>4 DEF Downstream

\* A finished job waits behind the announcements that wait already.
LEMMA DownstreamWait ==
  ASSUME NEW o \in Seq(Result), NEW rs \in Seq(Request), NEW pr \in Seq(Info),
         NEW x \in Seq(Info), NEW ds, NEW nf, NEW e,
         Downstream(o, rs, pr, ds, nf), Added(pr, e, x),
         ds[e.bp] = Len(o) + Len(rs) + (Len(pr) + 1),
         Named(e.name, Len(o) + Len(rs) + (Len(pr) + 1), nf)
  PROVE  Downstream(o, rs, x, ds, nf)
<1>1. \A n \in DOMAIN x : (n \in DOMAIN pr /\ x[n] = pr[n])
                            \/ (n = Len(pr) + 1 /\ x[n] = e)
  BY AddedFacts
<1>2. \A n \in DOMAIN x :
        /\ ds[x[n].bp] = Len(o) + Len(rs) + n
        /\ Named(x[n].name, Len(o) + Len(rs) + n, nf)
  BY <1>1, Zenon DEF Downstream
<1> QED
  BY <1>2 DEF Downstream

\* The oldest announcement that waits becomes the last request.
LEMMA DownstreamReuse ==
  ASSUME NEW o \in Seq(Result), NEW rs \in Seq(Request), NEW pr \in Seq(Info),
         NEW x \in Seq(Request), NEW y \in Seq(Info), NEW ds, NEW nf, NEW e,
         Downstream(o, rs, pr, ds, nf), Added(rs, e, x), Dropped(pr, y),
         e.type = "finish", e.bp = pr[1].bp, e.name = pr[1].name
  PROVE  /\ Downstream(o, x, y, ds, nf)
         /\ Len(o) + Len(x) + Len(y) = Len(o) + Len(rs) + Len(pr)
<1>1. /\ Len(o) \in Nat /\ Len(rs) \in Nat /\ Len(x) = Len(rs) + 1
      /\ \A n \in DOMAIN x : (n \in DOMAIN rs /\ x[n] = rs[n])
                               \/ (n = Len(rs) + 1 /\ x[n] = e)
  BY AddedFacts, Domains
<1>2. /\ Len(y) \in Nat /\ Len(pr) = Len(y) + 1 /\ 1 \in DOMAIN pr
      /\ \A n \in DOMAIN y :
           n \in Nat /\ n + 1 \in DOMAIN pr /\ y[n] = pr[n + 1]
  BY DroppedFacts
<1>3. /\ Len(o) + Len(rs) + 1 = Len(o) + (Len(rs) + 1)
      /\ \A n \in DOMAIN y :
           Len(o) + Len(rs) + (n + 1) = Len(o) + Len(x) + n
  BY <1>1, <1>2
<1>4. /\ ds[e.bp] = Len(o) + (Len(rs) + 1)
      /\ Named(e.name, Len(o) + (Len(rs) + 1), nf)
  BY <1>2, <1>3 DEF Downstream
<1>5. \A n \in DOMAIN x : /\ x[n].type = "finish" /\ ds[x[n].bp] = Len(o) + n
                          /\ Named(x[n].name, Len(o) + n, nf)
  BY <1>1, <1>4, Zenon DEF Downstream
<1>6. \A n \in DOMAIN y : /\ ds[y[n].bp] = Len(o) + Len(x) + n
                          /\ Named(y[n].name, Len(o) + Len(x) + n, nf)
  <2>1. \A n \in DOMAIN pr : /\ ds[pr[n].bp] = Len(o) + Len(rs) + n
                             /\ Named(pr[n].name, Len(o) + Len(rs) + n, nf)
    BY DEF Downstream
  <2>2. \A n \in DOMAIN y : /\ n + 1 \in DOMAIN pr /\ y[n] = pr[n + 1]
                            /\ Len(o) + Len(rs) + (n + 1) = Len(o) + Len(x) + n
    BY <1>2, <1>3, Zenon
  <2> QED
    BY <2>1, <2>2, Zenon
<1>7. \A n \in DOMAIN o : o[n].bytes = n /\ Named(o[n].name, n, nf)
  BY DEF Downstream
<1>8. Downstream(o, x, y, ds, nf)
  BY <1>5, <1>6, <1>7, Zenon DEF Downstream
<1>9. Len(o) + Len(x) + Len(y) = Len(o) + Len(rs) + Len(pr)
  BY <1>1, <1>2
<1> QED
  BY <1>8, <1>9

\* The host copies the oldest request's segment out.
LEMMA DownstreamCopy ==
  ASSUME NEW o \in Seq(Result), NEW rs \in Seq(Request), NEW pr \in Seq(Info),
         NEW x \in Seq(Request), NEW y \in Seq(Result), NEW ds, NEW nf, NEW e,
         Downstream(o, rs, pr, ds, nf), Added(o, e, y), Dropped(rs, x),
         e.bytes = ds[rs[1].bp], e.name = rs[1].name
  PROVE  /\ Downstream(y, x, pr, ds, nf)
         /\ Len(y) + Len(x) + Len(pr) = Len(o) + Len(rs) + Len(pr)
<1>1. /\ Len(o) \in Nat /\ Len(y) = Len(o) + 1
      /\ \A n \in DOMAIN y : (n \in DOMAIN o /\ y[n] = o[n])
                               \/ (n = Len(o) + 1 /\ y[n] = e)
  BY AddedFacts
<1>2. /\ Len(x) \in Nat /\ Len(rs) = Len(x) + 1 /\ 1 \in DOMAIN rs
      /\ \A n \in DOMAIN x :
           n \in Nat /\ n + 1 \in DOMAIN rs /\ x[n] = rs[n + 1]
      /\ Len(pr) \in Nat
  BY DroppedFacts, Domains
<1>3. /\ Len(y) + Len(x) = Len(o) + Len(rs)
      /\ \A n \in DOMAIN x : Len(o) + (n + 1) = Len(y) + n
  BY <1>1, <1>2
<1>4. e.bytes = Len(o) + 1 /\ Named(e.name, Len(o) + 1, nf)
  BY <1>2 DEF Downstream
<1>5. \A n \in DOMAIN y : y[n].bytes = n /\ Named(y[n].name, n, nf)
  BY <1>1, <1>4, Zenon DEF Downstream
<1>6. \A n \in DOMAIN x : /\ x[n].type = "finish" /\ ds[x[n].bp] = Len(y) + n
                          /\ Named(x[n].name, Len(y) + n, nf)
  <2>1. \A n \in DOMAIN rs : /\ rs[n].type = "finish"
                             /\ ds[rs[n].bp] = Len(o) + n
                             /\ Named(rs[n].name, Len(o) + n, nf)
    BY DEF Downstream
  <2>2. \A n \in DOMAIN x : /\ n + 1 \in DOMAIN rs /\ x[n] = rs[n + 1]
                            /\ Len(o) + (n + 1) = Len(y) + n
    BY <1>2, <1>3, Zenon
  <2> QED
    BY <2>1, <2>2, Zenon
<1>7. \A n \in DOMAIN pr : /\ ds[pr[n].bp] = Len(y) + Len(x) + n
                           /\ Named(pr[n].name, Len(y) + Len(x) + n, nf)
  BY <1>3, Zenon DEF Downstream
<1> QED
  BY <1>3, <1>5, <1>6, <1>7, Zenon DEF Downstream

\* What is known of the functors and the line in front of TryStart, when the
\* functors stay.
LEMMA LineFacts ==
  ASSUME Types, Blob, Line
  PROVE  /\ functors \in Seq(Task) /\ Len(functors) <= nsub
         /\ nsub - Len(functors) \in Nat
         /\ BlobsApart(pool, pendC, blobmem)
         /\ BlobsApart(pool, functors, blobmem)
         /\ IsInjective(pool)
         /\ \A n \in DOMAIN pool : pool[n] \in DOMAIN blobmem
         /\ \A n \in DOMAIN functors :
              /\ functors[n].name = nsub - Len(functors) + n
              /\ blobmem[functors[n].blob] = nsub - Len(functors) + n
         /\ pendC \in Seq(Task) /\ freebp \in Seq(BP)
         /\ \A n \in DOMAIN pendC : pendC[n].blob \in DOMAIN blobmem
         /\ Len(out) \in Nat /\ Len(reqs) \in Nat /\ Len(pendR) \in Nat
         /\ Announced \in Nat
<1>1. /\ functors \in Seq(Task) /\ nsub \in Nat /\ Len(functors) <= nsub
      /\ pendC \in Seq(Task) /\ freebp \in Seq(BP)
  BY Consts DEF Types, Blob
<1>2. nsub - Len(functors) \in Nat
  BY <1>1, Domains
<1>3. Len(out) \in Nat /\ Len(reqs) \in Nat /\ Len(pendR) \in Nat
  BY Domains DEF Types
<1>4. Announced \in Nat
  BY <1>3 DEF Announced
<1>5. /\ BlobsApart(pool, pendC, blobmem)
      /\ \A n \in DOMAIN pendC : pendC[n].blob \in DOMAIN blobmem
  BY DEF Line, BlobsApart
<1> QED
  BY <1>1, <1>2, <1>3, <1>4, <1>5 DEF Blob

\* An announcement is made, or waits.
LEMMA AnnounceOutcome ==
  ASSUME Types, Line, conn = "up", busy, engine = "done", Announce(job),
         UNCHANGED <<out, resps, dst>>
  PROVE  /\ Downstream(out', reqs', pendR', dst', nfault)
         /\ PairsApart(freebp, FALSE, job.bp, reqs', pendR', resps')
         /\ Announced' = Announced + 1 /\ reqs' \in Seq(Request)
         /\ pendR' \in Seq(Info) /\ (cfree' > 0 => pendR' = <<>>)
         /\ cfree' \in Nat /\ cfree' + Len(reqs') + Len(resps') = nbuf
<1>1. /\ out \in Seq(Result) /\ reqs \in Seq(Request) /\ pendR \in Seq(Info)
      /\ resps \in Seq(Response) /\ job.name \in Seg /\ job.bp \in BP
      /\ cfree \in Nat /\ cfree + Len(reqs) + Len(resps) = nbuf
      /\ job \in Info
  BY DEF Types, Info
<1>2. /\ Len(out) \in Nat /\ Len(reqs) \in Nat /\ Len(pendR) \in Nat
      /\ Len(resps) \in Nat
  BY <1>1, Domains
<1>3. /\ Downstream(out, reqs, pendR, dst, nfault)
      /\ PairsApart(freebp, TRUE, job.bp, reqs, pendR, resps)
      /\ cfree > 0 => pendR = <<>>
      /\ dst[job.bp] = Announced + 1 /\ Named(job.name, Announced + 1, nfault)
  <2>1. busy = TRUE
    BY DEF Types
  <2> QED
    BY <2>1 DEF Line, Upstream
<1>4. CASE cfree > 0
  <2> DEFINE e == FinishReq(job, 0)
  <2>1. reqs' = Append(reqs, e) /\ cfree' = cfree - 1 /\ pendR' = pendR
    BY <1>4 DEF Announce
  <2>2. /\ e \in Request /\ e.type = "finish" /\ e.name = job.name
        /\ e.bp = job.bp
    BY <1>1, FinishReqs, Consts
  <2> HIDE DEF e
  <2>3. reqs' \in Seq(Request) /\ Added(reqs, e, reqs')
    BY <1>1, <2>1, <2>2, AppendAdds
  <2>4. pendR = <<>> /\ Announced = Len(out) + Len(reqs)
    <3>1. pendR = <<>> /\ Len(pendR) = 0
      BY <1>3, <1>4
    <3> QED
      BY <1>2, <3>1 DEF Announced
  <2>5. Downstream(out, reqs', <<>>, dst, nfault)
    BY <1>1, <1>3, <2>2, <2>3, <2>4, DownstreamSend
  <2>6. Len(reqs') = Len(reqs) + 1
    BY <1>1, <2>3, AddedFacts
  <2>7. cfree' \in Nat /\ cfree' + Len(reqs') + Len(resps') = nbuf
    <3>1. Len(resps') = Len(resps)
      OBVIOUS
    <3> QED
      BY <1>1, <1>2, <1>4, <2>1, <2>6, <3>1
  <2>8. Announced' = Announced + 1
    <3>1. Len(out') = Len(out) /\ Len(pendR') = Len(pendR)
      BY <2>1
    <3> QED
      BY <1>2, <2>6, <3>1 DEF Announced
  <2>9. PairsApart(freebp, FALSE, job.bp, reqs', pendR, resps)
    <3>1. \A x : NotIn(x, reqs) /\ x # job.bp => NotIn(x, reqs')
      BY <1>1, <2>2, <2>3, NotInFacts
    <3> QED
      BY <1>3, <3>1 DEF PairsApart, NotIn
  <2> QED
    BY <1>1, <2>1, <2>3, <2>4, <2>5, <2>7, <2>8, <2>9
<1>5. CASE ~(cfree > 0)
  <2>1. pendR' = Append(pendR, job) /\ cfree' = cfree /\ reqs' = reqs
    BY <1>5 DEF Announce
  <2>2. pendR' \in Seq(Info) /\ Added(pendR, job, pendR')
    BY <1>1, <2>1, AppendAdds
  <2>3. Announced + 1 = Len(out) + Len(reqs) + (Len(pendR) + 1)
    BY <1>2 DEF Announced
  <2>4. Downstream(out, reqs, pendR', dst, nfault)
    BY <1>1, <1>3, <2>2, <2>3, DownstreamWait
  <2>5. Announced' = Announced + 1
    <3>1. /\ Len(out') = Len(out) /\ Len(reqs') = Len(reqs)
          /\ Len(pendR') = Len(pendR) + 1
      BY <1>1, <2>1, <2>2, AddedFacts
    <3> QED
      BY <1>2, <3>1 DEF Announced
  <2>6. PairsApart(freebp, FALSE, job.bp, reqs, pendR', resps)
    <3>1. \A x : NotIn(x, pendR) /\ x # job.bp => NotIn(x, pendR')
      BY <1>1, <2>2, NotInFacts
    <3> QED
      BY <1>3, <3>1 DEF PairsApart, NotIn
  <2> QED
    BY <1>1, <1>5, <2>1, <2>2, <2>4, <2>5, <2>6
<1> QED
  BY <1>4, <1>5

\* onDecompressTaskSuccess.
LEMMA OnDecompressTaskSuccessKeeps ==
  ASSUME DInv, OnDecompressTaskSuccess
  PROVE  DInv'
<1>1. /\ engine = "done" /\ event' = FALSE /\ pc' = "arm" /\ Announce(job)
      /\ TryStart(pendC, freebp)
      /\ UNCHANGED <<compressed, nbuf, nsub, blobmem, functors, conn, resps, dst,
                     armed, out>>
  BY DEF OnDecompressTaskSuccess
<1>2. Types /\ Blob /\ compressed /\ Line
  <2>1. compressed
    BY <1>1 DEF DInv, Inline
  <2> QED
    BY <2>1 DEF DInv
<1>3. busy = TRUE /\ conn = "up"
  BY <1>1, <1>2 DEF Types, Line, Quiet
<1>4. /\ Downstream(out', reqs', pendR', dst', nfault)
      /\ PairsApart(freebp, FALSE, job.bp, reqs', pendR', resps')
      /\ Announced' = Announced + 1 /\ reqs' \in Seq(Request)
      /\ pendR' \in Seq(Info) /\ (cfree' > 0 => pendR' = <<>>)
      /\ cfree' \in Nat /\ cfree' + Len(reqs') + Len(resps') = nbuf
  BY <1>1, <1>2, <1>3, AnnounceOutcome
<1> DEFINE l == nsub - Len(functors)
           k == Announced + 1
<1>5. Tried(pendC, freebp)
  BY <1>1, <1>2, LineFacts, TryStartOutcome
<1>6. Upstream(k, l, FALSE, job, src, pendC, blobmem, nfault)
  <2>1. Upstream(Announced, l, TRUE, job, src, pendC, blobmem, nfault)
    BY <1>2, <1>3 DEF Line
  <2>2. /\ l = Announced + 1 + Len(pendC)
        /\ \A n \in DOMAIN pendC :
             /\ blobmem[pendC[n].blob] = Announced + 1 + n
             /\ Named(pendC[n].name, Announced + 1 + n, nfault)
    BY <2>1 DEF Upstream
  <2>3. /\ pendC \in Seq(Task) /\ Len(pendC) \in Nat
        /\ DOMAIN pendC = 1 .. Len(pendC) /\ Announced \in Nat
    BY <1>2, LineFacts, Domains
  <2>4. /\ Announced + 1 + 0 + Len(pendC) = Announced + 1 + Len(pendC)
        /\ \A n \in DOMAIN pendC : Announced + 1 + 0 + n = Announced + 1 + n
    BY <2>3
  <2> HIDE DEF l
  <2> QED
    BY <2>2, <2>4 DEF Upstream
<1>7. /\ Announced' \in Nat /\ functors' = functors /\ nsub' = nsub
      /\ blobmem' = blobmem /\ conn' = "up" /\ event' \in BOOLEAN
      /\ pc' \in {"loop", "arm"}
      /\ UNCHANGED <<compressed, nbuf, resps, dst, armed, out>>
  <2>1. Announced \in Nat
    BY <1>2, LineFacts
  <2>2. Announced' \in Nat
    BY <1>4, <2>1
  <2> QED
    BY <1>1, <1>3, <2>2
<1>8. Blob' /\ Line'
  <2>1. /\ functors' \in Seq(Task) /\ Len(functors') <= nsub'
        /\ nsub' - Len(functors') \in Nat
        /\ \A n \in DOMAIN functors' :
             /\ functors'[n].name = nsub' - Len(functors') + n
             /\ blobmem[functors'[n].blob] = nsub' - Len(functors') + n
        /\ BlobsApart(pool, functors', blobmem)
    BY <1>2, <1>7, LineFacts
  <2>2. /\ BlobsApart(pool, pendC, blobmem)
        /\ IsInjective(pool)
        /\ \A n \in DOMAIN pool : pool[n] \in DOMAIN blobmem
        /\ pendC \in Seq(Task) /\ freebp \in Seq(BP)
    BY <1>2, LineFacts
  <2>3. Upstream(Announced', nsub' - Len(functors'), FALSE, job, src, pendC,
                 blobmem, nfault)
    BY <1>4, <1>6, <1>7
  <2> QED
    BY <1>2, <1>4, <1>5, <1>7, <2>1, <2>2, <2>3, TryStartLine
<1>9. Types'
  BY <1>2, <1>4, <1>5, <1>7 DEF Types, Tried
<1> QED
  BY <1>1, <1>2, <1>8, <1>9 DEF DInv

\* Arming the event handle.
LEMMA ArmKeeps ==
  ASSUME DInv, Arm
  PROVE  DInv'
<1>1. /\ pc' = "loop" /\ armed' \in BOOLEAN /\ event' \in BOOLEAN
      /\ UNCHANGED <<compressed, nbuf, nsub, pool, blobmem, functors, conn, pendR,
                     cfree, reqs, resps, dst, out, busy, job, freebp, src,
                     pendC, engine, nfault>>
  <2>1. event \in BOOLEAN
    BY DEF DInv, Types
  <2> QED
    BY <2>1 DEF Arm, memvars, jobvars
<1>2. Types'
  BY <1>1 DEF DInv, Types
<1>3. Blob'
  BY <1>1 DEF DInv, Blob
<1>4. ASSUME compressed PROVE Line'
  <2>1. Line
    BY <1>4 DEF DInv
  <2>2. Announced' = Announced
    BY <1>1 DEF Announced
  <2> QED
    BY <1>1, <2>1, <2>2 DEF Line, Quiet
<1>5. ASSUME ~compressed PROVE Inline'
  BY <1>1, <1>5 DEF DInv, Inline
<1> QED
  BY <1>1, <1>2, <1>3, <1>4, <1>5 DEF DInv

\* The accelerator writes into the job's buffer, and into no other one.
LEMMA EngineDoneWrites ==
  ASSUME DInv, EngineDone
  PROVE  /\ compressed /\ Line /\ busy /\ conn = "up"
         /\ NotIn(job.bp, reqs) /\ NotIn(job.bp, pendR)
         /\ \A x \in BP : x # job.bp => dst'[x] = dst[x]
         /\ dst' \in [BP -> Seg] /\ dst'[job.bp] = src[job.bp]
<1>1. engine = "running" /\ dst' = [dst EXCEPT ![job.bp] = src[job.bp]]
  BY DEF EngineDone
<1>2. Types /\ compressed /\ Line
  <2>1. compressed
    BY <1>1 DEF DInv, Inline
  <2> QED
    BY <2>1 DEF DInv
<1>3. busy /\ conn = "up"
  BY <1>1, <1>2 DEF Line, Quiet
<1>4. NotIn(job.bp, reqs) /\ NotIn(job.bp, pendR)
  BY <1>2, <1>3 DEF Line, PairsApart
<1>5. dst \in [BP -> Seg] /\ src \in [BP -> Seg] /\ job.bp \in BP
  BY <1>2 DEF Types
<1> QED
  BY <1>1, <1>2, <1>3, <1>4, <1>5

\* A job ends.
LEMMA EngineDoneKeeps ==
  ASSUME DInv, EngineDone
  PROVE  DInv'
<1>1. /\ engine' = "done" /\ event' \in BOOLEAN /\ armed' = FALSE
      /\ UNCHANGED <<compressed, nbuf, nsub, pool, blobmem, functors, conn, pendC,
                     pendR, cfree, reqs, resps, busy, job, freebp, src, pc, out,
                     nfault>>
  BY DEF EngineDone, memvars
<1>2. Types /\ Blob
  BY DEF DInv
<1>3. /\ compressed /\ Line /\ busy /\ conn = "up"
      /\ NotIn(job.bp, reqs) /\ NotIn(job.bp, pendR)
      /\ \A x \in BP : x # job.bp => dst'[x] = dst[x]
      /\ dst' \in [BP -> Seg] /\ dst'[job.bp] = src[job.bp]
  BY EngineDoneWrites
<1>4. Types'
  BY <1>1, <1>2, <1>3 DEF Types
<1>5. Blob'
  BY <1>1, <1>2 DEF Blob
<1>6. Downstream(out, reqs, pendR, dst', nfault)
  <2>1. Downstream(out, reqs, pendR, dst, nfault)
    BY <1>3 DEF Line
  <2>2. \A n \in DOMAIN reqs : dst'[reqs[n].bp] = dst[reqs[n].bp]
    <3>1. \A n \in DOMAIN reqs : reqs[n] \in Request /\ reqs[n].type = "finish"
      BY <1>2, <2>1, Domains DEF Types, Downstream
    <3> QED
      BY <1>3, <3>1, Records DEF NotIn
  <2>3. \A n \in DOMAIN pendR : dst'[pendR[n].bp] = dst[pendR[n].bp]
    <3>1. \A n \in DOMAIN pendR : pendR[n] \in Info
      BY <1>2, Domains DEF Types
    <3> QED
      BY <1>3, <3>1, Records DEF NotIn
  <2> QED
    BY <2>1, <2>2, <2>3 DEF Downstream
<1>7. Announced' = Announced
  BY <1>1 DEF Announced
<1>8. Line'
  BY <1>1, <1>3, <1>6, <1>7 DEF Line
<1> QED
  BY <1>1, <1>3, <1>4, <1>5, <1>8 DEF DInv

\* The send buffer of a response goes to an announcement that waits, or is
\* free.
LEMMA ReuseOutcome ==
  ASSUME Types, Line, conn = "up", ReuseOrRelease(0), NEW f, NEW x,
         UNCHANGED <<out, dst>>,
         PairsApart(f, busy, x, reqs, pendR, resps')
  PROVE  /\ Downstream(out', reqs', pendR', dst', nfault)
         /\ PairsApart(f, busy, x, reqs', pendR', resps')
         /\ Announced' = Announced /\ reqs' \in Seq(Request)
         /\ pendR' \in Seq(Info) /\ (cfree' > 0 => pendR' = <<>>)
         /\ cfree' \in Nat
         /\ cfree' + Len(reqs') = cfree + Len(reqs) + 1
<1>1. /\ out \in Seq(Result) /\ reqs \in Seq(Request) /\ pendR \in Seq(Info)
      /\ cfree \in Nat
      /\ Downstream(out, reqs, pendR, dst, nfault)
      /\ cfree > 0 => pendR = <<>>
  BY DEF Types, Line
<1>2. Len(out) \in Nat /\ Len(reqs) \in Nat /\ Len(pendR) \in Nat
  BY <1>1, Domains
<1>3. CASE pendR # <<>>
  <2> DEFINE e == FinishReq(Head(pendR), 0)
  <2>1. reqs' = Append(reqs, e) /\ pendR' = Tail(pendR) /\ cfree' = cfree
    BY <1>3 DEF ReuseOrRelease
  <2>2. /\ pendR' \in Seq(Info) /\ Dropped(pendR, pendR')
        /\ Head(pendR) = pendR[1] /\ pendR[1] \in Info
    BY <1>1, <1>3, <2>1, TailDrops
  <2>3. /\ e \in Request /\ e.type = "finish" /\ e.name = pendR[1].name
        /\ e.bp = pendR[1].bp
    BY <2>2, Records, FinishReqs, Consts
  <2> HIDE DEF e
  <2>4. reqs' \in Seq(Request) /\ Added(reqs, e, reqs')
    BY <1>1, <2>1, <2>3, AppendAdds
  <2>5. /\ Downstream(out, reqs', pendR', dst, nfault)
        /\ Len(out) + Len(reqs') + Len(pendR')
             = Len(out) + Len(reqs) + Len(pendR)
    <3>1. /\ out \in Seq(Result) /\ reqs \in Seq(Request)
          /\ pendR \in Seq(Info) /\ reqs' \in Seq(Request)
          /\ pendR' \in Seq(Info) /\ Downstream(out, reqs, pendR, dst, nfault)
          /\ Added(reqs, e, reqs') /\ Dropped(pendR, pendR')
          /\ e.type = "finish" /\ e.bp = pendR[1].bp
          /\ e.name = pendR[1].name
      BY <1>1, <2>2, <2>3, <2>4
    <3> QED
      BY ONLY <3>1, DownstreamReuse
  <2>6. Len(reqs') = Len(reqs) + 1 /\ cfree' = 0
    <3>1. Len(reqs') = Len(reqs) + 1
      BY <1>1, <2>4, AddedFacts
    <3> QED
      BY <1>1, <1>3, <2>1, <3>1
  <2>7. \A y : NotIn(y, reqs) /\ NotIn(y, pendR)
                 => NotIn(y, reqs') /\ NotIn(y, pendR')
    <3> SUFFICES ASSUME NEW y, NotIn(y, reqs), NotIn(y, pendR)
                 PROVE  NotIn(y, reqs') /\ NotIn(y, pendR')
      OBVIOUS
    <3>1. e.bp # y
      BY <1>1, <2>2, <2>3, DroppedFacts DEF NotIn
    <3>2. NotIn(y, reqs')
      BY <1>1, <2>4, <3>1, NotInFacts
    <3>3. NotIn(y, pendR')
      BY <1>1, <2>2, NotInFacts
    <3> QED
      BY <3>2, <3>3
  <2>8. PairsApart(f, busy, x, reqs', pendR', resps')
    BY <2>7 DEF PairsApart
  <2>9. Announced' = Announced
    BY <2>5 DEF Announced
  <2> QED
    BY <1>1, <1>2, <2>1, <2>2, <2>4, <2>5, <2>6, <2>8, <2>9
<1>4. CASE pendR = <<>>
  <2>1. reqs' = reqs /\ pendR' = pendR /\ cfree' = cfree + 1
    BY <1>4 DEF ReuseOrRelease
  <2>2. Announced' = Announced
    BY <2>1 DEF Announced
  <2>3. cfree' \in Nat /\ cfree' + Len(reqs') = cfree + Len(reqs) + 1
    BY <1>1, <1>2, <2>1
  <2> QED
    BY <1>1, <1>4, <2>1, <2>2, <2>3
<1> QED
  BY <1>3, <1>4

\* handleDecompressFinishResponse, compressed.
LEMMA OnFinishResponseKeeps ==
  ASSUME DInv, OnFinishResponse
  PROVE  DInv'
<1> DEFINE x == Head(resps).bp
           f == ReleaseFreeBufpair(freebp, x)
<1>1. /\ compressed /\ resps # <<>> /\ resps' = Tail(resps)
      /\ Head(resps).type = "finish" /\ ReuseOrRelease(0)
      /\ UNCHANGED <<compressed, nbuf, nsub, blobmem, functors, conn, dst, armed,
                     event, pc, out>>
      /\ \/ ~busy /\ TryStart(pendC, f)
         \/ /\ busy /\ freebp' = f
            /\ UNCHANGED <<busy, job, src, pendC, engine, nfault, pool>>
  BY DEF OnFinishResponse
<1>2. Types /\ Blob /\ Line
  BY <1>1 DEF DInv
<1>3. /\ resps' \in Seq(Response) /\ Dropped(resps, resps')
      /\ Head(resps) = resps[1] /\ resps[1] \in Response
      /\ resps \in Seq(Response)
  BY <1>1, <1>2, TailDrops DEF Types
<1>4. x = resps[1].bp /\ x \in BP
  BY <1>1, <1>3, Records
<1>5. conn = "up"
  <2>1. 1 \in DOMAIN resps
    BY <1>3, DroppedFacts
  <2> QED
    BY <1>1, <1>2, <1>3, <2>1 DEF Line, Quiet
<1>6. f \in Seq(BP) /\ Added(freebp, x, f)
  BY <1>2, <1>4, AppendAdds DEF Types, ReleaseFreeBufpair
<1> HIDE DEF f, x
<1>7. PairsApart(f, busy, job.bp, reqs, pendR, resps')
  <2>1. PairsApart(freebp, busy, job.bp, reqs, pendR, resps)
    BY <1>2, <1>5 DEF Line
  <2>2. /\ 1 \in DOMAIN resps
        /\ \A n \in DOMAIN resps' :
             n + 1 \in DOMAIN resps /\ n + 1 # 1 /\ resps'[n] = resps[n + 1]
        /\ \A n \in DOMAIN resps' : n \in Nat
    BY <1>3, DroppedFacts
  <2>3. /\ Len(freebp) + 1 \notin DOMAIN freebp
        /\ \A n \in DOMAIN f : (n \in DOMAIN freebp /\ f[n] = freebp[n])
                                 \/ (n = Len(freebp) + 1 /\ f[n] = x)
    <3>1. freebp \in Seq(BP)
      BY <1>2 DEF Types
    <3> QED
      BY <1>6, <3>1, AddedFacts
  <2>4. /\ NotIn(x, reqs) /\ NotIn(x, pendR) /\ NotIn(x, resps')
        /\ \A n \in DOMAIN freebp : freebp[n] # x
        /\ busy => job.bp # x
    <3>1. NotIn(x, reqs) /\ NotIn(x, pendR)
      BY <1>4, <2>1, <2>2, Zenon DEF PairsApart
    <3>2. NotIn(x, resps')
      <4>1. \A m, n \in DOMAIN resps : resps[m].bp = resps[n].bp => m = n
        BY <2>1 DEF PairsApart
      <4> QED
        BY <1>4, <2>2, <4>1, Zenon DEF NotIn
    <3>3. /\ \A n \in DOMAIN freebp : freebp[n] # x
          /\ busy => job.bp # x
      BY <1>4, <2>1, <2>2, Zenon DEF PairsApart, NotIn
    <3> QED
      BY <3>1, <3>2, <3>3
  <2>5. IsInjective(f)
    BY <2>1, <2>3, <2>4, Zenon DEF PairsApart, IsInjective
  <2>6. \A m, n \in DOMAIN resps' : resps'[m].bp = resps'[n].bp => m = n
    <3>1. \A m, n \in DOMAIN resps' : m + 1 = n + 1 => m = n
      BY <2>2
    <3>2. \A m, n \in DOMAIN resps : resps[m].bp = resps[n].bp => m = n
      BY <2>1 DEF PairsApart
    <3>3. \A n \in DOMAIN resps' :
            n + 1 \in DOMAIN resps /\ resps'[n] = resps[n + 1]
      BY <2>2
    <3> QED
      BY <3>1, <3>2, <3>3
  <2>7. \A y : NotIn(y, resps) => NotIn(y, resps')
    BY <1>3, NotInFacts
  <2>8. \A n \in DOMAIN f :
          NotIn(f[n], reqs) /\ NotIn(f[n], pendR) /\ NotIn(f[n], resps')
    BY <2>1, <2>3, <2>4, <2>7, Zenon DEF PairsApart
  <2>9. \A n \in DOMAIN resps' :
          /\ resps'[n].type = "finish" /\ NotIn(resps'[n].bp, reqs)
          /\ NotIn(resps'[n].bp, pendR)
    <3>1. \A n \in DOMAIN resps :
            /\ resps[n].type = "finish" /\ NotIn(resps[n].bp, reqs)
            /\ NotIn(resps[n].bp, pendR)
      BY <2>1 DEF PairsApart
    <3>2. \A n \in DOMAIN resps' :
            n + 1 \in DOMAIN resps /\ resps'[n] = resps[n + 1]
      BY <2>2
    <3> QED
      BY <3>1, <3>2, Zenon
  <2>10. busy => /\ NotIn(job.bp, reqs) /\ NotIn(job.bp, pendR)
                 /\ NotIn(job.bp, resps') /\ \A n \in DOMAIN f : f[n] # job.bp
    BY <2>1, <2>3, <2>4, <2>7, Zenon DEF PairsApart
  <2> QED
    BY <2>5, <2>6, <2>8, <2>9, <2>10 DEF PairsApart
<1>8. /\ Downstream(out', reqs', pendR', dst', nfault)
      /\ PairsApart(f, busy, job.bp, reqs', pendR', resps')
      /\ Announced' = Announced /\ reqs' \in Seq(Request)
      /\ pendR' \in Seq(Info) /\ (cfree' > 0 => pendR' = <<>>)
      /\ cfree' \in Nat
      /\ cfree' + Len(reqs') = cfree + Len(reqs) + 1
  BY <1>1, <1>2, <1>5, <1>7, ReuseOutcome
<1>9. cfree' + Len(reqs') + Len(resps') = nbuf
  <2>1. /\ Len(reqs) \in Nat /\ Len(reqs') \in Nat /\ Len(resps') \in Nat
        /\ Len(resps) = Len(resps') + 1 /\ cfree \in Nat
        /\ cfree + Len(reqs) + Len(resps) = nbuf
    BY <1>2, <1>3, <1>8, Domains, DroppedFacts DEF Types
  <2> QED
    BY <1>8, <2>1
<1>10. /\ functors' = functors /\ nsub' = nsub /\ blobmem' = blobmem
       /\ conn' = "up" /\ Announced' \in Nat
       /\ UNCHANGED <<compressed, nbuf, dst, armed, event, pc, out>>
  <2>1. Announced \in Nat
    BY <1>2, LineFacts
  <2>2. Announced' \in Nat
    BY <1>8, <2>1
  <2> QED
    BY <1>1, <1>5, <2>2
<1>11. CASE ~busy /\ TryStart(pendC, f)
  <2>1. busy = FALSE
    BY <1>2, <1>11 DEF Types
  <2>2. Tried(pendC, f)
    BY <1>2, <1>6, <1>11, LineFacts, TryStartOutcome
  <2>3. /\ functors' \in Seq(Task) /\ Len(functors') <= nsub'
        /\ nsub' - Len(functors') \in Nat
        /\ \A n \in DOMAIN functors' :
             /\ functors'[n].name = nsub' - Len(functors') + n
             /\ blobmem[functors'[n].blob] = nsub' - Len(functors') + n
        /\ BlobsApart(pool, functors', blobmem)
    BY <1>2, <1>10, LineFacts
  <2>4. /\ BlobsApart(pool, pendC, blobmem)
        /\ IsInjective(pool)
        /\ \A n \in DOMAIN pool : pool[n] \in DOMAIN blobmem
        /\ pendC \in Seq(Task)
    BY <1>2, LineFacts
  <2>5. Upstream(Announced', nsub' - Len(functors'), FALSE, job, src, pendC,
                 blobmem, nfault)
    <3>1. Upstream(Announced, nsub - Len(functors), FALSE, job, src, pendC,
                   blobmem, nfault)
      BY <1>2, <1>5, <2>1 DEF Line
    <3> QED
      BY <1>8, <1>10, <3>1
  <2>6. PairsApart(f, FALSE, job.bp, reqs', pendR', resps')
    BY <1>8, <2>1
  <2>7. Blob' /\ Line'
    BY <1>2, <1>6, <1>8, <1>10, <2>2, <2>3, <2>4, <2>5, <2>6, TryStartLine
  <2>8. Types'
    BY <1>2, <1>3, <1>8, <1>9, <1>10, <2>2 DEF Types, Tried
  <2> QED
    BY <1>1, <1>10, <2>7, <2>8 DEF DInv
<1>12. CASE /\ busy /\ freebp' = f
            /\ UNCHANGED <<busy, job, src, pendC, engine, nfault, pool>>
  <2>1. Types'
    BY <1>2, <1>3, <1>6, <1>8, <1>9, <1>10, <1>12 DEF Types
  <2>2. Blob'
    BY <1>2, <1>10, <1>12 DEF Blob
  <2>3. Line'
    BY <1>2, <1>5, <1>8, <1>10, <1>12 DEF Line
  <2> QED
    BY <1>1, <1>10, <2>1, <2>2, <2>3 DEF DInv
<1> QED
  BY <1>1, <1>11, <1>12

-----------------------------------------------------------------------------
(* The host, and segments that were stored uncompressed. *)

\* A request is taken off the line.
LEMMA RequestsDrop ==
  ASSUME NEW rs \in Seq(Request), NEW x \in Seq(Request), Dropped(rs, x),
         NEW o, NEW pr, NEW l, RequestsOnce(rs, o, pr, l)
  PROVE  RequestsOnce(x, o, pr, l)
<1>1. /\ \A n \in DOMAIN x :
           n \in Nat /\ n + 1 \in DOMAIN rs /\ x[n] = rs[n + 1]
      /\ \A m, n \in DOMAIN x : m + 1 = n + 1 => m = n
  BY DroppedFacts
<1>2. \A n \in Finish(x) :
        n \in DOMAIN x /\ n + 1 \in Finish(rs) /\ x[n] = rs[n + 1]
  BY <1>1, Zenon DEF Finish
<1>3. \A n \in Finish(x) : x[n].name = x[n].bytes /\ x[n].name \in 1 .. l
  BY <1>2 DEF RequestsOnce
<1>4. \A m, n \in Finish(x) : x[m].name = x[n].name => m = n
  <2>1. \A m, n \in Finish(rs) : rs[m].name = rs[n].name => m = n
    BY DEF RequestsOnce
  <2> QED
    BY <1>1, <1>2, <2>1
<1>5. \A m \in Finish(x) : /\ \A n \in DOMAIN o : x[m].name # o[n].name
                           /\ \A n \in DOMAIN pr : x[m].name # pr[n].name
  BY <1>2 DEF RequestsOnce
<1> QED
  BY <1>3, <1>4, <1>5 DEF RequestsOnce

\* A request is added whose segment is in none of the others, in no result
\* and does not wait.
LEMMA RequestsSend ==
  ASSUME NEW rs \in Seq(Request), NEW x \in Seq(Request), NEW e,
         Added(rs, e, x), NEW o, NEW pr, NEW l, RequestsOnce(rs, o, pr, l),
         e.name = e.bytes, e.name \in 1 .. l,
         \A n \in Finish(rs) : rs[n].name # e.name,
         \A n \in DOMAIN o : e.name # o[n].name,
         \A n \in DOMAIN pr : e.name # pr[n].name
  PROVE  RequestsOnce(x, o, pr, l)
<1>1. \A n \in DOMAIN x : (n \in DOMAIN rs /\ x[n] = rs[n])
                            \/ (n = Len(rs) + 1 /\ x[n] = e)
  BY AddedFacts
<1>2. \A n \in Finish(x) : (n \in Finish(rs) /\ x[n] = rs[n])
                             \/ (n = Len(rs) + 1 /\ x[n] = e)
  BY <1>1, Zenon DEF Finish
<1>3. \A n \in Finish(x) : x[n].name = x[n].bytes /\ x[n].name \in 1 .. l
  BY <1>2, Zenon DEF RequestsOnce
<1>4. \A m, n \in Finish(x) : x[m].name = x[n].name => m = n
  <2>1. \A m, n \in Finish(rs) : rs[m].name = rs[n].name => m = n
    BY DEF RequestsOnce
  <2> QED
    BY <1>2, <2>1
<1>5. \A m \in Finish(x) : /\ \A n \in DOMAIN o : x[m].name # o[n].name
                           /\ \A n \in DOMAIN pr : x[m].name # pr[n].name
  BY <1>2 DEF RequestsOnce
<1> QED
  BY <1>3, <1>4, <1>5 DEF RequestsOnce

\* The host copies the segment of the first request out.
LEMMA RequestsCopy ==
  ASSUME NEW rs \in Seq(Request), NEW x \in Seq(Request), Dropped(rs, x),
         NEW o \in Seq(Result), NEW y \in Seq(Result), NEW e, Added(o, e, y),
         NEW pr, NEW l, RequestsOnce(rs, o, pr, l), NamesOnce(o, l),
         NamesApart(o, pr), rs[1].type = "finish", e.name = rs[1].name
  PROVE  /\ RequestsOnce(x, y, pr, l) /\ NamesOnce(y, l) /\ NamesApart(y, pr)
<1>1. \A n \in DOMAIN y : (n \in DOMAIN o /\ y[n] = o[n])
                            \/ (n = Len(o) + 1 /\ y[n] = e)
  BY AddedFacts
<1>2. /\ \A n \in DOMAIN x :
           n + 1 \in DOMAIN rs /\ x[n] = rs[n + 1] /\ n + 1 # 1
      /\ 1 \in DOMAIN rs
  BY DroppedFacts
<1>3. /\ 1 \in Finish(rs)
      /\ \A n \in Finish(x) : n + 1 \in Finish(rs) /\ x[n] = rs[n + 1]
                                /\ n + 1 # 1
  BY <1>2, Zenon DEF Finish
<1>4. /\ e.name \in 1 .. l
      /\ \A n \in DOMAIN o : e.name # o[n].name
      /\ \A n \in DOMAIN pr : e.name # pr[n].name
  BY <1>3 DEF RequestsOnce
<1>5. \A n \in Finish(x) : x[n].name # e.name
  <2>1. \A m, n \in Finish(rs) : rs[m].name = rs[n].name => m = n
    BY DEF RequestsOnce
  <2> QED
    BY <1>3, <2>1, Zenon
<1>6. RequestsOnce(x, o, pr, l)
  BY RequestsDrop
<1>7. RequestsOnce(x, y, pr, l)
  <2>1. \A m \in Finish(x), n \in DOMAIN y : x[m].name # y[n].name
    BY <1>1, <1>5, <1>6 DEF RequestsOnce
  <2> QED
    BY <1>6, <2>1 DEF RequestsOnce
<1>8. NamesOnce(y, l)
  <2>1. \A n \in DOMAIN y : y[n].name \in 1 .. l
    BY <1>1, <1>4, Zenon DEF NamesOnce
  <2>2. \A m, n \in DOMAIN o : o[m].name = o[n].name => m = n
    BY DEF NamesOnce
  <2>3. \A m, n \in DOMAIN y : y[m].name = y[n].name => m = n
    BY <1>1, <1>4, <2>2
  <2> QED
    BY <2>1, <2>3 DEF NamesOnce
<1>9. NamesApart(y, pr)
  BY <1>1, <1>4, Zenon DEF NamesApart
<1> QED
  BY <1>7, <1>8, <1>9

\* The first of what waits goes away, or a new segment waits.
LEMMA WaitingDrop ==
  ASSUME NEW pr \in Seq(Info), NEW y \in Seq(Info), Dropped(pr, y), NEW l,
         NamesOnce(pr, l)
  PROVE  /\ NamesOnce(y, l) /\ \A n \in DOMAIN y : y[n].name # pr[1].name
         /\ \A o : NamesApart(o, pr) => NamesApart(o, y)
         /\ \A rs, o : RequestsOnce(rs, o, pr, l) => RequestsOnce(rs, o, y, l)
<1>1. /\ \A n \in DOMAIN y :
           /\ n \in Nat /\ n + 1 \in DOMAIN pr /\ n + 1 # 1
           /\ y[n] = pr[n + 1]
      /\ \A m, n \in DOMAIN y : m + 1 = n + 1 => m = n
      /\ 1 \in DOMAIN pr
  BY DroppedFacts
<1>2. /\ \A m, n \in DOMAIN pr : pr[m].name = pr[n].name => m = n
      /\ \A n \in DOMAIN pr : pr[n].name \in 1 .. l
  BY DEF NamesOnce
<1>3. NamesOnce(y, l)
  BY <1>1, <1>2 DEF NamesOnce
<1>4. \A n \in DOMAIN y : y[n].name # pr[1].name
  BY <1>1, <1>2, Zenon
<1>5. \A o : NamesApart(o, pr) => NamesApart(o, y)
  BY <1>1 DEF NamesApart
<1>6. \A rs, o : RequestsOnce(rs, o, pr, l) => RequestsOnce(rs, o, y, l)
  BY <1>1 DEF RequestsOnce
<1> QED
  BY <1>3, <1>4, <1>5, <1>6

\* The names of segments up to the l-th are among those up to the next.
LEMMA NamesMore ==
  ASSUME NEW l \in Nat
  PROVE  /\ \A s : NamesOnce(s, l) =>
              NamesOnce(s, l + 1) /\ \A n \in DOMAIN s : s[n].name # l + 1
         /\ \A rs, o, pr : RequestsOnce(rs, o, pr, l) =>
              /\ RequestsOnce(rs, o, pr, l + 1)
              /\ \A n \in Finish(rs) : rs[n].name # l + 1
<1>1. \A x \in 1 .. l : x \in 1 .. l + 1 /\ x # l + 1
  OBVIOUS
<1>2. \A s : NamesOnce(s, l) =>
        NamesOnce(s, l + 1) /\ \A n \in DOMAIN s : s[n].name # l + 1
  BY <1>1, Zenon DEF NamesOnce
<1>3. \A rs, o, pr : RequestsOnce(rs, o, pr, l) =>
        /\ RequestsOnce(rs, o, pr, l + 1)
        /\ \A n \in Finish(rs) : rs[n].name # l + 1
  BY <1>1, Zenon DEF RequestsOnce
<1> QED
  BY <1>2, <1>3

\* releaseBlob: the blob must not be in the pool, and nobody's any more.
LEMMA ReleaseApart ==
  ASSUME NEW p \in Seq(Nat), NEW t \in Seq(Nat), NEW b, Added(p, b, t),
         IsInjective(p), NEW mem, \A n \in DOMAIN p : p[n] \in DOMAIN mem,
         b \in DOMAIN mem, \A n \in DOMAIN p : p[n] # b
  PROVE  /\ IsInjective(t) /\ \A n \in DOMAIN t : t[n] \in DOMAIN mem
         /\ \A q : /\ BlobsApart(p, q, mem)
                   /\ \A n \in DOMAIN q : q[n].blob # b
                   => BlobsApart(t, q, mem)
<1>1. \A n \in DOMAIN t : (n \in DOMAIN p /\ t[n] = p[n])
                            \/ (n = Len(p) + 1 /\ t[n] = b)
  BY AddedFacts
<1>2. IsInjective(t)
  BY <1>1, Zenon DEF IsInjective
<1>3. \A n \in DOMAIN t : t[n] \in DOMAIN mem
  BY <1>1, Zenon
<1>4. ASSUME NEW q, BlobsApart(p, q, mem), \A n \in DOMAIN q : q[n].blob # b
      PROVE  BlobsApart(t, q, mem)
  BY <1>1, <1>4, Zenon DEF BlobsApart
<1> QED
  BY <1>2, <1>3, <1>4

\* handleMmapInfoRequest.
LEMMA HandleMmapInfoRequestKeeps ==
  ASSUME DInv, HandleMmapInfoRequest
  PROVE  DInv'
<1> DEFINE e == [type |-> "mmap"]
<1>1. /\ reqs # <<>> /\ Head(reqs).type = "mmap" /\ reqs' = Tail(reqs)
      /\ resps' = Append(resps, e)
      /\ UNCHANGED <<compressed, nbuf, nsub, pool, blobmem, functors, conn, pendR,
                     cfree, dst, armed, event, pc, out, busy, job, freebp, src,
                     pendC, engine, nfault>>
  BY DEF HandleMmapInfoRequest, memvars, jobvars
<1>2. Types /\ Blob /\ reqs \in Seq(Request) /\ resps \in Seq(Response)
  BY DEF DInv, Types
<1>3. e \in Response /\ e.type = "mmap"
  BY Records
<1> HIDE DEF e
<1>4. /\ reqs' \in Seq(Request) /\ Dropped(reqs, reqs')
      /\ reqs[1].type = "mmap"
      /\ resps' \in Seq(Response) /\ Added(resps, e, resps')
  BY <1>1, <1>2, <1>3, TailDrops, AppendAdds
<1>5. /\ Len(reqs') \in Nat /\ Len(reqs) = Len(reqs') + 1 /\ 1 \in DOMAIN reqs
      /\ \A n \in DOMAIN reqs' :
           n + 1 \in DOMAIN reqs /\ reqs'[n] = reqs[n + 1]
  BY <1>2, <1>4, DroppedFacts
<1>6. /\ Len(resps) \in Nat /\ Len(resps') = Len(resps) + 1
      /\ \A n \in DOMAIN resps' :
           (n \in DOMAIN resps /\ resps'[n] = resps[n]) \/ resps'[n] = e
  BY <1>2, <1>4, AddedFacts
<1>7. Types'
  <2>1. /\ cfree \in Nat /\ cfree + Len(reqs) + Len(resps) = nbuf
        /\ conn # "none"
    BY <1>1, <1>2 DEF Types
  <2>2. cfree' \in Nat /\ cfree' + Len(reqs') + Len(resps') = nbuf
    BY <1>1, <1>5, <1>6, <2>1
  <2> QED
    BY <1>1, <1>2, <1>4, <2>1, <2>2 DEF Types
<1>8. Blob'
  BY <1>1, <1>2 DEF Blob
<1>9. ASSUME compressed PROVE Line'
  <2>1. Line
    BY <1>9 DEF DInv
  <2>2. conn # "up"
    BY <1>4, <1>5, <2>1 DEF Line, Downstream
  <2>3. Quiet
    BY <2>1, <2>2 DEF Line
  <2>4. Len(reqs') + Len(resps') <= 1
    BY <1>5, <1>6, <2>3 DEF Quiet
  <2>5. /\ \A n \in DOMAIN reqs' : reqs'[n].type = "mmap"
        /\ \A n \in DOMAIN resps' : resps'[n].type = "mmap"
    BY <1>3, <1>5, <1>6, <2>3 DEF Quiet
  <2>6. Quiet'
    BY <1>1, <2>3, <2>4, <2>5 DEF Quiet
  <2> QED
    BY <1>1, <2>1, <2>2, <2>6 DEF Line
<1>10. ASSUME ~compressed PROVE Inline'
  <2>1. Inline
    BY <1>10 DEF DInv
  <2>2. RequestsOnce(reqs', out, pendR, nsub - Len(functors))
    BY <1>2, <1>4, <2>1, RequestsDrop DEF Inline
  <2> QED
    BY <1>1, <2>1, <2>2 DEF Inline
<1> QED
  BY <1>1, <1>7, <1>8, <1>9, <1>10 DEF DInv

\* The buffer pair of the first request goes to its response: no other
\* request and no announcement that waits has it, for its bytes are those of
\* another segment.
LEMMA PairsCopy ==
  ASSUME NEW o \in Seq(Result), NEW rs \in Seq(Request), NEW pr \in Seq(Info),
         NEW x \in Seq(Request), NEW rp \in Seq(Response),
         NEW y \in Seq(Response), NEW e, NEW ds, NEW nf, NEW f, NEW b, NEW bp,
         Downstream(o, rs, pr, ds, nf), PairsApart(f, b, bp, rs, pr, rp),
         Dropped(rs, x), Added(rp, e, y), e.type = "finish", e.bp = rs[1].bp
  PROVE  PairsApart(f, b, bp, x, pr, y)
<1>1. /\ 1 \in DOMAIN rs /\ Len(rs) \in Nat /\ Len(o) \in Nat
      /\ \A n \in DOMAIN x : /\ n \in Nat /\ n + 1 \in DOMAIN rs /\ n + 1 # 1
                             /\ x[n] = rs[n + 1]
  BY DroppedFacts, Domains
<1>2. \A n \in DOMAIN y : (n \in DOMAIN rp /\ y[n] = rp[n])
                            \/ (n = Len(rp) + 1 /\ y[n] = e)
  BY AddedFacts
<1>3. NotIn(e.bp, x)
  <2>1. /\ ds[e.bp] = Len(o) + 1
        /\ \A n \in DOMAIN x : ds[x[n].bp] = Len(o) + (n + 1)
    BY <1>1 DEF Downstream
  <2>2. \A n \in DOMAIN x : Len(o) + (n + 1) # Len(o) + 1
    <3>1. Len(o) \in Nat /\ \A n \in DOMAIN x : n \in Nat /\ n + 1 # 1
      BY <1>1
    <3> QED
      BY <3>1
  <2> QED
    BY <2>1, <2>2, Zenon DEF NotIn
<1>4. NotIn(e.bp, pr)
  <2>1. /\ ds[e.bp] = Len(o) + 1
        /\ \A n \in DOMAIN pr : ds[pr[n].bp] = Len(o) + Len(rs) + n
    BY <1>1 DEF Downstream
  <2>2. \A n \in DOMAIN pr : Len(o) + Len(rs) + n # Len(o) + 1
    <3>1. Len(rs) >= 1 /\ \A n \in DOMAIN pr : n \in Nat /\ n >= 1
      BY <1>1, Domains
    <3> QED
      BY <1>1, <3>1
  <2> QED
    BY <2>1, <2>2, Zenon DEF NotIn
<1>5. \A z : NotIn(z, rs) => NotIn(z, x) /\ z # e.bp
  <2> SUFFICES ASSUME NEW z, NotIn(z, rs) PROVE NotIn(z, x) /\ z # e.bp
    OBVIOUS
  <2> QED
    BY <1>1, NotInFacts DEF NotIn
<1>6. \A z : NotIn(z, rp) /\ z # e.bp => NotIn(z, y)
  BY NotInFacts
<1>7. \A m, n \in DOMAIN y : y[m].bp = y[n].bp => m = n
  <2>1. /\ \A m, n \in DOMAIN rp : rp[m].bp = rp[n].bp => m = n
        /\ \A n \in DOMAIN rp : rp[n].bp # e.bp
    BY <1>5 DEF PairsApart
  <2> QED
    BY <1>2, <2>1, Zenon
<1>8. \A n \in DOMAIN y :
        y[n].type = "finish" /\ NotIn(y[n].bp, x) /\ NotIn(y[n].bp, pr)
  <2>1. \A n \in DOMAIN rp :
          rp[n].type = "finish" /\ NotIn(rp[n].bp, x) /\ NotIn(rp[n].bp, pr)
    BY <1>5 DEF PairsApart
  <2> QED
    BY <1>2, <1>3, <1>4, <2>1, Zenon
<1>9. \A n \in DOMAIN f : NotIn(f[n], x) /\ NotIn(f[n], pr) /\ NotIn(f[n], y)
  BY <1>5, <1>6 DEF PairsApart
<1>10. b => /\ NotIn(bp, x) /\ NotIn(bp, pr) /\ NotIn(bp, y)
            /\ \A n \in DOMAIN f : f[n] # bp
  BY <1>5, <1>6 DEF PairsApart
<1> QED
  BY <1>7, <1>8, <1>9, <1>10 DEF PairsApart

\* handleDecompressFinishRequest.
LEMMA HandleDecompressFinishRequestKeeps ==
  ASSUME DInv, HandleDecompressFinishRequest
  PROVE  DInv'
<1> DEFINE r == [type |-> "finish", bp |-> Head(reqs).bp]
           e == [name |-> Head(reqs).name,
                 bytes |-> IF compressed THEN dst[Head(reqs).bp]
                                         ELSE Head(reqs).bytes]
<1>1. /\ reqs # <<>> /\ Head(reqs).type = "finish" /\ reqs' = Tail(reqs)
      /\ resps' = Append(resps, r) /\ out' = Append(out, e)
      /\ UNCHANGED <<compressed, nbuf, nsub, pool, blobmem, functors, conn, pendR,
                     cfree, dst, armed, event, pc, busy, job, freebp, src,
                     pendC, engine, nfault>>
  BY DEF HandleDecompressFinishRequest, memvars, jobvars
<1>2. /\ Types /\ Blob /\ reqs \in Seq(Request) /\ resps \in Seq(Response)
      /\ out \in Seq(Result) /\ dst \in [BP -> Seg] /\ pendR \in Seq(Info)
      /\ compressed \in BOOLEAN
  BY DEF DInv, Types
<1>3. /\ reqs' \in Seq(Request) /\ Dropped(reqs, reqs')
      /\ Head(reqs) = reqs[1] /\ reqs[1].type = "finish"
      /\ reqs[1] \in Request
  BY <1>1, <1>2, TailDrops
<1>4. reqs[1].name \in Seg /\ reqs[1].bp \in BP /\ reqs[1].bytes \in Seg
  BY <1>3, Records
<1>5. r \in Response /\ r.type = "finish" /\ r.bp = reqs[1].bp
  BY <1>3, <1>4 DEF Response
<1>6. /\ e \in Result /\ e.name = reqs[1].name
      /\ compressed => e.bytes = dst[reqs[1].bp]
      /\ ~compressed => e.bytes = reqs[1].bytes
  BY <1>2, <1>3, <1>4 DEF Result
<1> HIDE DEF r, e
<1>7. /\ resps' \in Seq(Response) /\ Added(resps, r, resps')
      /\ out' \in Seq(Result) /\ Added(out, e, out')
  BY <1>1, <1>2, <1>5, <1>6, AppendAdds
<1>8. /\ Len(reqs') \in Nat /\ Len(reqs) = Len(reqs') + 1 /\ 1 \in DOMAIN reqs
      /\ Len(resps) \in Nat /\ Len(resps') = Len(resps) + 1
  BY <1>2, <1>3, <1>7, DroppedFacts, AddedFacts
<1>9. Types'
  <2>1. /\ cfree \in Nat /\ cfree + Len(reqs) + Len(resps) = nbuf
        /\ conn # "none"
    BY <1>1, <1>2 DEF Types
  <2>2. cfree' \in Nat /\ cfree' + Len(reqs') + Len(resps') = nbuf
    BY <1>1, <1>8, <2>1
  <2> QED
    BY <1>1, <1>2, <1>3, <1>7, <2>1, <2>2 DEF Types
<1>10. Blob'
  BY <1>1, <1>2 DEF Blob
<1>11. ASSUME compressed PROVE Line'
  <2>1. Line
    BY <1>11 DEF DInv
  <2>2. conn = "up"
    BY <1>3, <1>8, <2>1 DEF Line, Quiet
  <2>3. /\ Downstream(out, reqs, pendR, dst, nfault)
        /\ PairsApart(freebp, busy, job.bp, reqs, pendR, resps)
    BY <2>1, <2>2 DEF Line
  <2>4. e.bytes = dst[reqs[1].bp] /\ e.name = reqs[1].name
    BY <1>6, <1>11
  <2>5. /\ Downstream(out', reqs', pendR, dst, nfault)
        /\ Len(out') + Len(reqs') + Len(pendR)
             = Len(out) + Len(reqs) + Len(pendR)
    BY <1>2, <1>3, <1>7, <2>3, <2>4, DownstreamCopy
  <2>6. PairsApart(freebp, busy, job.bp, reqs', pendR, resps')
    BY <1>2, <1>3, <1>5, <1>7, <2>3, PairsCopy
  <2>7. Announced' = Announced
    BY <1>1, <2>5 DEF Announced
  <2> QED
    BY <1>1, <2>1, <2>2, <2>5, <2>6, <2>7 DEF Line
<1>12. ASSUME ~compressed PROVE Inline'
  <2> DEFINE l == nsub - Len(functors)
  <2>1. Inline
    BY <1>12 DEF DInv
  <2>2. /\ RequestsOnce(reqs, out, pendR, l) /\ NamesOnce(out, l)
        /\ NamesApart(out, pendR)
    BY <2>1 DEF Inline
  <2> HIDE DEF l
  <2>3. /\ RequestsOnce(reqs', out', pendR, l) /\ NamesOnce(out', l)
        /\ NamesApart(out', pendR)
    BY <1>2, <1>3, <1>6, <1>7, <2>2, RequestsCopy
  <2>4. e.name = e.bytes
    <3>1. 1 \in Finish(reqs)
      BY <1>3, <1>8 DEF Finish
    <3> QED
      BY <1>6, <1>12, <2>2, <3>1 DEF RequestsOnce
  <2>5. \A n \in DOMAIN out' : out'[n].name = out'[n].bytes
    <3>1. \A n \in DOMAIN out' : (n \in DOMAIN out /\ out'[n] = out[n])
                                   \/ (n = Len(out) + 1 /\ out'[n] = e)
      BY <1>2, <1>7, AddedFacts
    <3> QED
      BY <2>1, <2>4, <3>1 DEF Inline
  <2> QED
    BY <1>1, <2>1, <2>3, <2>5 DEF Inline, l
<1> QED
  BY <1>1, <1>9, <1>10, <1>11, <1>12 DEF DInv

\* What is known of the segments stored uncompressed, in one place.
LEMMA InlineFacts ==
  ASSUME DInv, ~compressed
  PROVE  /\ Types /\ Blob /\ Inline
         /\ pool \in Seq(Nat) /\ functors \in Seq(Task) /\ pendR \in Seq(Info)
         /\ reqs \in Seq(Request) /\ resps \in Seq(Response)
         /\ Len(functors) \in Nat /\ Len(reqs) \in Nat /\ Len(resps) \in Nat
         /\ cfree \in Nat /\ cfree + Len(reqs) + Len(resps) = nbuf
         /\ nsub - Len(functors) \in Nat
         /\ IsInjective(pool)
         /\ \A n \in DOMAIN pool : pool[n] \in DOMAIN blobmem
         /\ BlobsApart(pool, functors, blobmem)
         /\ BlobsApart(pool, pendR, blobmem)
         /\ \A n \in DOMAIN functors :
              /\ functors[n].name = nsub - Len(functors) + n
              /\ blobmem[functors[n].blob] = nsub - Len(functors) + n
         /\ \A n \in DOMAIN pendR :
              /\ blobmem[pendR[n].blob] = pendR[n].name
              /\ pendR[n].name \in 1 .. nsub - Len(functors)
              /\ pendR[n].blob \in Nat
<1>1. Types /\ Blob /\ Inline
  BY DEF DInv
<1>2. /\ pool \in Seq(Nat) /\ functors \in Seq(Task) /\ pendR \in Seq(Info)
      /\ reqs \in Seq(Request) /\ resps \in Seq(Response)
      /\ cfree \in Nat /\ cfree + Len(reqs) + Len(resps) = nbuf
      /\ nsub \in Nat
  BY <1>1, Consts DEF Types
<1>3. Len(functors) \in Nat /\ Len(reqs) \in Nat /\ Len(resps) \in Nat
  BY <1>2, Domains
<1>4. nsub - Len(functors) \in Nat
  BY <1>1, <1>2, <1>3 DEF Blob
<1>5. \A n \in DOMAIN pendR :
        /\ blobmem[pendR[n].blob] = pendR[n].name
        /\ pendR[n].name \in 1 .. nsub - Len(functors)
        /\ pendR[n].blob \in Nat
  BY <1>1 DEF Inline, NamesOnce
<1>6. BlobsApart(pool, pendR, blobmem)
  BY <1>1 DEF Inline
<1> QED
  BY <1>1, <1>2, <1>3, <1>4, <1>5, <1>6 DEF Blob

\* submitDecompressTask's functor, uncompressed.
LEMMA RunSubmitInlineKeeps ==
  ASSUME DInv, RunSubmitInline
  PROVE  DInv'
<1> DEFINE h == Head(functors)
           info == [name |-> h.name, bp |-> 0, blob |-> h.blob]
           l == nsub - Len(functors)
<1>1. /\ ~compressed /\ functors # <<>>
      /\ functors' = Tail(functors)
      /\ \/ conn = "none" /\ conn' = "crash" /\ UNCHANGED <<pendR, cfree, reqs, pool>>
         \/ /\ cfree = 0 /\ pendR' = Append(pendR, info)
            /\ UNCHANGED <<cfree, reqs, pool>>
            /\ conn # "none" /\ conn' = conn
         \/ /\ cfree > 0 /\ cfree' = cfree - 1
            /\ reqs' = Append(reqs, FinishReq(info, blobmem[h.blob]))
            /\ pool' = Append(pool, h.blob) /\ UNCHANGED pendR
            /\ conn # "none" /\ conn' = conn
      /\ UNCHANGED <<compressed, nbuf, nsub, blobmem, resps, dst, armed, event,
                     pc, out, busy, job, freebp, src, pendC, engine, nfault>>
  BY DEF RunSubmitInline, ReleaseBlob, jobvars
<1>2. /\ Types /\ Blob /\ Inline
      /\ pool \in Seq(Nat) /\ functors \in Seq(Task) /\ pendR \in Seq(Info)
      /\ reqs \in Seq(Request)
      /\ Len(functors) \in Nat /\ Len(reqs) \in Nat /\ Len(resps) \in Nat
      /\ cfree \in Nat /\ cfree + Len(reqs) + Len(resps) = nbuf /\ l \in Nat
      /\ IsInjective(pool) /\ \A n \in DOMAIN pool : pool[n] \in DOMAIN blobmem
      /\ BlobsApart(pool, functors, blobmem)
      /\ BlobsApart(pool, pendR, blobmem)
  BY <1>1, InlineFacts
<1>3. /\ \A n \in DOMAIN functors :
           functors[n].name = l + n /\ blobmem[functors[n].blob] = l + n
      /\ \A n \in DOMAIN pendR :
           /\ blobmem[pendR[n].blob] = pendR[n].name
           /\ pendR[n].name \in 1 .. l
  BY <1>1, InlineFacts
<1>4. /\ functors' \in Seq(Task) /\ Dropped(functors, functors')
      /\ h = functors[1] /\ h \in Task /\ h.blob \in Nat /\ h.name \in Seg
  BY <1>1, <1>2, TailDrops, Records
<1>5. /\ 1 \in DOMAIN functors /\ Len(functors) = Len(functors') + 1
      /\ Len(functors') \in Nat
      /\ \A n \in DOMAIN functors' :
           /\ n \in Nat /\ n + 1 \in DOMAIN functors /\ n + 1 # 1
           /\ functors'[n] = functors[n + 1]
  BY <1>2, <1>4, DroppedFacts
<1>6. /\ h.name = l + 1 /\ blobmem[h.blob] = l + 1
      /\ h.blob \in DOMAIN blobmem /\ \A n \in DOMAIN pool : pool[n] # h.blob
  <2>1. h.name = l + 1 /\ blobmem[h.blob] = l + 1
    BY <1>3, <1>4, <1>5
  <2>2. BlobsApart(pool, functors, blobmem)
    BY <1>2
  <2>3. /\ h.blob \in DOMAIN blobmem
        /\ \A n \in DOMAIN pool : pool[n] # h.blob
    BY <1>4, <1>5, <2>2 DEF BlobsApart
  <2> QED
    BY <2>1, <2>3
<1>7. /\ info \in Info /\ info.name = l + 1 /\ info.blob = h.blob
      /\ info.bp \in BP /\ info \in [name : Seg, bp : BP, blob : Nat]
      /\ info.name \in Seg
  <2>1. 0 \in BP
    BY DecompressAssumption DEF BP
  <2> QED
    BY <1>4, <1>6, <2>1 DEF Info
<1> HIDE DEF h, info
<1>8. /\ nsub' - Len(functors') = l + 1 /\ Len(functors') <= nsub'
      /\ nsub' = nsub
  <2>1. nsub \in Nat /\ Len(functors) <= nsub /\ nsub' = nsub
    BY <1>1, <1>2, Consts DEF Types, Blob
  <2>2. Len(functors) = Len(functors') + 1 /\ Len(functors') \in Nat
    BY <1>5
  <2> QED
    BY <2>1, <2>2
<1>9. \A n \in DOMAIN functors' :
        /\ functors'[n].name = l + 1 + n
        /\ blobmem[functors'[n].blob] = l + 1 + n
        /\ functors'[n].blob # h.blob
  <2>1. l \in Nat /\ \A n \in DOMAIN functors' : n \in Nat /\ n + 1 # 1
    BY <1>2, <1>5
  <2>2. \A n \in DOMAIN functors' :
          n + 1 \in DOMAIN functors /\ functors'[n] = functors[n + 1]
    BY <1>5
  <2> HIDE DEF l
  <2>3. \A n \in DOMAIN functors' : l + (n + 1) = l + 1 + n /\ l + 1 + n # l + 1
    BY <2>1
  <2> QED
    BY <1>3, <1>6, <2>2, <2>3
<1>10. BlobsApart(pool, functors', blobmem)
  <2>1. BlobsApart(pool, functors, blobmem)
    BY <1>2
  <2>2. \A n \in DOMAIN functors' :
          n + 1 \in DOMAIN functors /\ functors'[n] = functors[n + 1]
    BY <1>5
  <2> QED
    BY <2>1, <2>2, Zenon DEF BlobsApart
<1>11. /\ NamesOnce(out, l) /\ NamesOnce(pendR, l) /\ NamesApart(out, pendR)
       /\ RequestsOnce(reqs, out, pendR, l)
  BY <1>2 DEF Inline
<1> HIDE DEF l
<1>12. /\ NamesOnce(out, l + 1) /\ NamesOnce(pendR, l + 1)
       /\ RequestsOnce(reqs, out, pendR, l + 1)
       /\ \A n \in DOMAIN out : out[n].name # l + 1
       /\ \A n \in DOMAIN pendR : pendR[n].name # l + 1
       /\ \A n \in Finish(reqs) : reqs[n].name # l + 1
  BY <1>2, <1>11, NamesMore
<1>13. l + 1 \in 1 .. l + 1
  BY <1>2
<1>13a. CASE conn = "none" /\ conn' = "crash" /\ UNCHANGED <<pendR, cfree, reqs, pool>>
  <2>1. Types'
    BY <1>1, <1>2, <1>4, <1>13a DEF Types
  <2>2. Blob'
    BY <1>1, <1>2, <1>8, <1>9, <1>10, <1>13a DEF Blob
  <2>3. Inline'
    BY <1>1, <1>2, <1>8, <1>11, <1>12, <1>13a DEF Inline
  <2> QED
    BY <1>1, <2>1, <2>2, <2>3 DEF DInv
<1>14. CASE /\ cfree = 0 /\ pendR' = Append(pendR, info)
            /\ UNCHANGED <<cfree, reqs, pool>>
            /\ conn # "none" /\ conn' = conn
  <2>1. pendR' \in Seq(Info) /\ Added(pendR, info, pendR')
    BY <1>2, <1>7, <1>14, AppendAdds
  <2>2. \A n \in DOMAIN pendR' : (n \in DOMAIN pendR /\ pendR'[n] = pendR[n])
                                   \/ (n = Len(pendR) + 1 /\ pendR'[n] = info)
    BY <1>2, <2>1, AddedFacts
  <2>3. Types'
    BY <1>1, <1>2, <1>4, <1>14, <2>1 DEF Types
  <2>4. Blob'
    BY <1>1, <1>2, <1>8, <1>9, <1>10, <1>14 DEF Blob
  <2>5. \A n \in DOMAIN pendR' :
          /\ pendR'[n] \in [name : Seg, bp : BP, blob : Nat]
          /\ blobmem[pendR'[n].blob] = pendR'[n].name
    <3>1. \A n \in DOMAIN pendR : pendR[n] \in [name : Seg, bp : BP, blob : Nat]
      BY <1>2 DEF Inline
    <3> QED
      BY <1>3, <1>6, <1>7, <2>2, <3>1, Zenon
  <2>6. BlobsApart(pool, pendR', blobmem)
    BY <1>2, <1>6, <1>7, <2>2, Zenon DEF BlobsApart
  <2>7. NamesOnce(pendR', l + 1)
    <3>1. \A n \in DOMAIN pendR' : pendR'[n].name \in 1 .. l + 1
      BY <1>7, <1>12, <1>13, <2>2, Zenon DEF NamesOnce
    <3>2. \A m, n \in DOMAIN pendR : pendR[m].name = pendR[n].name => m = n
      BY <1>12 DEF NamesOnce
    <3>3. \A m, n \in DOMAIN pendR' : pendR'[m].name = pendR'[n].name => m = n
      BY <1>7, <1>12, <2>2, <3>2
    <3> QED
      BY <3>1, <3>3 DEF NamesOnce
  <2>8. NamesApart(out, pendR')
    BY <1>7, <1>11, <1>12, <2>2, Zenon DEF NamesApart
  <2>9. RequestsOnce(reqs, out, pendR', l + 1)
    <3>1. \A m \in Finish(reqs), n \in DOMAIN pendR' :
            reqs[m].name # pendR'[n].name
      BY <1>7, <1>12, <2>2 DEF RequestsOnce
    <3> QED
      BY <1>12, <3>1 DEF RequestsOnce
  <2>10. Inline'
    BY <1>1, <1>2, <1>8, <1>12, <1>14, <2>5, <2>6, <2>7, <2>8, <2>9 DEF Inline
  <2> QED
    BY <1>1, <2>3, <2>4, <2>10 DEF DInv
<1>15. CASE /\ cfree > 0 /\ cfree' = cfree - 1
            /\ reqs' = Append(reqs, FinishReq(info, blobmem[h.blob]))
            /\ pool' = Append(pool, h.blob) /\ UNCHANGED pendR
            /\ conn # "none" /\ conn' = conn
  <2> DEFINE e == FinishReq(info, blobmem[h.blob])
  <2>1. /\ e \in Request /\ e.name = l + 1 /\ e.bytes = l + 1
    <3>1. blobmem[h.blob] \in Seg
      BY <1>4, <1>6
    <3> QED
      BY <1>6, <1>7, <3>1, FinishReqs
  <2> HIDE DEF e
  <2>2. /\ reqs' \in Seq(Request) /\ Added(reqs, e, reqs')
        /\ pool' \in Seq(Nat) /\ Added(pool, h.blob, pool')
    BY <1>2, <1>4, <1>15, <2>1, AppendAdds DEF e
  <2>3. cfree' \in Nat /\ cfree' + Len(reqs') + Len(resps') = nbuf
    <3>1. Len(reqs') = Len(reqs) + 1
      BY <1>2, <2>2, AddedFacts
    <3>2. Len(resps') = Len(resps)
      BY <1>1
    <3> QED
      BY <1>2, <1>15, <3>1, <3>2
  <2>4. Types'
    BY <1>1, <1>2, <1>4, <1>15, <2>2, <2>3 DEF Types
  <2>5. /\ IsInjective(pool')
        /\ \A n \in DOMAIN pool' : pool'[n] \in DOMAIN blobmem
        /\ \A q : /\ BlobsApart(pool, q, blobmem)
                  /\ \A n \in DOMAIN q : q[n].blob # h.blob
                  => BlobsApart(pool', q, blobmem)
    BY <1>2, <1>6, <2>2, ReleaseApart
  <2>6. BlobsApart(pool', functors', blobmem)
    BY <1>9, <1>10, <2>5
  <2>7. BlobsApart(pool', pendR, blobmem)
    <3>1. \A n \in DOMAIN pendR : pendR[n].blob # h.blob
      BY <1>3, <1>6, <1>12, Zenon
    <3> QED
      BY <1>2, <2>5, <3>1
  <2>8. Blob'
    <3>1. /\ Len(functors') <= nsub' /\ blobmem' = blobmem
          /\ \A n \in DOMAIN functors' :
               /\ functors'[n].name = nsub' - Len(functors') + n
               /\ blobmem[functors'[n].blob] = nsub' - Len(functors') + n
      BY <1>1, <1>8, <1>9
    <3>2. /\ IsInjective(pool')
          /\ \A n \in DOMAIN pool' : pool'[n] \in DOMAIN blobmem
      BY <2>5
    <3> QED
      BY <2>6, <3>1, <3>2 DEF Blob
  <2>9. RequestsOnce(reqs', out, pendR, l + 1)
    <3>1. /\ reqs \in Seq(Request) /\ reqs' \in Seq(Request)
          /\ Added(reqs, e, reqs') /\ RequestsOnce(reqs, out, pendR, l + 1)
          /\ e.name = e.bytes /\ e.name \in 1 .. l + 1
      BY <1>2, <1>12, <1>13, <2>1, <2>2
    <3>2. /\ \A n \in Finish(reqs) : reqs[n].name # e.name
          /\ \A n \in DOMAIN out : e.name # out[n].name
          /\ \A n \in DOMAIN pendR : e.name # pendR[n].name
      BY <1>12, <2>1
    <3> QED
      BY ONLY <3>1, <3>2, RequestsSend
  <2>10. Inline'
    BY <1>1, <1>2, <1>8, <1>11, <1>12, <1>15, <2>7, <2>9 DEF Inline
  <2> QED
    BY <1>1, <2>4, <2>8, <2>10 DEF DInv
<1> QED
  BY <1>1, <1>13a, <1>14, <1>15

\* handleDecompressFinishResponse, uncompressed.
LEMMA OnFinishResponseInlineKeeps ==
  ASSUME DInv, OnFinishResponseInline
  PROVE  DInv'
<1> DEFINE l == nsub - Len(functors)
           h == Head(pendR)
<1>1. /\ ~compressed /\ resps # <<>> /\ resps' = Tail(resps)
      /\ UNCHANGED <<compressed, nbuf, nsub, blobmem, functors, conn, dst, armed,
                     event, pc, out, busy, job, freebp, src, pendC, engine,
                     nfault>>
      /\ \/ /\ pendR # <<>> /\ pendR' = Tail(pendR) /\ cfree' = cfree
            /\ reqs' = Append(reqs, FinishReq(h, blobmem[h.blob]))
            /\ pool' = Append(pool, h.blob)
         \/ /\ pendR = <<>> /\ cfree' = cfree + 1
            /\ UNCHANGED <<reqs, pendR, pool>>
  BY DEF OnFinishResponseInline, ReuseOrRelease, ReleaseBlob, jobvars
<1>2. /\ Types /\ Blob /\ Inline
      /\ pool \in Seq(Nat) /\ functors \in Seq(Task) /\ pendR \in Seq(Info)
      /\ reqs \in Seq(Request) /\ resps \in Seq(Response)
      /\ Len(functors) \in Nat /\ Len(reqs) \in Nat /\ Len(resps) \in Nat
      /\ cfree \in Nat /\ cfree + Len(reqs) + Len(resps) = nbuf /\ l \in Nat
      /\ IsInjective(pool) /\ \A n \in DOMAIN pool : pool[n] \in DOMAIN blobmem
      /\ BlobsApart(pool, functors, blobmem)
      /\ BlobsApart(pool, pendR, blobmem)
  BY <1>1, InlineFacts
<1>3. /\ \A n \in DOMAIN functors : blobmem[functors[n].blob] = l + n
      /\ \A n \in DOMAIN pendR :
           /\ blobmem[pendR[n].blob] = pendR[n].name
           /\ pendR[n].name \in 1 .. l
           /\ pendR[n].blob \in Nat
  BY <1>1, InlineFacts
<1>4. /\ resps' \in Seq(Response) /\ Len(resps) = Len(resps') + 1
      /\ Len(resps') \in Nat /\ conn # "none"
  <2>1. resps' \in Seq(Response) /\ Dropped(resps, resps')
    BY <1>1, <1>2, TailDrops
  <2>2. Len(resps) = Len(resps') + 1 /\ Len(resps') \in Nat
    BY <1>2, <2>1, DroppedFacts
  <2>3. conn # "none"
    BY <1>1, <1>2 DEF Types
  <2> QED
    BY <2>1, <2>2, <2>3
<1>5. CASE /\ pendR = <<>> /\ cfree' = cfree + 1
           /\ UNCHANGED <<reqs, pendR, pool>>
  <2>1. cfree' \in Nat /\ cfree' + Len(reqs') + Len(resps') = nbuf
    <3>1. Len(reqs') = Len(reqs)
      BY <1>5
    <3> QED
      BY <1>2, <1>4, <1>5, <3>1
  <2>2. Types'
    BY <1>1, <1>2, <1>4, <1>5, <2>1 DEF Types
  <2>3. Blob' /\ Inline'
    BY <1>1, <1>2, <1>5 DEF Blob, Inline
  <2> QED
    BY <1>1, <2>2, <2>3 DEF DInv
<1>6. CASE /\ pendR # <<>> /\ pendR' = Tail(pendR) /\ cfree' = cfree
           /\ reqs' = Append(reqs, FinishReq(h, blobmem[h.blob]))
           /\ pool' = Append(pool, h.blob)
  <2> DEFINE e == FinishReq(h, blobmem[h.blob])
  <2>1. /\ pendR' \in Seq(Info) /\ Dropped(pendR, pendR')
        /\ h = pendR[1] /\ h \in Info
    BY <1>2, <1>6, TailDrops
  <2>2. /\ 1 \in DOMAIN pendR
        /\ \A n \in DOMAIN pendR' :
             n + 1 \in DOMAIN pendR /\ pendR'[n] = pendR[n + 1]
    BY <1>2, <2>1, DroppedFacts
  <2>3. /\ h.name \in Seg /\ h.bp \in BP /\ h.blob \in Nat
        /\ blobmem[h.blob] = h.name /\ h.name \in 1 .. l
    BY <1>3, <2>1, <2>2, Records
  <2>4. /\ e \in Request /\ e.name = h.name /\ e.bytes = h.name
    BY <2>3, FinishReqs
  <2> HIDE DEF e
  <2>5. /\ reqs' \in Seq(Request) /\ Added(reqs, e, reqs')
        /\ pool' \in Seq(Nat) /\ Added(pool, h.blob, pool')
    BY <1>2, <1>6, <2>3, <2>4, AppendAdds DEF e
  <2> HIDE DEF h
  <2>6. Types'
    <3>1. Len(reqs') = Len(reqs) + 1
      BY <1>2, <2>5, AddedFacts
    <3>2. cfree' \in Nat /\ cfree' + Len(reqs') + Len(resps') = nbuf
      <4>1. /\ cfree \in Nat /\ cfree + Len(reqs) + Len(resps) = nbuf
            /\ Len(reqs) \in Nat /\ Len(resps') \in Nat
            /\ Len(resps) = Len(resps') + 1 /\ cfree' = cfree
        BY <1>2, <1>4, <1>6
      <4> QED
        BY <3>1, <4>1
    <3> QED
      BY <1>1, <1>2, <1>4, <2>1, <2>5, <3>2 DEF Types
  <2>7. /\ h.blob \in DOMAIN blobmem
        /\ \A n \in DOMAIN pool : pool[n] # h.blob
    <3>1. BlobsApart(pool, pendR, blobmem)
      BY <1>2
    <3> QED
      BY <2>1, <2>2, <3>1 DEF BlobsApart
  <2>8. /\ IsInjective(pool')
        /\ \A n \in DOMAIN pool' : pool'[n] \in DOMAIN blobmem
        /\ \A q : /\ BlobsApart(pool, q, blobmem)
                  /\ \A n \in DOMAIN q : q[n].blob # h.blob
                  => BlobsApart(pool', q, blobmem)
    BY <1>2, <2>5, <2>7, ReleaseApart
  <2>9. BlobsApart(pool', functors, blobmem)
    <3>1. \A n \in DOMAIN functors : n \in Nat /\ n >= 1
      BY <1>2, Domains
    <3>2. l \in Nat
      BY <1>2
    <3> HIDE DEF l
    <3>3. \A n \in DOMAIN functors : l + n \notin 1 .. l
      BY <3>1, <3>2
    <3>4. \A n \in DOMAIN functors : functors[n].blob # h.blob
      BY <1>3, <2>3, <3>3
    <3> QED
      BY <1>2, <2>8, <3>4
  <2>10. Blob'
    BY <1>1, <1>2, <2>8, <2>9 DEF Blob
  <2>11. /\ NamesOnce(out, l) /\ NamesOnce(pendR, l) /\ NamesApart(out, pendR)
         /\ RequestsOnce(reqs, out, pendR, l)
    BY <1>2 DEF Inline
  <2>12. /\ NamesOnce(pendR', l)
         /\ \A n \in DOMAIN pendR' : pendR'[n].name # h.name
         /\ NamesApart(out, pendR') /\ RequestsOnce(reqs, out, pendR', l)
    <3> HIDE DEF l
    <3>1. pendR \in Seq(Info) /\ h = pendR[1]
      BY <1>2, <2>1
    <3> QED
      BY <2>1, <2>11, <3>1, WaitingDrop
  <2>13. BlobsApart(pool', pendR', blobmem)
    <3>1. \A n \in DOMAIN pendR' :
            blobmem[pendR'[n].blob] = pendR'[n].name
      BY <1>3, <2>2
    <3>2. \A n \in DOMAIN pendR' : pendR'[n].blob # h.blob
      BY <2>3, <2>12, <3>1
    <3>3. BlobsApart(pool, pendR', blobmem)
      <4>1. BlobsApart(pool, pendR, blobmem)
        BY <1>2
      <4> QED
        BY <2>2, <4>1, Zenon DEF BlobsApart
    <3> QED
      BY <2>8, <3>2, <3>3
  <2>14. RequestsOnce(reqs', out, pendR', l)
    <3>1. /\ reqs \in Seq(Request) /\ reqs' \in Seq(Request)
          /\ Added(reqs, e, reqs') /\ RequestsOnce(reqs, out, pendR', l)
          /\ e.name = e.bytes /\ e.name \in 1 .. l
      BY <1>2, <2>3, <2>4, <2>5, <2>12
    <3>2. \A n \in Finish(reqs) : reqs[n].name # e.name
      BY <2>1, <2>2, <2>4, <2>11 DEF RequestsOnce
    <3>3. \A n \in DOMAIN out : e.name # out[n].name
      BY <2>1, <2>2, <2>4, <2>11 DEF NamesApart
    <3>4. \A n \in DOMAIN pendR' : e.name # pendR'[n].name
      BY <2>4, <2>12
    <3> HIDE DEF l
    <3> QED
      BY ONLY <3>1, <3>2, <3>3, <3>4, RequestsSend
  <2>15. \A n \in DOMAIN pendR' :
           /\ pendR'[n] \in [name : Seg, bp : BP, blob : Nat]
           /\ blobmem[pendR'[n].blob] = pendR'[n].name
    <3>1. \A n \in DOMAIN pendR : pendR[n] \in [name : Seg, bp : BP, blob : Nat]
      BY <1>2 DEF Inline
    <3> QED
      BY <1>3, <2>2, <3>1
  <2>16. nsub' - Len(functors') = l
    BY <1>1
  <2>17. Inline'
    <3> HIDE DEF l
    <3> QED
      BY <1>1, <1>2, <2>11, <2>12, <2>13, <2>14, <2>15, <2>16 DEF Inline
  <2> QED
    BY <1>1, <2>6, <2>10, <2>17 DEF DInv
<1> QED
  BY <1>1, <1>5, <1>6
-----------------------------------------------------------------------------
(* The theorems. *)

\* Every step keeps the invariant.
LEMMA NextKeeps == DInv /\ [Next]_vars => DInv'
<1> SUFFICES ASSUME DInv, [Next]_vars PROVE DInv'
  OBVIOUS
<1>1. ASSUME UNCHANGED vars PROVE DInv'
  <2>1. UNCHANGED <<compressed, nbuf, nsub, pool, blobmem, functors, conn, pendC,
                    pendR, cfree, reqs, resps, busy, job, freebp, src, dst,
                    engine, armed, event, pc, out, nfault>>
    BY <1>1 DEF vars
  <2>2. Types' /\ Blob'
    BY <2>1 DEF DInv, Types, Blob
  <2>3. ASSUME compressed PROVE Line'
    BY <2>1, <2>3 DEF DInv, Line, Announced, Quiet
  <2>4. ASSUME ~compressed PROVE Inline'
    BY <2>1, <2>4 DEF DInv, Inline
  <2> QED
    BY <2>1, <2>2, <2>3, <2>4 DEF DInv
<1> QED
  BY <1>1, SubmitKeeps, RunSubmitKeeps, RunSubmitInlineKeeps, OnConnectedKeeps,
     OnMmapResponseKeeps, OnDecompressTaskSuccessKeeps, ArmKeeps,
     OnFinishResponseKeeps, OnFinishResponseInlineKeeps, EngineDoneKeeps,
     HandleMmapInfoRequestKeeps, HandleDecompressFinishRequestKeeps DEF Next

\* The invariant holds always: every segment under way is in one place of the
\* line, and has the buffers it needs to itself.
THEOREM DecompressInvariance == Spec => []DInv
  BY InitDInv, NextKeeps, PTL DEF Spec

\* All variables stay in their domains; in particular no send buffer is
\* released that was not taken, and every blob in the pool or in a queue was
\* allocated.
THEOREM DecompressTypeCorrect == Spec => []TypeOK
<1>1. DInv => TypeOK
  <2> SUFFICES ASSUME DInv PROVE TypeOK
    OBVIOUS
  <2>1. /\ Types /\ Blob /\ (compressed => Line) /\ (~compressed => Inline)
        /\ pool \in Seq(Nat) /\ functors \in Seq(Task) /\ pendC \in Seq(Task)
        /\ pendR \in Seq(Info) /\ reqs \in Seq(Request)
        /\ resps \in Seq(Response)
    BY DEF DInv, Types
  <2>2. pool \in Seq(Blobs)
    <3>1. \A n \in DOMAIN pool : pool[n] \in Blobs
      BY <2>1 DEF Blob, Blobs
    <3> QED
      BY <2>1, <3>1
  <2>3. ASSUME NEW q \in Seq(Task), \A n \in DOMAIN q : q[n].blob \in Blobs
        PROVE  q \in Seq([name : Seg, blob : Blobs])
    <3>1. \A n \in 1 .. Len(q) : q[n] \in Task /\ q[n].blob \in Blobs
      BY <2>3, Domains
    <3>2. \A n \in 1 .. Len(q) : q[n] \in [name : Seg, blob : Blobs]
      BY <3>1 DEF Task
    <3> QED
      BY <3>2, Retyped, Zenon
  <2>4. functors \in Seq([name : Seg, blob : Blobs])
    <3>1. \A n \in DOMAIN functors : functors[n].blob \in Blobs
      BY <2>1 DEF Blob, BlobsApart, Blobs
    <3> QED
      BY <2>1, <2>3, <3>1
  <2>5. pendC \in Seq([name : Seg, blob : Blobs])
    <3>1. CASE compressed
      <4>1. \A n \in DOMAIN pendC : pendC[n].blob \in Blobs
        BY <2>1, <3>1 DEF Line, BlobsApart, Blobs
      <4> QED
        BY <2>1, <2>3, <4>1
    <3>2. CASE ~compressed
      BY <2>1, <3>2 DEF Inline
    <3> QED
      BY <3>1, <3>2
  <2>6. cfree \in 0 .. nbuf
    <3>1. /\ cfree \in Nat /\ cfree + Len(reqs) + Len(resps) = nbuf
          /\ Len(reqs) \in Nat /\ Len(resps) \in Nat
      BY <2>1, Domains DEF Types
    <3> QED
      BY <3>1, DecompressAssumption
  <2>7. /\ \A n \in DOMAIN pendR : pendR[n].name \in Seg /\ pendR[n].bp \in BP
        /\ \A n \in DOMAIN reqs : reqs[n].type \in {"mmap", "finish"}
        /\ \A n \in DOMAIN resps : resps[n].type \in {"mmap", "finish"}
    BY <2>1, Domains, Records
  <2>8. out \in Seq([name : Seg, bytes : Seg])
    BY <2>1 DEF Types, Result
  <2> QED
    BY <2>1, <2>2, <2>4, <2>5, <2>6, <2>7, <2>8 DEF Types, TypeOK
<1> QED
  BY <1>1, DecompressInvariance, PTL

\* The host untars under a segment's name the bytes that were submitted under
\* it, and none of them twice.
THEOREM AlwaysOutIntact == Spec => []OutIntact
<1>1. DInv => OutIntact
  <2> SUFFICES ASSUME DInv PROVE OutIntact
    OBVIOUS
  <2>1. CASE compressed /\ conn = "up"
    BY <2>1 DEF DInv, Line, Downstream, Named, OutIntact
  <2>2. CASE compressed /\ conn # "up"
    BY <2>2 DEF DInv, Line, Quiet, OutIntact
  <2>3. CASE ~compressed
    BY <2>3 DEF DInv, Inline, NamesOnce, OutIntact
  <2> QED
    BY <2>1, <2>2, <2>3
<1> QED
  BY <1>1, DecompressInvariance, PTL

\* Compressed segments reach tar in the order in which they were submitted,
\* none left out.
THEOREM AlwaysOutInOrder == Spec => []OutInOrder
<1>1. DInv => OutInOrder
  BY DEF DInv, Line, Downstream, Quiet, OutInOrder
<1> QED
  BY <1>1, DecompressInvariance, PTL

\* No step writes into the destination buffer of a segment that is announced
\* to the host, or about to be.
THEOREM AlwaysDstStable == Spec => DstStable
<1> DEFINE Stable ==
      compressed =>
        /\ \A n \in DOMAIN pendR : dst'[pendR[n].bp] = dst[pendR[n].bp]
        /\ \A n \in DOMAIN reqs : reqs[n].type = "finish" =>
             dst'[reqs[n].bp] = dst[reqs[n].bp]
<1>1. ASSUME DInv, [Next]_vars PROVE Stable
  <2>1. CASE EngineDone
    <3>1. /\ NotIn(job.bp, reqs) /\ NotIn(job.bp, pendR)
          /\ \A x \in BP : x # job.bp => dst'[x] = dst[x]
      BY <1>1, <2>1, EngineDoneWrites
    <3>2. pendR \in Seq(Info) /\ reqs \in Seq(Request)
      BY <1>1 DEF DInv, Types
    <3>3. /\ \A n \in DOMAIN pendR : pendR[n].bp \in BP
          /\ \A n \in DOMAIN reqs : reqs[n].type = "finish" => reqs[n].bp \in BP
      BY <3>2, Domains, Records
    <3> QED
      BY <3>1, <3>3 DEF NotIn
  <2>2. CASE dst' = dst
    BY <2>2
  <2>3. EngineDone \/ dst' = dst
    BY <1>1 DEF Next, vars, Submit, RunSubmit, RunSubmitInline, OnConnected,
                OnMmapResponse, OnDecompressTaskSuccess, Arm, OnFinishResponse,
                OnFinishResponseInline, HandleMmapInfoRequest,
                HandleDecompressFinishRequest
  <2> QED
    BY <2>1, <2>2, <2>3
<1>2. DInv /\ [Next]_vars => [Stable]_vars
  BY <1>1
<1> QED
  BY <1>2, DecompressInvariance, PTL DEF Spec, DstStable
=============================================================================
