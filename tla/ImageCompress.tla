---------------------------- MODULE ImageCompress ----------------------------
(***************************************************************************)
(* tool/image_compress: it splits every layer of a folder in segments of   *)
(* segment_size, has a CompressEngine compress one after the other, and    *)
(* writes <output>/<layer>/<i>.tar.gz and, last, total_segment.txt, which  *)
(* the registry serves and ContentFetcher counts with.  The process may end*)
(* between any two steps and be run again, with another segment_size, over *)
(* the files it left.  A segment is known by the slice <<from, to>> of its *)
(* layer that it is the compressed form of.  Nobody looks at whether reading*)
(* the layer or writing a file worked: then the file is Torn, and the tool *)
(* goes on.                                                                *)
(***************************************************************************)
EXTENDS CompressEngine, FiniteSetsExt

CONSTANTS LayerFiles,   \* regular files of the input folder
          Size,         \* their sizes, in blocks
          SegmentSizes, \* values of --segment_size
          MaxSegments,  \* bound: segment files of a layer
          MaxRuns,      \* bound on how often the tool is run
          None, Torn    \* no file, and one without the bytes it should have

ASSUME ImageAssumption ==
  /\ Size \in [LayerFiles -> Nat] /\ SegmentSizes \subseteq Nat \ {0}
  /\ MaxSegments \in Nat \ {0} /\ \A l \in LayerFiles : Size[l] <= MaxSegments
  /\ MaxRuns \in Nat \ {0}
  /\ None \notin Nat \X Nat /\ Torn \notin Nat \X Nat /\ None # Torn

VARIABLES run,      \* which run of the tool this is
          segsize,  \* segment_size_
          todo,     \* layers the directory iterator has not reached
          cur,      \* the layer it is at
          head, idx,\* head_, idx_
          src, dst, \* slices whose bytes are in src_mem and in dst_mem
          watching, \* channel_ is enabled
          published,\* layers whose total_segment.txt this run wrote
          begun,    \* layers with a segment opened since their total was written
          lost,     \* <<layer, i>> of a segment not read or written as a whole
          out       \* the output folder

toolVars ==
  <<run, segsize, todo, cur, head, idx, src, dst, watching, published, begun,
    lost, out>>
imageVars == <<engineVars, toolVars>>

ImageInit ==
  /\ EngineInit /\ run = 1 /\ segsize \in SegmentSizes
  /\ todo = LayerFiles /\ cur = None /\ head = 0 /\ idx = 0 /\ src = None
  /\ dst = None /\ watching = FALSE /\ published = {} /\ begun = {} /\ lost = {}
  /\ out = [l \in LayerFiles |-> [seg |-> [i \in 0 .. MaxSegments - 1 |-> None],
                                  total |-> None]]
-----------------------------------------------------------------------------
Create == CreateEngine /\ UNCHANGED toolVars

\* Open the next regular file: at the constructor's start, and at the end of
\* a layer.  back is where the thread is when there is none.
NextFile(back) ==
  \/ /\ todo = {} /\ at' = back
     /\ UNCHANGED <<fault, todo, cur, head, idx>>
  \/ \E l \in todo :
       /\ todo' = todo \ {l} /\ cur' = l
       /\ \/ /\ at' = "enqueue" /\ head' = 0 /\ idx' = 0 /\ UNCHANGED fault
          \/ at' = back /\ Fails("open_layer") /\ UNCHANGED <<head, idx>>

Construct ==
  /\ at = "construct" /\ NextFile("start")
  /\ UNCHANGED <<d, busy, job, armed, signalled, run, segsize, src, dst,
                 watching, published, begun, lost, out>>

\* The end of the constructor and of onTaskSuccess: read, set the DocaBuf's
\* data, start the job.  On an error of the last two the function returns; a
\* read that fails goes unnoticed, and src_mem holds what it held.
Return == IF watching THEN "arm" ELSE "start"

Enqueue ==
  LET read == Min({Size[cur] - head, segsize})
  IN  /\ at = "enqueue" /\ at' = Return
      /\ src' \in {<<head, head + read>>, Torn}
      /\ \/ StartJob /\ head' = head + read /\ idx' = idx + 1
         \/ Fails("set_data") /\ UNCHANGED <<busy, job, head, idx>>
      /\ UNCHANGED <<d, armed, signalled, run, segsize, todo, cur, dst,
                     watching, published, begun, lost, out>>

\* start: the channel is enabled only now; then the loop runs.
Start ==
  /\ at = "start" /\ at' = "loop" /\ watching' = TRUE
  /\ UNCHANGED <<d, fault, busy, job, armed, signalled, run, segsize, todo, cur,
                 head, idx, src, dst, published, begun, lost, out>>

\* The engine's work.
JobEnds ==
  /\ \/ Finish("done") /\ dst' = src /\ UNCHANGED fault
     \/ Finish("failed") /\ Fails("job") /\ UNCHANGED dst
  /\ UNCHANGED <<at, d, busy, run, segsize, todo, cur, head, idx, src,
                 watching, published, begun, lost, out>>

Retrieve == watching /\ HandleRead("segment") /\ UNCHANGED toolVars

\* onTaskSuccess: the directory and the segment's file; opening truncates.
OpenSegment ==
  /\ at = "segment"
  /\ \/ /\ at' = "write" /\ UNCHANGED fault
        /\ out' = [out EXCEPT ![cur].seg[idx - 1] = Torn]
        /\ begun' = begun \cup {cur}
     \/ at' = "arm" /\ Fails("open_segment") /\ UNCHANGED <<begun, out>>
  /\ UNCHANGED <<d, busy, job, armed, signalled, run, segsize, todo, cur, head,
                 idx, src, dst, watching, published, lost>>

\* write and close: their result is not looked at, so the file may stay short.
WriteFile ==
  /\ \E bytes \in {dst, Torn} :
       /\ out' = [out EXCEPT ![cur].seg[idx - 1] = bytes]
       /\ lost' = IF bytes = Torn THEN lost \cup {<<cur, idx - 1>>}
                  ELSE lost \ {<<cur, idx - 1>>}
  /\ UNCHANGED <<d, fault, busy, job, armed, signalled, run, segsize, todo, cur,
                 head, idx, src, dst, watching, published, begun>>

\* Mutant: the last segment is taken for read too early.
WriteSegmentEarly ==
  /\ at = "write" /\ WriteFile
  /\ at' = IF head + 1 >= Size[cur] THEN "total" ELSE "enqueue"

WriteSegment ==
  /\ at = "write" /\ WriteFile
  /\ at' = IF head >= Size[cur] THEN "total" ELSE "enqueue"

\* total_segment.txt: opening truncates, then the number is written.
OpenTotal ==
  /\ at = "total"
  /\ \/ /\ at' = "count" /\ UNCHANGED fault
        /\ out' = [out EXCEPT ![cur].total = Torn]
     \/ at' = "arm" /\ Fails("open_total") /\ UNCHANGED out
  /\ UNCHANGED <<d, busy, job, armed, signalled, run, segsize, todo, cur, head,
                 idx, src, dst, watching, published, begun, lost>>

\* A write that fails leaves the file empty.
WriteTotal ==
  /\ at = "count" /\ at' = "next"
  /\ \E n \in {idx, Torn} : out' = [out EXCEPT ![cur].total = n]
  /\ published' = published \cup {cur} /\ begun' = begun \ {cur}
  /\ UNCHANGED <<d, fault, busy, job, armed, signalled, run, segsize, todo, cur,
                 head, idx, src, dst, watching, lost>>

NextLayer ==
  /\ at = "next" /\ NextFile("arm")
  /\ UNCHANGED <<d, busy, job, armed, signalled, run, segsize, src, dst,
                 watching, published, begun, lost, out>>

ArmAgain == Arm /\ UNCHANGED toolVars

\* The process is killed; the operating system takes the DOCA objects back.
Crash ==
  /\ at # "exit" /\ at' = "exit" /\ Fails("crash")
  /\ UNCHANGED <<d, busy, job, armed, signalled, toolVars>>

Rerun ==
  /\ at = "exit" /\ run < MaxRuns /\ run' = run + 1
  /\ at' = "open" /\ d' = NoObjects /\ fault' = "none"
  /\ busy' = FALSE /\ job' = "none" /\ armed' = FALSE /\ signalled' = FALSE
  /\ todo' = LayerFiles /\ cur' = None /\ head' = 0 /\ idx' = 0 /\ src' = None
  /\ dst' = None /\ watching' = FALSE /\ published' = {}
  /\ segsize' \in SegmentSizes /\ UNCHANGED <<begun, lost, out>>

Step ==
  \/ Create \/ Construct \/ Enqueue \/ Start \/ JobEnds \/ Retrieve
  \/ OpenSegment \/ WriteSegment \/ OpenTotal \/ WriteTotal \/ NextLayer
  \/ ArmAgain

ImageNext == Step \/ Crash \/ Rerun

ImageSpec == ImageInit /\ [][ImageNext]_imageVars /\ WF_imageVars(Step)
-----------------------------------------------------------------------------
\* The i-th segment of a layer, and how many there are, at segment_size z.
Piece(l, z, i) == <<i * z, Min({Size[l], (i + 1) * z})>>
Counts(l, z, n) == (n = 1 \/ (n - 1) * z < Size[l]) /\ Size[l] <= n * z

\* A number in total_segment.txt is the layer's count at one segment_size, and
\* the files it counts are there and are the layer's segments at that size,
\* but for those whose bytes were not read or written as a whole.  That is
\* lost only while a run has begun to write the layer's files over and has not
\* written its total, and stays lost when it ends there: then a file counted
\* may be cut, or be the segment of the same number at another size.
TotalMeansComplete ==
  \A l \in LayerFiles :
    LET o == out[l] IN
    o.total \notin {None, Torn} =>
      \E z \in SegmentSizes :
        /\ Counts(l, z, o.total)
        /\ \A i \in 0 .. o.total - 1 :
             \/ o.seg[i] = Piece(l, z, i)
             \/ o.seg[i] = Torn /\ (<<l, i>> \in lost \/ l \in begun)
             \/ l \in begun /\ \E y \in SegmentSizes : o.seg[i] = Piece(l, y, i)

\* A readable event handle means a finished job: handleRead ends the process
\* when retrieve_job_once has nothing to give it.  And start_job's assertion:
\* no job is started before the last one's result was taken.
NoSpuriousRetrieve ==
  /\ at = "loop" /\ signalled => job \in {"done", "failed"}
  /\ at = "enqueue" => ~busy

\* No job reaches an engine that is not completely set up, whichever of the
\* calls failed, those whose result is not looked at included.  And when
\* doca_workq_create, the set up of its event handle or doca_ctx_workq_add fails,
\* DocaCore::create undoes everything, nothing twice, and leaves the device open.
\* (The other failures, the one of the first arm among them, are not undone so.)
SetUpOrUndone ==
  /\ at = "enqueue" \/ job # "none" => EngineReady
  /\ at = "exit" /\ fault \in {"workq", "event", "link"}
       => d = [NoObjects EXCEPT !.dev = TRUE]

\* When no call fails, every layer gets published, unless the process is
\* killed: no completion is missed between the clear and the arm.
AllPublished == []<>(fault # "none" \/ published = LayerFiles)
=============================================================================
