--------------------------- MODULE CompressEngine ---------------------------
(***************************************************************************)
(* CompressEngine and DocaCore: how main brings an engine up, one DOCA call*)
(* at a time, what is undone when a call fails, and one job's way through  *)
(* the work queue and its event handle.                                    *)
(*                                                                         *)
(* DOCA is external.  An object is there or not; a call on an object that  *)
(* is not there, or in the wrong order, is recorded in d.misuse and changes*)
(* nothing.  Every call may fail; the first one that does is kept in fault.*)
(***************************************************************************)
EXTENDS Integers, FiniteSets

VARIABLES at,       \* the next step of the thread
          d,        \* the DOCA objects
          fault,    \* the first step that failed, or "none"
          busy,     \* engine_busy_
          job,      \* the one in the queue: "none", "running", "done", "failed"
          armed,    \* the event handle tells of the next completion
          signalled \* the event handle is readable

engineVars == <<at, d, fault, busy, job, armed, signalled>>

Side == {"src", "dst"}

NoObjects ==
  [dev |-> FALSE, compress |-> FALSE, attached |-> FALSE, started |-> FALSE,
   inv |-> FALSE, invStarted |-> FALSE, workq |-> FALSE, linked |-> FALSE,
   mmap |-> [s \in Side |-> FALSE], mapped |-> [s \in Side |-> FALSE],
   buf |-> [s \in Side |-> FALSE], misuse |-> FALSE]

EngineInit ==
  /\ at = "open" /\ d = NoObjects /\ fault = "none"
  /\ busy = FALSE /\ job = "none" /\ armed = FALSE /\ signalled = FALSE
-----------------------------------------------------------------------------
\* The DOCA calls that undo something.
Call(ok, x, y) == IF ok THEN y ELSE [x EXCEPT !.misuse = TRUE]

CompressDestroy(x) ==
  Call(x.compress /\ ~x.started, x, [x EXCEPT !.compress = FALSE])
CtxStop(x) == Call(x.started /\ ~x.linked, x, [x EXCEPT !.started = FALSE])
CtxDevRm(x) == Call(x.attached /\ ~x.started, x, [x EXCEPT !.attached = FALSE])
CtxWorkqRm(x) == Call(x.linked, x, [x EXCEPT !.linked = FALSE])
WorkqDestroy(x) == Call(x.workq /\ ~x.linked, x, [x EXCEPT !.workq = FALSE])
InvStop(x) == Call(x.invStarted, x, [x EXCEPT !.invStarted = FALSE])
InvDestroy(x) == Call(x.inv, x, [x EXCEPT !.inv = FALSE, !.invStarted = FALSE])
DevClose(x) == Call(x.dev, x, [x EXCEPT !.dev = FALSE])
MmapStop(x, s) == Call(x.mapped[s], x, [x EXCEPT !.mapped[s] = FALSE])
MmapDestroy(x, s) ==
  Call(x.mmap[s] /\ ~x.mapped[s], x, [x EXCEPT !.mmap[s] = FALSE])
BufRefcountRm(x, s) == Call(x.inv, x, [x EXCEPT !.buf[s] = FALSE])

\* The labels at the end of DocaCore::create, each falling into the next.
FailBufInventoryStart(x) == InvDestroy(x)
FailCtxDevAdd(x) == FailBufInventoryStart(InvStop(x))
FailCtxStart(x) == FailCtxDevAdd(CtxDevRm(x))

\* Mutant: the context is not stopped.
FailWorkqCreateRunning(x) == FailCtxStart(x)
FailWorkqCreate(x) == FailCtxStart(CtxStop(x))
FailCtxWorkqAdd(x) == FailWorkqCreate(WorkqDestroy(x))

\* ~DocaCore; ~CompressEngine: the mmaps, the core, the engine, and the
\* DocaBufs of the bufpairs after them.
CoreDestruct(x) ==
  InvDestroy(DevClose(CtxDevRm(CtxStop(WorkqDestroy(CtxWorkqRm(x))))))

MmapDestruct(x, s) ==
  IF ~x.mmap[s] THEN x
  ELSE MmapDestroy(IF x.buf[s] THEN MmapStop(x, s) ELSE x, s)

BufDestruct(x, s) == IF x.buf[s] THEN BufRefcountRm(x, s) ELSE x

EngineDestruct(x) ==
  LET w == MmapDestruct(MmapDestruct(x, "src"), "dst")
      y == CompressDestroy(CoreDestruct(w))
  IN  BufDestruct(BufDestruct(y, "src"), "dst")
-----------------------------------------------------------------------------
\* A call that either works or makes main return, after undoing something.
Fails(s) == fault' = IF fault = "none" THEN s ELSE fault

Try(s, next, y, undone) ==
  /\ at = s
  /\ \/ at' = next /\ d' = y /\ UNCHANGED fault
     \/ at' = "exit" /\ d' = undone /\ Fails(s)
  /\ UNCHANGED <<busy, job, signalled>>

\* CompressEngine::create.
OpenDevice ==
  /\ Try("open", "compress", [d EXCEPT !.dev = TRUE], CompressDestroy(d))
  /\ UNCHANGED armed
\* doca_compress_create, and doca_compress_as_ctx, after whose failure the
\* compress object is left.
CompressCreate ==
  LET y == [d EXCEPT !.compress = TRUE]
  IN  (\E left \in {d, y} : Try("compress", "dev_add", y, left)) /\ UNCHANGED armed

\* DocaCore::create, and create's own label behind it.
CoreTry(s, next, y, undone) == Try(s, next, y, CompressDestroy(undone))

CtxDevAdd ==
  /\ CoreTry("dev_add", "ctx_start", [d EXCEPT !.attached = TRUE],
             FailCtxDevAdd(d))
  /\ UNCHANGED armed

CtxStart ==
  /\ CoreTry("ctx_start", "inv_create", [d EXCEPT !.started = TRUE],
             FailCtxStart(d))
  /\ UNCHANGED armed
InvCreate ==
  /\ CoreTry("inv_create", "inv_start", [d EXCEPT !.inv = TRUE], d)
  /\ UNCHANGED armed
InvStart ==
  /\ CoreTry("inv_start", "workq", [d EXCEPT !.invStarted = TRUE],
             FailBufInventoryStart(d))
  /\ UNCHANGED armed
WorkqCreate ==
  /\ CoreTry("workq", "event", [d EXCEPT !.workq = TRUE], FailWorkqCreate(d))
  /\ UNCHANGED armed
EventDriven ==
  /\ CoreTry("event", "link", d, FailCtxWorkqAdd(d))
  /\ UNCHANGED armed
WorkqAdd ==
  /\ CoreTry("link", "first_arm", [d EXCEPT !.linked = TRUE],
             FailCtxWorkqAdd(d))
  /\ UNCHANGED armed
FirstArm ==
  /\ CoreTry("first_arm", "mmap", d, FailCtxWorkqAdd(d))
  /\ armed' = (at' # "exit")

\* src_mmaps_start, then dst_mmaps_start: create_mmap, then mmap_start, which
\* does not look at what doca_mmap_start returns.
Mapping == IF d.buf["src"] THEN "dst" ELSE "src"

CreateMmap ==
  /\ Try("mmap", "range", [d EXCEPT !.mmap[Mapping] = TRUE], EngineDestruct(d))
  /\ UNCHANGED armed

SetMemrange == Try("range", "map", d, EngineDestruct(d)) /\ UNCHANGED armed

MmapStart ==
  /\ at = "map" /\ at' = "buf"
  /\ \/ d' = [d EXCEPT !.mapped[Mapping] = TRUE] /\ UNCHANGED fault
     \/ UNCHANGED d /\ Fails("map")
  /\ UNCHANGED <<busy, job, armed, signalled>>

\* DOCA gives no buffer of an mmap that is not started.
BufByAddr ==
  /\ Try("buf", IF Mapping = "src" THEN "mmap" ELSE "construct",
         [d EXCEPT !.buf[Mapping] = TRUE], EngineDestruct(d))
  /\ at' # "exit" => d.mapped[Mapping]
  /\ UNCHANGED armed

CreateEngine ==
  \/ OpenDevice \/ CompressCreate \/ CtxDevAdd \/ CtxStart \/ InvCreate
  \/ InvStart \/ WorkqCreate \/ EventDriven \/ WorkqAdd \/ FirstArm
  \/ CreateMmap \/ SetMemrange \/ MmapStart \/ BufByAddr
-----------------------------------------------------------------------------
SubmitJob ==
  \/ job' = "running" /\ UNCHANGED fault
  \/ UNCHANGED job /\ Fails("submit")

\* start_job: the result of submit_job is not looked at.
StartJob == SubmitJob /\ busy' = TRUE

\* The engine finishes the job.
Finish(result) ==
  /\ job = "running" /\ job' = result
  /\ signalled' = (signalled \/ armed) /\ armed' = FALSE

\* Mutant: the handle is not cleared.
ClearNothing == UNCHANGED signalled

\* doca_workq_event_handle_clear.
Clear == signalled' = FALSE

\* handleRead up to the callback.  A job that is not done yet, or failed,
\* ends the process (std::terminate).
HandleRead(callback) ==
  /\ at = "loop" /\ signalled
  /\ \/ Fails("clear") /\ UNCHANGED <<at, busy, job, signalled>>
     \/ /\ Clear
        /\ \/ /\ job = "done"
              /\ at' = callback /\ busy' = FALSE /\ job' = "none"
              /\ UNCHANGED fault
           \/ at' = "exit" /\ Fails("retrieve") /\ UNCHANGED <<busy, job>>
  /\ UNCHANGED <<d, armed>>

\* Mutant: nobody arms the handle again.
NoArm ==
  /\ at = "arm" /\ at' = "loop"
  /\ UNCHANGED <<d, fault, busy, job, armed, signalled>>

\* handleRead after the callback.
Arm ==
  /\ at = "arm" /\ at' = "loop"
  /\ \/ /\ signalled' = (signalled \/ job \in {"done", "failed"})
        /\ armed' = ~signalled' /\ UNCHANGED fault
     \/ Fails("arm") /\ UNCHANGED <<armed, signalled>>
  /\ UNCHANGED <<d, busy, job>>

EngineReady ==
  /\ d.dev /\ d.compress /\ d.attached /\ d.started
  /\ d.inv /\ d.invStarted /\ d.workq /\ d.linked
  /\ \A s \in Side : d.mapped[s] /\ d.buf[s]
=============================================================================
