---------------------------- MODULE UntarEngine ----------------------------
(***************************************************************************)
(* The host's UntarEngine.  The loop thread of DecompressServerEpoll calls *)
(* untar() for every segment; the first segment of a layer creates a queue *)
(* and a task, the others find the queue in untar_map_ and are added to it.*)
(* The task runs on one of the executor's threads: it pipes its queue into *)
(* a tar process until it has seen the last segment, removes the layer from*)
(* the map and reports with completeTask.                                  *)
(*                                                                         *)
(* untar() hands the task to the executor BEFORE it fills the queue and    *)
(* before the map knows the queue, and untar_map_ has the digest of the    *)
(* layer as its only key: those two windows are kept open as steps.        *)
(***************************************************************************)
EXTENDS Naturals, Sequences, FiniteSets

CONSTANTS Pulls,    \* a pull: one image asks for one layer, once
          LayerOf,  \* [Pulls -> layer digests]
          Segs,     \* [Pulls -> Nat \ {0}], the segments of its layer
          Threads,  \* threads of executor_
          MaxFault, \* bound: popen, fwrite and tar failures
          Overlap   \* may a layer be pulled while it is being untarred

ASSUME UntarAssumption ==
  /\ Segs \in [Pulls -> Nat \ {0}] /\ DOMAIN LayerOf = Pulls
  /\ \A p, q \in Pulls : LayerOf[p] = LayerOf[q] => Segs[p] = Segs[q]
  /\ Threads \in Nat \ {0} /\ MaxFault \in Nat /\ Overlap \in BOOLEAN

VARIABLES
  sent,      \* per pull, segments given to untar() so far
  pc,        \* the loop thread in untar(): "loop", "enqueue" or "emplace"
  cur,       \* untar()'s data and task_queue
  untar_map, \* the queue of a layer, or None; a queue is named by its task
  queues,    \* per task, the UntarDataQueue
  tasks,     \* per task, the pull it was created for and how far it is
  written,   \* per task, what its tar process has read
  completed, \* per pull, the results completeTask was called with
  nfault     \* failures so far

vars == <<sent, pc, cur, untar_map, queues, tasks, written, completed, nfault>>

Layers == {LayerOf[p] : p \in Pulls}
None == 0
NoCall == [task |-> None, new |-> FALSE]
Seg(p, k) == [pull |-> p, index |-> k]
Stream(p) == [k \in 1 .. Segs[p] |-> Seg(p, k - 1)]

Init ==
  /\ sent = [p \in Pulls |-> 0]
  /\ pc = "loop" /\ cur = NoCall
  /\ untar_map = [l \in Layers |-> None]
  /\ queues = <<>> /\ tasks = <<>> /\ written = <<>>
  /\ completed = [p \in Pulls |-> <<>>] /\ nfault = 0

-----------------------------------------------------------------------------
(* The loop thread. *)

IsCompleted(p) == completed[p] # <<>>

\* Segments arrive in order; unless Overlap, a layer is not pulled again
\* before its pull is completed.
MayArrive(p) ==
  /\ sent[p] < Segs[p]
  /\ sent[p] = 0 /\ ~Overlap =>
       \A q \in Pulls : LayerOf[q] = LayerOf[p] /\ sent[q] > 0 => IsCompleted(q)

\* The UntarData of the next segment of p.
NextSeg(p) == Seg(p, sent[p])

\* Mutant: the map is not looked at.
FindNothing(l) == None

\* untar_map_.find.
Find(l) == untar_map[l]

\* untar() up to the find in the map; if the layer is not there, up to
\* executor_.add.
Untar(p) ==
  /\ pc = "loop" /\ MayArrive(p)
  /\ sent' = [sent EXCEPT ![p] = @ + 1]
  /\ pc' = "enqueue"
  /\ IF Find(LayerOf[p]) = None
       THEN /\ tasks' = Append(tasks, [pull |-> p, state |-> "queued"])
            /\ queues' = Append(queues, <<>>)
            /\ written' = Append(written, <<>>)
            /\ cur' = [task |-> Len(tasks) + 1, new |-> TRUE,
                       data |-> NextSeg(p)]
       ELSE /\ cur' = [task |-> Find(LayerOf[p]), new |-> FALSE,
                       data |-> NextSeg(p)]
            /\ UNCHANGED <<tasks, queues, written>>
  /\ UNCHANGED <<untar_map, completed, nfault>>

Enqueue ==
  /\ pc = "enqueue"
  /\ queues' = [queues EXCEPT ![cur.task] = Append(@, cur.data)]
  /\ IF cur.new THEN pc' = "emplace" /\ UNCHANGED cur
                ELSE pc' = "loop" /\ cur' = NoCall
  /\ UNCHANGED <<sent, untar_map, tasks, written, completed, nfault>>

\* emplace leaves an entry that is already there alone.
Emplace ==
  /\ pc = "emplace" /\ pc' = "loop" /\ cur' = NoCall
  /\ untar_map' = [untar_map EXCEPT ![LayerOf[cur.data.pull]] =
                     IF @ = None THEN cur.task ELSE @]
  /\ UNCHANGED <<sent, queues, tasks, written, completed, nfault>>

-----------------------------------------------------------------------------
(* The executor's threads, untar_task. *)

Tasks == DOMAIN tasks
Busy == {t \in Tasks : tasks[t].state \in {"open", "close", "erased"}}

Complete(t, ok) ==
  completed' = [completed EXCEPT ![tasks[t].pull] = Append(@, ok)]

Goto(t, s) == tasks' = [tasks EXCEPT ![t].state = s]

Fault == nfault < MaxFault /\ nfault' = nfault + 1

\* A free thread takes the oldest task and opens the pipe.
Popen(t) ==
  /\ tasks[t].state = "queued" /\ Cardinality(Busy) < Threads
  /\ \A u \in 1 .. t - 1 : tasks[u].state # "queued"
  /\ \/ Goto(t, "open") /\ UNCHANGED <<completed, nfault>>
     \* No pipe: reported, and the layer stays in the map.
     \/ Goto(t, "failed") /\ Fault /\ Complete(t, FALSE)
  /\ UNCHANGED <<sent, pc, cur, untar_map, queues, written>>

\* Mutant: off by one.
IsLastTooEarly(data) == data.index + 1 >= Segs[data.pull] - 1

\* data.index_ == data.total_segments_ - 1.
IsLast(data) == data.index = Segs[data.pull] - 1

\* dequeue and fwrite; the last segment ends the loop.
WriteSegment(t) ==
  /\ tasks[t].state = "open" /\ queues[t] # <<>>
  /\ queues' = [queues EXCEPT ![t] = Tail(@)]
  /\ LET data == Head(queues[t])
     IN  \/ /\ written' = [written EXCEPT ![t] = Append(@, data)]
            /\ Goto(t, IF IsLast(data) THEN "close" ELSE "open")
            /\ UNCHANGED <<completed, nfault>>
         \* Nothing written: reported, and the layer stays in the map.
         \/ /\ Goto(t, "failed") /\ Fault /\ Complete(t, FALSE)
            /\ UNCHANGED written
  /\ UNCHANGED <<sent, pc, cur, untar_map>>

\* Mutant: the layer stays in the map.
CloseOnly(t) ==
  /\ tasks[t].state = "close" /\ Goto(t, "erased")
  /\ UNCHANGED <<sent, pc, cur, untar_map, queues, written, completed, nfault>>

\* pclose, then the layer leaves the map.
Erase(t) ==
  /\ tasks[t].state = "close" /\ Goto(t, "erased")
  /\ untar_map' = [untar_map EXCEPT ![LayerOf[tasks[t].pull]] = None]
  /\ UNCHANGED <<sent, pc, cur, queues, written, completed, nfault>>

\* The result is what tar's exit status says.
Finish(t) ==
  /\ tasks[t].state = "erased" /\ Goto(t, "done")
  /\ \/ Complete(t, TRUE) /\ UNCHANGED nfault
     \/ Complete(t, FALSE) /\ Fault
  /\ UNCHANGED <<sent, pc, cur, untar_map, queues, written>>

-----------------------------------------------------------------------------
TaskStep(t) == Popen(t) \/ WriteSegment(t) \/ Erase(t) \/ Finish(t)

Next ==
  \/ \E p \in Pulls : Untar(p)
  \/ Enqueue \/ Emplace
  \/ \E t \in Tasks : TaskStep(t)

\* A call of untar() returns and a thread that can run does; a thread that
\* waits in dequeue is not enabled.  Nothing forces a pull, but one that has
\* begun goes on: that is AllUntarred of Decompress.  Without it a layer
\* that stops half way keeps its thread, and with it every layer behind.
Fairness ==
  /\ \A p \in Pulls : WF_vars(sent[p] > 0 /\ Untar(p))
  /\ WF_vars(Enqueue) /\ WF_vars(Emplace)
  /\ \A t \in 1 .. Cardinality(Pulls) :
       WF_vars(t \in Tasks /\ TaskStep(t))

Spec == Init /\ [][Next]_vars

FairSpec == Spec /\ Fairness

-----------------------------------------------------------------------------
(* Properties. *)

\* All variables stay in their domains.
TypeOK ==
  /\ \A p \in Pulls : sent[p] \in 0 .. Segs[p]
  /\ pc \in {"loop", "enqueue", "emplace"}
  /\ cur.task \in Tasks \cup {None}
  /\ pc # "loop" => cur.data.index \in 0 .. Segs[cur.data.pull] - 1
  /\ untar_map \in [Layers -> Tasks \cup {None}]
  /\ DOMAIN queues = Tasks /\ DOMAIN written = Tasks
  /\ \A t \in Tasks :
       /\ tasks[t].pull \in Pulls
       /\ tasks[t].state \in {"queued", "open", "close", "erased", "done",
                              "failed"}
  /\ completed \in [Pulls -> Seq(BOOLEAN)] /\ nfault \in 0 .. MaxFault

\* A tar process reads one layer: the segments of the pull its task was
\* created for, in order and from the first, whatever other layers arrive in
\* between and however many tasks wait for a thread.
StreamsInOrder ==
  \A t \in Tasks : \E k \in 0 .. Segs[tasks[t].pull] :
    written[t] = SubSeq(Stream(tasks[t].pull), 1, k)

\* completeTask is called at most once for a pull, and with success only when
\* tar has read every segment.
CompletedOnce ==
  \A p \in Pulls :
    /\ Len(completed[p]) <= 1
    /\ completed[p] = <<TRUE>> => \E t \in Tasks : written[t] = Stream(p)

LayerFailed(l) ==
  \E t \in Tasks : tasks[t].state = "failed" /\ LayerOf[tasks[t].pull] = l

\* "It will be called when a fetch->decompress->untar task is completed": a
\* pull whose segments have all arrived is completed in the end, unless a
\* task of its layer failed and left its entry in the map.
AllCompleted ==
  \A p \in Pulls :
    (sent[p] = Segs[p]) ~> (IsCompleted(p) \/ LayerFailed(LayerOf[p]))
=============================================================================
