--------------------------- MODULE OffloadClient ---------------------------
(***************************************************************************)
(* The host's OffloadClientEpoll: pull requests of the CLIs come in through*)
(* CommandServer, wait in pending_tasks_ until the DPU is connected and a  *)
(* send buffer is free, become one OffloadRequest each, and are answered   *)
(* when completeTask has been called for every layer of the image.         *)
(*                                                                         *)
(* Of the DPU its OffloadServerEpoll is kept; fetching, decompressing and  *)
(* untarring a layer (ContentFetcher, Decompress, UntarEngine) is the step *)
(* LayerDone.  All handlers of the host run on one loop; completeTask is   *)
(* called on the untar threads and queues a functor for it.                *)
(***************************************************************************)
EXTENDS Naturals, Sequences, FiniteSets

CONSTANTS Clis,       \* CLI processes, each with one request
          Want,       \* [Clis -> images], the image a CLI pulls
          NumLayers,  \* [images -> Nat \ {0}], the length of the manifest
          BadImages,  \* images whose metadata cannot be loaded
          BigImages,  \* images whose OffloadRequest does not fit a buffer
          Nc,         \* FLAGS_offload_client_rdma_mem_num
          Duplicates  \* may an image be pulled while it is being pulled

Images == {Want[c] : c \in Clis}
Connect == "DecompressConnectionRequest"

ASSUME OffloadAssumption ==
  /\ DOMAIN Want = Clis /\ Connect \notin Images
  /\ NumLayers \in [Images -> Nat \ {0}]
  /\ BadImages \subseteq Images /\ BigImages \subseteq Images
  /\ Nc \in Nat \ {0} /\ Duplicates \in BOOLEAN

VARIABLES
  asked,     \* CLIs whose request has arrived
  pending,   \* pending_tasks_
  conn,      \* conn_ null, DecompressConnectionRequest sent, or connected_
  cfree,     \* free send buffers
  reqs,      \* requests on their way to the DPU: Connect or an image
  resps,     \* responses on their way back
  tasks,     \* tasks_
  dropped,   \* CLIs whose task offloadTaskToDpu refused; each cost a buffer
  left,      \* per image, layers the DPU and the untar threads work on
  functors,  \* completeTask functors queued for the loop, each for an image
  answers    \* per CLI, the number of responses sent to it

vars == <<asked, pending, conn, cfree, reqs, resps, tasks, dropped, left,
          functors, answers>>

NoTask == [total |-> 0]

Init ==
  /\ asked = {} /\ pending = <<>> /\ conn = "none" /\ cfree = Nc
  /\ reqs = <<>> /\ resps = <<>>
  /\ tasks = [i \in Images |-> NoTask] /\ dropped = {}
  /\ left = [i \in Images |-> 0] /\ functors = <<>>
  /\ answers = [c \in Clis |-> 0]

-----------------------------------------------------------------------------
(* The host's loop. *)

\* The TaskInfo of a pull.
NewTask(c) == [total |-> NumLayers[Want[c]], layers |-> 0, cli |-> c]

\* tryOffloadTask, given pending_tasks_ and the free send buffers at the time
\* of the call: at most ONE task is offloaded.  Metadata that cannot be loaded
\* or a request that does not fit drops the task; the buffer is not released.
TryOffload(q, bufs) ==
  \/ /\ q = <<>> \/ bufs = 0
     /\ pending' = q /\ cfree' = bufs /\ UNCHANGED <<reqs, tasks, dropped>>
  \/ /\ q # <<>> /\ bufs > 0
     /\ pending' = Tail(q) /\ cfree' = bufs - 1
     /\ LET c == Head(q)
            i == Want[c]
        IN  /\ tasks' = IF i \in BadImages \/ tasks[i] # NoTask
                          THEN tasks     \* emplace keeps the older entry
                          ELSE [tasks EXCEPT ![i] = NewTask(c)]
            /\ IF i \in BadImages \cup BigImages
                 THEN dropped' = dropped \cup {c} /\ UNCHANGED reqs
                 ELSE reqs' = Append(reqs, i) /\ UNCHANGED dropped

\* CommandServer::OnMessage, pullImage, offload.
Offload(c) ==
  /\ c \notin asked
  /\ Duplicates \/ \A d \in asked : Want[d] = Want[c] => answers[d] > 0
  /\ asked' = asked \cup {c}
  /\ IF conn = "up"
       THEN TryOffload(Append(pending, c), cfree)
       ELSE /\ pending' = Append(pending, c)
            /\ UNCHANGED <<cfree, reqs, tasks, dropped>>
  /\ UNCHANGED <<conn, resps, left, functors, answers>>

\* onConnected: have the DPU connect its decompress client to this host.
OnConnected ==
  /\ conn = "none" /\ conn' = "asked"
  /\ cfree' = cfree - 1
  /\ reqs' = Append(reqs, Connect)
  /\ UNCHANGED <<asked, pending, resps, tasks, dropped, left, functors,
                 answers>>

\* Mutant: a response only gives its buffer back.
OnRecvSuccessNoRetry ==
  /\ resps # <<>> /\ resps' = Tail(resps)
  /\ conn' = IF Head(resps) = Connect THEN "up" ELSE conn
  /\ cfree' = cfree + 1
  /\ UNCHANGED <<asked, pending, reqs, tasks, dropped, left, functors,
                 answers>>

\* onRecvSuccess: the oldest send buffer comes back, then, whichever response
\* it is, the next task is tried.
OnRecvSuccess ==
  /\ resps # <<>> /\ resps' = Tail(resps)
  /\ conn' = IF Head(resps) = Connect THEN "up" ELSE conn
  /\ TryOffload(pending, cfree + 1)
  /\ UNCHANGED <<asked, left, functors, answers>>

\* Mutant: the response is sent as soon as a layer is done.
AllLayersAny(task) == TRUE

\* untar_layers == total_layers.
AllLayers(task) == task.layers = task.total

\* completeTask's functor.  The assertion before it is CompleteTaskAssertion.
\* A layer whose untar failed is counted like any other.
CompleteTask ==
  /\ functors # <<>> /\ functors' = Tail(functors)
  /\ LET i    == Head(functors)
         task == [tasks[i] EXCEPT !.layers = @ + 1]
     IN  /\ tasks[i] # NoTask
         /\ IF AllLayers(task)
              THEN /\ tasks' = [tasks EXCEPT ![i] = NoTask]
                   /\ answers' = [answers EXCEPT ![task.cli] = @ + 1]
              ELSE /\ tasks' = [tasks EXCEPT ![i] = task]
                   /\ UNCHANGED answers
  /\ UNCHANGED <<asked, pending, conn, cfree, reqs, resps, dropped, left>>

-----------------------------------------------------------------------------
(* The DPU and the untar threads. *)

\* OffloadServerEpoll::onRecvSuccess: an OffloadRequest starts the fetch of
\* every layer; either request is answered at once.
HandleRequest ==
  /\ reqs # <<>> /\ reqs' = Tail(reqs)
  /\ resps' = Append(resps, Head(reqs))
  /\ left' = IF Head(reqs) = Connect THEN left
             ELSE [left EXCEPT ![Head(reqs)] = @ + NumLayers[Head(reqs)]]
  /\ UNCHANGED <<asked, pending, conn, cfree, tasks, dropped, functors,
                 answers>>

\* A layer of i is through, untarred or failed; its untar task calls
\* completeTask.
LayerDone(i) ==
  /\ left[i] > 0 /\ left' = [left EXCEPT ![i] = @ - 1]
  /\ functors' = Append(functors, i)
  /\ UNCHANGED <<asked, pending, conn, cfree, reqs, resps, tasks, dropped,
                 answers>>

-----------------------------------------------------------------------------
Next ==
  \/ \E c \in Clis : Offload(c)
  \/ OnConnected \/ OnRecvSuccess \/ CompleteTask \/ HandleRequest
  \/ \E i \in Images : LayerDone(i)

\* The loops run forever, the connection is established in the end and a
\* layer is untarred in the end (AllCompleted of UntarEngine).
Fairness ==
  /\ WF_vars(OnConnected) /\ WF_vars(OnRecvSuccess) /\ WF_vars(CompleteTask)
  /\ WF_vars(HandleRequest) /\ \A i \in Images : WF_vars(LayerDone(i))

Spec == Init /\ [][Next]_vars

FairSpec == Spec /\ Fairness

-----------------------------------------------------------------------------
(* Properties. *)

\* All variables stay in their domains, and a send buffer is free, under way
\* with a request, or lost with a task that was dropped.
TypeOK ==
  /\ asked \subseteq Clis /\ dropped \subseteq asked
  /\ pending \in Seq(asked) /\ conn \in {"none", "asked", "up"}
  /\ reqs \in Seq(Images \cup {Connect}) /\ resps \in Seq(Images \cup {Connect})
  /\ cfree \in 0 .. Nc
  /\ cfree + Len(reqs) + Len(resps) + Cardinality(dropped) = Nc
  /\ \A i \in Images : tasks[i] # NoTask =>
       tasks[i].cli \in asked /\ tasks[i].layers \in 0 .. tasks[i].total - 1
  /\ left \in [Images -> Nat] /\ functors \in Seq(Images)

\* The assertion of completeTask: a layer's result finds the task it is for.
CompleteTaskAssertion ==
  functors # <<>> => tasks[Head(functors)] # NoTask

Count(s, x) == Cardinality({n \in DOMAIN s : s[n] = x})

\* The completions still to come for an image, wherever they are.
Owed(i) ==
  Count(reqs, i) * NumLayers[i] + left[i] + Count(functors, i)

\* A pull is answered once, and never before every layer of its image is
\* through: the layers a task has counted and those still to come are the
\* layers of the image, and without a task none are to come.
LayersAccountedFor ==
  /\ \A c \in Clis : answers[c] <= 1
  /\ \A i \in Images \ (BadImages \cup BigImages) :
       IF tasks[i] = NoTask THEN Owed(i) = 0
       ELSE /\ tasks[i].layers + Owed(i) = NumLayers[i]
            /\ answers[tasks[i].cli] = 0

\* Every CLI is answered in the end, also those that asked before the DPU was
\* connected and those that found no free send buffer, unless a task was
\* dropped: its CLI gets no answer, the buffer is lost, and tasks behind it
\* wait for a response that may never come.
AllAnswered ==
  \A c \in Clis : (c \in asked) ~> (answers[c] > 0 \/ dropped # {})
=============================================================================
