------------------------- MODULE UntarEngine_proofs -------------------------
(***************************************************************************)
(* Proofs about UntarEngine, for any pulls, layers, numbers of segments,   *)
(* threads and failures, provided a layer is not pulled again before its   *)
(* pull is completed (Overlap = FALSE).                                    *)
(***************************************************************************)
EXTENDS UntarEngine, TLAPS

States == {"queued", "open", "close", "erased", "done", "failed"}
Segments == [pull : Pulls, index : Nat]
LayerOfTask(t) == LayerOf[tasks[t].pull]

\* The state, typed so that the provers can use it.
Types ==
  /\ tasks \in Seq([pull : Pulls, state : States])
  /\ queues \in Seq(Seq(Segments)) /\ Len(queues) = Len(tasks)
  /\ written \in Seq(Seq(Segments)) /\ Len(written) = Len(tasks)
  /\ sent \in [Pulls -> Nat] /\ \A p \in Pulls : sent[p] <= Segs[p]
  /\ untar_map \in [Layers -> 0 .. Len(tasks)]
  /\ completed \in [Pulls -> Seq(BOOLEAN)]
  /\ nfault \in 0 .. MaxFault

\* A call of untar() in progress: its segment is the last one of its pull, and
\* a queue it has just created is not in the map yet.
Call ==
  /\ pc \in {"loop", "enqueue", "emplace"}
  /\ pc = "loop" => cur = NoCall
  /\ pc = "emplace" => cur.new
  /\ pc # "loop" =>
       /\ cur.task \in 1 .. Len(tasks) /\ cur.new \in BOOLEAN
       /\ cur.data.pull \in Pulls /\ sent[cur.data.pull] > 0
       /\ cur.data = Seg(cur.data.pull, sent[cur.data.pull] - 1)
       /\ cur.new => /\ tasks[cur.task].pull = cur.data.pull
                     /\ untar_map[LayerOfTask(cur.task)] = None

Creating(t) == pc # "loop" /\ cur.new /\ cur.task = t

\* The map leads from a layer to a task of that layer, and to every task that
\* has not left it, once the call that created the task is over.
Map ==
  /\ \A l \in Layers :
       untar_map[l] # None => LayerOfTask(untar_map[l]) = l
  /\ \A t \in 1 .. Len(tasks) :
       tasks[t].state \in {"queued", "open", "close", "failed"} =>
         untar_map[LayerOfTask(t)] = t \/ Creating(t)

\* A task is created by the first segment of its pull.
Created ==
  /\ \A t, u \in 1 .. Len(tasks) : tasks[t].pull = tasks[u].pull => t = u
  /\ \A t \in 1 .. Len(tasks) : sent[tasks[t].pull] > 0

\* A pull that has begun has a task, or its segments go into the queue of a
\* task that is over and whose entry is never taken from the map.
Begun ==
  \A p \in Pulls : sent[p] > 0 =>
    \/ \E t \in 1 .. Len(tasks) : tasks[t].pull = p
    \/ /\ untar_map[LayerOf[p]] # None
       /\ tasks[untar_map[LayerOf[p]]].state \in {"done", "failed"}

\* The pulls that completeTask was called for, and with success.
Over == {p \in Pulls : completed[p] # <<>>}
Succeeded == {p \in Pulls : completed[p] = <<TRUE>>}

\* One pull of a layer at a time is not completed.
OneAtATime ==
  \A p, q \in Pulls :
    p # q /\ LayerOf[p] = LayerOf[q] /\ sent[p] > 0 /\ sent[q] > 0 =>
      p \in Over \/ q \in Over

Live == {"queued", "open", "close", "erased"}

\* A task reports when it is over, and only then.
Reports ==
  /\ \A t \in 1 .. Len(tasks) :
       tasks[t].state \in Live => tasks[t].pull \notin Over
  /\ \A p \in Over : \E t \in 1 .. Len(tasks) :
       tasks[t].pull = p /\ tasks[t].state \notin Live
  /\ \A p \in Succeeded : \E t \in 1 .. Len(tasks) :
       tasks[t].pull = p /\ tasks[t].state = "done"
  /\ \A p \in Pulls : Len(completed[p]) <= 1

\* A call has taken a segment and not yet put it into the queue of t.
Taking(t) == pc = "enqueue" /\ cur.task = t

\* What a task has read, what waits in its queue, and the segment on its way
\* there are the segments of its pull, in order; a task that has stopped
\* reading without a failure has read them all.
StreamOf(t, p) ==
  /\ Len(written[t]) <= Segs[p]
  /\ \A i \in 1 .. Len(written[t]) : written[t][i] = Seg(p, i - 1)
  /\ tasks[t].state \in {"queued", "open"} =>
       /\ Taking(t) => /\ Len(written[t]) + Len(queues[t]) + 1 = sent[p]
                       /\ cur.data.pull = p
       /\ ~Taking(t) => Len(written[t]) + Len(queues[t]) = sent[p]
       /\ \A i \in 1 .. Len(queues[t]) :
            queues[t][i] = Seg(p, Len(written[t]) + i - 1)
  /\ tasks[t].state \in {"close", "erased", "done"} =>
       Len(written[t]) = Segs[p] /\ sent[p] = Segs[p]

Streams == \A t \in 1 .. Len(tasks) : StreamOf(t, tasks[t].pull)

IInv ==
  Types /\ Call /\ Map /\ Created /\ Begun /\ OneAtATime /\ Reports /\ Streams

-----------------------------------------------------------------------------
(* What the helpers of the actions do. *)

USE UntarAssumption

\* A sequence with one element replaced.
LEMMA SeqExcept ==
  ASSUME NEW S, NEW q \in Seq(S), NEW i \in 1 .. Len(q), NEW e \in S
  PROVE  /\ [q EXCEPT ![i] = e] \in Seq(S)
         /\ Len([q EXCEPT ![i] = e]) = Len(q)
         /\ \A j \in 1 .. Len(q) :
              [q EXCEPT ![i] = e][j] = IF j = i THEN e ELSE q[j]
  OBVIOUS

\* A task belongs to a pull.
LEMMA PullOfTask ==
  ASSUME Types, NEW t \in 1 .. Len(tasks)
  PROVE  /\ tasks[t] \in [pull : Pulls, state : States]
         /\ tasks[t].pull \in Pulls /\ tasks[t].state \in States
  <1> DEFINE R == [pull : Pulls, state : States]
  <1>1. tasks \in Seq(R)
    BY DEF Types
  <1> HIDE DEF R
  <1>2. tasks[t] \in R
    BY <1>1
  <1>3. QED BY <1>2 DEF R

\* Goto changes the state of one task and nothing else of the tasks.
LEMMA GotoFacts ==
  ASSUME Types, NEW t \in 1 .. Len(tasks), NEW s \in States, Goto(t, s)
  PROVE  /\ tasks' \in Seq([pull : Pulls, state : States])
         /\ Len(tasks') = Len(tasks)
         /\ \A u \in 1 .. Len(tasks) :
              /\ tasks'[u].pull = tasks[u].pull /\ tasks[u].pull \in Pulls
              /\ tasks'[u].state = IF u = t THEN s ELSE tasks[u].state
  <1> DEFINE R == [pull : Pulls, state : States]
             e == [tasks[t] EXCEPT !.state = s]
  <1>1. tasks \in Seq(R)
    BY DEF Types
  <1>2. tasks' = [tasks EXCEPT ![t] = e]
    BY DEF Goto
  <1>3. tasks[t] \in R /\ \A u \in 1 .. Len(tasks) : tasks[u].pull \in Pulls
    BY PullOfTask
  <1>4. e \in R /\ e.pull = tasks[t].pull /\ e.state = s
    BY <1>3
  <1> HIDE DEF e, R
  <1>5. /\ tasks' \in Seq(R) /\ Len(tasks') = Len(tasks)
        /\ \A u \in 1 .. Len(tasks) :
             tasks'[u] = IF u = t THEN e ELSE tasks[u]
    BY <1>1, <1>2, <1>4, SeqExcept
  <1>6. QED BY <1>3, <1>4, <1>5 DEF R

\* completeTask adds a result for one pull.
LEMMA CompleteFacts ==
  ASSUME Types, NEW t \in 1 .. Len(tasks), NEW ok \in BOOLEAN,
         Complete(t, ok), completed[tasks[t].pull] = <<>>
  PROVE  /\ completed' \in [Pulls -> Seq(BOOLEAN)]
         /\ completed'[tasks[t].pull] = <<ok>>
         /\ \A p \in Pulls : p # tasks[t].pull => completed'[p] = completed[p]
         /\ Len(<<ok>>) = 1 /\ <<ok>> # <<>>
  <1>1. tasks[t].pull \in Pulls /\ completed \in [Pulls -> Seq(BOOLEAN)]
    BY PullOfTask DEF Types
  <1>2. Append(<<>>, ok) = <<ok>> /\ <<ok>> \in Seq(BOOLEAN)
    OBVIOUS
  <1>3. completed' = [completed EXCEPT ![tasks[t].pull] = <<ok>>]
    BY <1>2 DEF Complete
  <1>4. Len(<<ok>>) = 1 /\ <<ok>> # <<>>
    OBVIOUS
  <1>5. QED BY <1>1, <1>2, <1>3, <1>4

\* The engine starts with nothing.
LEMMA InitIInv == Init => IInv
  <1> SUFFICES ASSUME Init PROVE IInv
    OBVIOUS
  <1>1. Len(<<>>) = 0 /\ <<>> \in Seq(Seq(Segments))
        /\ <<>> \in Seq([pull : Pulls, state : States])
    OBVIOUS
  <1>2. Types
    <2>1. /\ tasks \in Seq([pull : Pulls, state : States])
          /\ queues \in Seq(Seq(Segments)) /\ Len(queues) = Len(tasks)
          /\ written \in Seq(Seq(Segments)) /\ Len(written) = Len(tasks)
          /\ Len(tasks) = 0
      BY <1>1 DEF Init
    <2>2. /\ sent \in [Pulls -> Nat] /\ \A p \in Pulls : sent[p] <= Segs[p]
          /\ nfault \in 0 .. MaxFault
      BY DEF Init
    <2>3. untar_map \in [Layers -> 0 .. Len(tasks)]
      BY <2>1 DEF Init, None
    <2>4. completed \in [Pulls -> Seq(BOOLEAN)]
      BY DEF Init
    <2>5. QED BY <2>1, <2>2, <2>3, <2>4 DEF Types
  <1>3. Call /\ Map /\ Created /\ Begun /\ OneAtATime
    BY <1>1 DEF Init, Call, Map, Created, Begun, OneAtATime
  <1>4. Streams
    BY <1>1 DEF Init, Streams
  <1>5. Reports
    <2>1. Over = {} /\ \A p \in Pulls : Len(completed[p]) = 0
      BY <1>1 DEF Init, Over
    <2>2. Succeeded = {}
      <3>1. <<>> # <<TRUE>>
        OBVIOUS
      <3>2. \A p \in Pulls : completed[p] = <<>>
        BY DEF Init
      <3>3. \A p \in Pulls : completed[p] # <<TRUE>>
        BY <3>1, <3>2, Zenon
      <3>4. QED BY <3>3 DEF Succeeded
    <2>3. Len(tasks) = 0
      BY <1>1 DEF Init
    <2>4. QED BY <2>1, <2>2, <2>3 DEF Reports
  <1>6. QED BY <1>2, <1>3, <1>4, <1>5 DEF IInv

-----------------------------------------------------------------------------
(* The steps of the executor's threads. *)

\* A step of a task that leaves the map alone.
LEMMA MapKept ==
  ASSUME IInv, NEW t \in 1 .. Len(tasks), NEW s \in States, Goto(t, s),
         UNCHANGED <<sent, pc, cur, untar_map>>, tasks[t].state \in Live,
         s \in {"queued", "open", "close", "failed"} =>
           tasks[t].state \in {"queued", "open", "close"}
  PROVE  Call' /\ Map' /\ Created' /\ Begun'
  <1>1. /\ Len(tasks') = Len(tasks)
        /\ \A u \in 1 .. Len(tasks) :
             /\ tasks'[u].pull = tasks[u].pull /\ tasks[u].pull \in Pulls
             /\ tasks'[u].state = IF u = t THEN s ELSE tasks[u].state
    BY GotoFacts DEF IInv
  <1>2. Call'
    BY <1>1 DEF IInv, Call, LayerOfTask
  <1>3. untar_map \in [Layers -> 0 .. Len(tasks)] /\ Len(tasks) \in Nat
    BY DEF IInv, Types
  <1>4. Map'
    <2>1. \A l \in Layers :
            untar_map[l] # None => LayerOfTask(untar_map[l])' = l
      BY <1>1, <1>3 DEF IInv, Map, LayerOfTask, None
    <2>2. \A u \in 1 .. Len(tasks) :
            tasks'[u].state \in {"queued", "open", "close", "failed"} =>
              untar_map[LayerOfTask(u)'] = u \/ Creating(u)
      BY <1>1 DEF IInv, Map, LayerOfTask
    <2>3. QED BY <1>1, <2>1, <2>2 DEF Map, Creating
  <1>5. Created'
    BY <1>1 DEF IInv, Created
  <1>6. Begun'
    <2>1. \A u \in 1 .. Len(tasks) : tasks[u].state \in {"done", "failed"} =>
            tasks'[u].state \in {"done", "failed"}
      BY <1>1 DEF Live
    <2>2. \A p \in Pulls : untar_map[LayerOf[p]] # None =>
             untar_map[LayerOf[p]] \in 1 .. Len(tasks)
      BY <1>3 DEF Layers, None
    <2>3. QED BY <1>1, <2>1, <2>2 DEF IInv, Begun
  <1>7. QED BY <1>2, <1>4, <1>5, <1>6

\* A task that goes on reports nothing.
LEMMA NoReport ==
  ASSUME IInv, NEW t \in 1 .. Len(tasks), NEW s \in Live, Goto(t, s),
         UNCHANGED <<sent, completed>>, tasks[t].state \in Live
  PROVE  Reports' /\ OneAtATime'
  <1>1. /\ Len(tasks') = Len(tasks)
        /\ \A u \in 1 .. Len(tasks) :
             /\ tasks'[u].pull = tasks[u].pull /\ tasks[u].pull \in Pulls
             /\ tasks'[u].state = IF u = t THEN s ELSE tasks[u].state
    BY GotoFacts DEF IInv, Live, States
  <1>2. OneAtATime'
    BY DEF IInv, OneAtATime, Over
  <1>3. \A u \in 1 .. Len(tasks) :
          /\ tasks[u].state = "done" => tasks'[u].state = "done"
          /\ tasks'[u].state \in Live <=> tasks[u].state \in Live
    BY <1>1 DEF Live
  <1>4. Over' = Over /\ Succeeded' = Succeeded
    BY DEF Over, Succeeded
  <1>5. Reports'
    <2>1. \A u \in 1 .. Len(tasks) :
            tasks'[u].state \in Live => tasks'[u].pull \notin Over
      BY <1>1, <1>3 DEF IInv, Reports
    <2>2. \A p \in Over : \E u \in 1 .. Len(tasks) :
            tasks'[u].pull = p /\ tasks'[u].state \notin Live
      BY <1>1, <1>3 DEF IInv, Reports
    <2>3. \A p \in Succeeded : \E u \in 1 .. Len(tasks) :
            tasks'[u].pull = p /\ tasks'[u].state = "done"
      BY <1>1, <1>3 DEF IInv, Reports
    <2>4. \A p \in Pulls : Len(completed'[p]) <= 1
      BY DEF IInv, Reports
    <2>5. QED BY <1>1, <1>4, <2>1, <2>2, <2>3, <2>4 DEF Reports
  <1>6. QED BY <1>2, <1>5

\* What a task that ends in state s reports.
Report(t, s) == (Complete(t, TRUE) /\ s = "done") \/ Complete(t, FALSE)

\* A task that ends reports once.
LEMMA OneReport ==
  ASSUME IInv, NEW t \in 1 .. Len(tasks), NEW s \in {"done", "failed"},
         Goto(t, s), UNCHANGED sent, tasks[t].state \in Live,
         Report(t, s)
  PROVE  Reports' /\ OneAtATime' /\ completed' \in [Pulls -> Seq(BOOLEAN)]
  <1> DEFINE q == tasks[t].pull
  <1>1. /\ Len(tasks') = Len(tasks)
        /\ \A u \in 1 .. Len(tasks) :
             /\ tasks'[u].pull = tasks[u].pull /\ tasks[u].pull \in Pulls
             /\ tasks'[u].state = IF u = t THEN s ELSE tasks[u].state
    BY GotoFacts DEF IInv, States
  <1>2. completed[q] = <<>> /\ Types /\ q \in Pulls
    <2>1. q \notin Over /\ Types /\ q \in Pulls
      BY <1>1 DEF IInv, Reports
    <2>2. QED BY <2>1, Zenon DEF Over
  <1>3. /\ completed' \in [Pulls -> Seq(BOOLEAN)]
        /\ \A p \in Pulls : p # q => completed'[p] = completed[p]
        /\ completed'[q] # <<>> /\ Len(completed'[q]) = 1
        /\ q \in Succeeded' => s = "done"
    <2>1. CASE Complete(t, TRUE) /\ s = "done"
      <3>1. /\ completed' \in [Pulls -> Seq(BOOLEAN)]
            /\ completed'[q] = <<TRUE>> /\ Len(<<TRUE>>) = 1 /\ <<TRUE>> # <<>>
            /\ \A p \in Pulls : p # q => completed'[p] = completed[p]
        BY <1>2, <2>1, CompleteFacts
      <3>2. QED BY <2>1, <3>1
    <2>2. CASE Complete(t, FALSE)
      <3>1. /\ completed' \in [Pulls -> Seq(BOOLEAN)]
            /\ completed'[q] = <<FALSE>> /\ Len(<<FALSE>>) = 1 /\ <<FALSE>> # <<>>
            /\ \A p \in Pulls : p # q => completed'[p] = completed[p]
        BY <1>2, <2>2, CompleteFacts
      <3>2. <<FALSE>> # <<TRUE>>
        OBVIOUS
      <3>3. q \notin Succeeded'
        BY <3>1, <3>2, Zenon DEF Succeeded
      <3>4. QED BY <3>1, <3>3
    <2>3. QED BY <2>1, <2>2 DEF Report
  <1>4. /\ \A p \in Pulls : p \in Over' <=> p \in Over \/ p = q
        /\ \A p \in Pulls : p # q => (p \in Succeeded' <=> p \in Succeeded)
        /\ Over' \subseteq Pulls /\ Succeeded' \subseteq Pulls
    BY <1>3, Zenon DEF Over, Succeeded
  <1>5. OneAtATime'
    BY <1>4 DEF IInv, OneAtATime
  <1>6. ASSUME NEW u \in 1 .. Len(tasks), tasks'[u].state \in Live
        PROVE  tasks'[u].pull \notin Over'
    <2>1. u # t /\ tasks[u].state \in Live
      BY <1>1, <1>6 DEF Live
    <2>2. tasks[u].pull # q /\ tasks[u].pull \in Pulls
      BY <1>1, <2>1 DEF IInv, Created
    <2>3. tasks[u].pull \notin Over
      BY <2>1 DEF IInv, Reports
    <2>4. QED BY <1>1, <1>4, <2>2, <2>3
  <1>7. ASSUME NEW p \in Pulls, p # q
        PROVE  /\ p \in Over' => \E u \in 1 .. Len(tasks) :
                    tasks'[u].pull = p /\ tasks'[u].state \notin Live
               /\ p \in Succeeded' => \E u \in 1 .. Len(tasks) :
                    tasks'[u].pull = p /\ tasks'[u].state = "done"
    <2>1. \A u \in 1 .. Len(tasks) : tasks[u].pull = p =>
            tasks'[u].state = tasks[u].state /\ tasks'[u].pull = p
      BY <1>1, <1>7
    <2>2. p \in Over' => p \in Over
      BY <1>4, <1>7
    <2>3. p \in Succeeded' => p \in Succeeded
      BY <1>4, <1>7
    <2>4. QED BY <2>1, <2>2, <2>3 DEF IInv, Reports
  <1>8. /\ tasks'[t].pull = q /\ tasks'[t].state \notin Live
        /\ q \in Succeeded' => tasks'[t].state = "done"
    BY <1>1, <1>3 DEF Live
  <1>9. ASSUME NEW p \in Pulls PROVE Len(completed'[p]) <= 1
    <2>1. CASE p = q
      <3>1. Len(completed'[p]) = 1
        BY <1>3, <2>1, Zenon
      <3>2. QED BY <3>1
    <2>2. CASE p # q
      <3>1. completed'[p] = completed[p]
        BY <1>3, <2>2
      <3>2. Len(completed[p]) <= 1
        BY DEF IInv, Reports
      <3>3. QED BY <3>1, <3>2
    <2>3. QED BY <2>1, <2>2
  <1>10. /\ \A p \in Over' : \E u \in 1 .. Len(tasks') :
              tasks'[u].pull = p /\ tasks'[u].state \notin Live
         /\ \A p \in Succeeded' : \E u \in 1 .. Len(tasks') :
              tasks'[u].pull = p /\ tasks'[u].state = "done"
    BY <1>1, <1>4, <1>7, <1>8
  <1>11. Reports'
    BY <1>1, <1>6, <1>9, <1>10 DEF Reports
  <1>12. QED BY <1>3, <1>5, <1>11

\* A step that leaves what a task has read and what waits for it alone.
LEMMA StreamKept ==
  ASSUME NEW u, NEW p, StreamOf(u, p), tasks'[u].pull = p,
         UNCHANGED <<sent, pc, cur>>, written'[u] = written[u],
         queues'[u] = queues[u],
         tasks'[u].state \in {"queued", "open"} =>
           tasks[u].state \in {"queued", "open"},
         tasks'[u].state \in {"close", "erased", "done"} =>
           tasks[u].state \in {"close", "erased", "done"}
  PROVE  StreamOf(u, tasks[u].pull)'
  BY DEF StreamOf, Taking

\* The same when a call starts or ends that has nothing for the task.
LEMMA StreamIdle ==
  ASSUME NEW u, NEW p, StreamOf(u, p), tasks'[u].pull = p,
         sent'[p] = sent[p], ~Taking(u), ~Taking(u)',
         written'[u] = written[u], queues'[u] = queues[u],
         tasks'[u].state = tasks[u].state
  PROVE  StreamOf(u, tasks[u].pull)'
  <1>1. /\ Len(written'[u]) <= Segs[p]
        /\ \A i \in 1 .. Len(written'[u]) : written'[u][i] = Seg(p, i - 1)
    BY DEF StreamOf
  <1>2. tasks'[u].state \in {"queued", "open"} =>
          /\ Len(written'[u]) + Len(queues'[u]) = sent'[p]
          /\ \A i \in 1 .. Len(queues'[u]) :
               queues'[u][i] = Seg(p, Len(written'[u]) + i - 1)
    BY DEF StreamOf
  <1>3. tasks'[u].state \in {"close", "erased", "done"} =>
          Len(written'[u]) = Segs[p] /\ sent'[p] = Segs[p]
    BY DEF StreamOf
  <1>4. QED BY <1>1, <1>2, <1>3 DEF StreamOf

\* Failures are bounded.
LEMMA FaultFacts ==
  ASSUME nfault \in 0 .. MaxFault, Fault PROVE nfault' \in 0 .. MaxFault
  BY DEF Fault

\* popen, or its failure.
LEMMA PopenKeeps ==
  ASSUME IInv, NEW t \in 1 .. Len(tasks), Popen(t)
  PROVE  IInv'
  <1>1. PICK s \in {"open", "failed"} :
          /\ Goto(t, s) /\ nfault' \in 0 .. MaxFault
          /\ \/ s = "open" /\ UNCHANGED completed
             \/ s = "failed" /\ Report(t, s)
    <2>1. nfault \in 0 .. MaxFault
      BY DEF IInv, Types
    <2>2. CASE Goto(t, "open") /\ UNCHANGED <<completed, nfault>>
      BY <2>1, <2>2
    <2>3. CASE Goto(t, "failed") /\ Fault /\ Complete(t, FALSE)
      <3>1. Report(t, "failed")
        BY <2>3, Zenon DEF Report
      <3>2. nfault' \in 0 .. MaxFault
        BY <2>1, <2>3, FaultFacts
      <3>3. QED BY <2>3, <3>1, <3>2, Zenon
    <2>4. QED BY <2>2, <2>3 DEF Popen
  <1>2. /\ tasks[t].state = "queued" /\ s \in States
        /\ UNCHANGED <<sent, pc, cur, untar_map, queues, written>>
    BY DEF Popen, States
  <1>3. /\ tasks' \in Seq([pull : Pulls, state : States])
        /\ Len(tasks') = Len(tasks)
        /\ \A u \in 1 .. Len(tasks) :
             /\ tasks'[u].pull = tasks[u].pull /\ tasks[u].pull \in Pulls
             /\ tasks'[u].state = IF u = t THEN s ELSE tasks[u].state
    BY <1>1, <1>2, GotoFacts DEF IInv
  <1>4. Call' /\ Map' /\ Created' /\ Begun'
    BY <1>1, <1>2, MapKept DEF Live
  <1>5. Reports' /\ OneAtATime' /\ completed' \in [Pulls -> Seq(BOOLEAN)]
    <2>1. CASE s = "open" /\ UNCHANGED completed
      BY <1>1, <1>2, <2>1, NoReport DEF Live, IInv, Types
    <2>2. CASE s = "failed" /\ Report(t, s)
      BY <1>1, <1>2, <2>2, OneReport DEF Live
    <2>3. QED BY <1>1, <2>1, <2>2
  <1>6. Types'
    BY <1>1, <1>2, <1>3, <1>5 DEF IInv, Types
  <1>7. Streams'
    <2>1. \A u \in 1 .. Len(tasks) :
            /\ tasks'[u].state \in {"queued", "open"} =>
                 tasks[u].state \in {"queued", "open"}
            /\ tasks'[u].state \in {"close", "erased", "done"} =>
                 tasks[u].state \in {"close", "erased", "done"}
      BY <1>1, <1>2, <1>3
    <2>2. ASSUME NEW u \in 1 .. Len(tasks)
          PROVE  StreamOf(u, tasks[u].pull)'
      <3>1. StreamOf(u, tasks[u].pull) /\ tasks'[u].pull = tasks[u].pull
        BY <1>3 DEF IInv, Streams
      <3>2. QED BY <1>2, <2>1, <3>1, StreamKept
    <2>3. QED BY <1>3, <2>2 DEF Streams
  <1>8. QED BY <1>4, <1>5, <1>6, <1>7 DEF IInv

\* The head of a queue, put at the end of what was read.
LEMMA HeadToEnd ==
  ASSUME NEW S, NEW q \in Seq(S), q # <<>>, NEW w \in Seq(S)
  PROVE  /\ Head(q) = q[1] /\ Head(q) \in S /\ Len(q) \in Nat /\ Len(q) >= 1
         /\ Tail(q) \in Seq(S) /\ Len(Tail(q)) = Len(q) - 1
         /\ \A i \in 1 .. (Len(q) - 1) : Tail(q)[i] = q[i + 1]
         /\ Append(w, Head(q)) \in Seq(S) /\ Len(w) \in Nat
         /\ Len(Append(w, Head(q))) = Len(w) + 1
         /\ \A i \in 1 .. Len(w) : Append(w, Head(q))[i] = w[i]
         /\ Append(w, Head(q))[Len(w) + 1] = Head(q)
  OBVIOUS

\* What a task reads next is the next segment of its pull, and it is the last
\* one only when every segment has been given to untar().
LEMMA NextRead ==
  ASSUME NEW p \in Pulls, NEW t, StreamOf(t, p),
         tasks[t].state \in {"queued", "open"}, written[t] \in Seq(Segments),
         queues[t] \in Seq(Segments), queues[t] # <<>>,
         sent[p] \in Nat, sent[p] <= Segs[p], sent' = sent,
         tasks'[t].pull = p, UNCHANGED <<pc, cur>>,
         queues'[t] = Tail(queues[t]),
         written'[t] = Append(written[t], Head(queues[t])),
         tasks'[t].state = IF IsLast(Head(queues[t])) THEN "close" ELSE "open"
  PROVE  StreamOf(t, tasks[t].pull)'
  <1> DEFINE w == written[t]
             q == queues[t]
  <1>1. /\ q[1] = Head(q) /\ Len(q) \in Nat /\ Len(q) >= 1
        /\ Len(queues'[t]) = Len(q) - 1 /\ Len(w) \in Nat
        /\ \A i \in 1 .. (Len(q) - 1) : queues'[t][i] = q[i + 1]
        /\ Len(written'[t]) = Len(w) + 1
        /\ \A i \in 1 .. Len(w) : written'[t][i] = w[i]
        /\ written'[t][Len(w) + 1] = q[1]
    BY HeadToEnd
  <1>2. /\ Taking(t) => Len(w) + Len(q) + 1 = sent[p] /\ cur.data.pull = p
        /\ ~Taking(t) => Len(w) + Len(q) = sent[p]
        /\ \A i \in 1 .. Len(q) : q[i] = Seg(p, Len(w) + i - 1)
        /\ \A i \in 1 .. Len(w) : w[i] = Seg(p, i - 1)
    BY DEF StreamOf
  <1>3. Taking(t)' <=> Taking(t)
    BY DEF Taking
  <1>4. Segs[p] \in Nat
    OBVIOUS
  <1> HIDE DEF w, q
  <1>5. q[1] = Seg(p, Len(w)) /\ Len(w) + 1 <= Segs[p]
    BY <1>1, <1>2, <1>4
  <1>6. \A i \in 1 .. Len(w) + 1 : written'[t][i] = Seg(p, i - 1)
    BY <1>1, <1>2, <1>5
  <1>7. \A i \in 1 .. (Len(q) - 1) : queues'[t][i] = Seg(p, (Len(w) + 1) + i - 1)
    BY <1>1, <1>2
  <1>8. CASE IsLast(q[1])
    <2>1. Len(w) + 1 = Segs[p] /\ tasks'[t].state = "close"
      BY <1>1, <1>4, <1>5, <1>8 DEF IsLast, Seg, q
    <2>2. sent[p] = Segs[p]
      BY <1>1, <1>2, <1>4, <2>1
    <2>3. Len(written'[t]) = Segs[p]
      BY <1>1, <2>1
    <2>4. \A i \in 1 .. Len(written'[t]) : written'[t][i] = Seg(p, i - 1)
      BY <1>6, <2>1, <2>3
    <2>5. /\ Len(written'[t]) <= Segs[p] /\ sent'[p] = Segs[p]
          /\ tasks'[t].state \notin {"queued", "open"}
      BY <1>4, <2>1, <2>2, <2>3
    <2>6. QED BY <2>3, <2>4, <2>5, Zenon DEF StreamOf
  <1>9. CASE ~IsLast(q[1])
    <2>1. tasks'[t].state = "open"
      BY <1>1, <1>9 DEF q
    <2>2. /\ Taking(t) => Len(written'[t]) + Len(queues'[t]) + 1 = sent[p]
          /\ ~Taking(t) => Len(written'[t]) + Len(queues'[t]) = sent[p]
      <3> DEFINE a == Len(w)
                 b == Len(q)
                 c == Len(written'[t])
                 d == Len(queues'[t])
                 n == sent[p]
      <3>1. /\ a \in Nat /\ b \in Nat /\ c = a + 1 /\ d = b - 1
            /\ Taking(t) => a + b + 1 = n
            /\ ~Taking(t) => a + b = n
        BY <1>1, <1>2
      <3> HIDE DEF a, b, c, d, n
      <3>2. (Taking(t) => c + d + 1 = n) /\ (~Taking(t) => c + d = n)
        BY <3>1
      <3>3. QED BY <3>2 DEF c, d, n
    <2>3. QED BY <1>1, <1>2, <1>3, <1>5, <1>6, <1>7, <2>1, <2>2 DEF StreamOf
  <1>10. QED BY <1>8, <1>9

\* dequeue and fwrite, or its failure.
LEMMA WriteKeeps ==
  ASSUME IInv, NEW t \in 1 .. Len(tasks), WriteSegment(t)
  PROVE  IInv'
  <1> DEFINE last == IF IsLast(Head(queues[t])) THEN "close" ELSE "open"
             more == [written EXCEPT ![t] = Append(@, Head(queues[t]))]
  <1>1. PICK s \in {"open", "close", "failed"} :
          /\ Goto(t, s) /\ nfault' \in 0 .. MaxFault
          /\ \/ s = last /\ written' = more /\ UNCHANGED completed
             \/ s = "failed" /\ written' = written /\ Report(t, s)
    <2>1. nfault \in 0 .. MaxFault
      BY DEF IInv, Types
    <2>2. CASE Goto(t, last) /\ written' = more /\ UNCHANGED <<completed, nfault>>
      BY <2>1, <2>2
    <2>3. CASE /\ Goto(t, "failed") /\ Fault /\ Complete(t, FALSE)
               /\ UNCHANGED written
      <3>1. Report(t, "failed")
        BY <2>3, Zenon DEF Report
      <3>2. nfault' \in 0 .. MaxFault
        BY <2>1, <2>3, FaultFacts
      <3>3. QED BY <2>3, <3>1, <3>2, Zenon
    <2>4. QED BY <2>2, <2>3 DEF WriteSegment
  <1>2. /\ tasks[t].state = "open" /\ s \in States /\ queues[t] # <<>>
        /\ UNCHANGED <<sent, pc, cur, untar_map>>
        /\ queues' = [queues EXCEPT ![t] = Tail(queues[t])]
    BY DEF WriteSegment, States
  <1>3. /\ tasks' \in Seq([pull : Pulls, state : States])
        /\ Len(tasks') = Len(tasks)
        /\ \A u \in 1 .. Len(tasks) :
             /\ tasks'[u].pull = tasks[u].pull /\ tasks[u].pull \in Pulls
             /\ tasks'[u].state = IF u = t THEN s ELSE tasks[u].state
    BY <1>1, <1>2, GotoFacts DEF IInv
  <1>4. Call' /\ Map' /\ Created' /\ Begun'
    BY <1>1, <1>2, MapKept DEF Live
  <1>5. Reports' /\ OneAtATime' /\ completed' \in [Pulls -> Seq(BOOLEAN)]
    <2>1. CASE s = last /\ UNCHANGED completed
      BY <1>1, <1>2, <2>1, NoReport DEF Live, IInv, Types
    <2>2. CASE s = "failed" /\ Report(t, s)
      BY <1>1, <1>2, <2>2, OneReport DEF Live
    <2>3. QED BY <1>1, <2>1, <2>2
  <1>6. /\ queues \in Seq(Seq(Segments)) /\ Len(queues) = Len(tasks)
        /\ written \in Seq(Seq(Segments)) /\ Len(written) = Len(tasks)
        /\ queues[t] \in Seq(Segments) /\ written[t] \in Seq(Segments)
    <2>1. /\ queues \in Seq(Seq(Segments)) /\ Len(queues) = Len(tasks)
          /\ written \in Seq(Seq(Segments)) /\ Len(written) = Len(tasks)
      BY DEF IInv, Types
    <2>2. QED BY <2>1
  <1>7. Tail(queues[t]) \in Seq(Segments)
        /\ Append(written[t], Head(queues[t])) \in Seq(Segments)
    BY <1>2, <1>6, HeadToEnd
  <1>8. /\ queues' \in Seq(Seq(Segments)) /\ Len(queues') = Len(tasks)
        /\ queues'[t] = Tail(queues[t])
        /\ \A u \in 1 .. Len(tasks) : u # t => queues'[u] = queues[u]
    <2> DEFINE e == Tail(queues[t])
               S == Seq(Segments)
    <2>1. queues \in Seq(S) /\ e \in S /\ queues' = [queues EXCEPT ![t] = e]
      BY <1>2, <1>6, <1>7
    <2> HIDE DEF e, S
    <2>2. QED BY <1>6, <2>1, SeqExcept DEF e, S
  <1>9. /\ more \in Seq(Seq(Segments)) /\ Len(more) = Len(tasks)
        /\ more[t] = Append(written[t], Head(queues[t]))
        /\ \A u \in 1 .. Len(tasks) : u # t => more[u] = written[u]
    <2> DEFINE e == Append(written[t], Head(queues[t]))
               S == Seq(Segments)
    <2>1. written \in Seq(S) /\ e \in S /\ more = [written EXCEPT ![t] = e]
      BY <1>6, <1>7
    <2> HIDE DEF e, S, more
    <2>2. QED BY <1>6, <2>1, SeqExcept DEF e, S
  <1> HIDE DEF more, last
  <1>10. Types'
    <2>1. written' \in Seq(Seq(Segments)) /\ Len(written') = Len(tasks')
      BY <1>1, <1>3, <1>6, <1>9
    <2>2. QED BY <1>1, <1>2, <1>3, <1>5, <1>8, <2>1 DEF IInv, Types
  <1>11. ASSUME NEW u \in 1 .. Len(tasks) PROVE StreamOf(u, tasks[u].pull)'
    <2>1. /\ StreamOf(u, tasks[u].pull) /\ tasks'[u].pull = tasks[u].pull
          /\ tasks[u].pull \in Pulls
      BY <1>3 DEF IInv, Streams
    <2>2. CASE u # t
      <3>1. tasks'[u].state = tasks[u].state
        BY <1>3, <2>2
      <3>2. written'[u] = written[u] /\ queues'[u] = queues[u]
        BY <1>1, <1>8, <1>9, <2>2
      <3>3. QED BY <1>2, <2>1, <3>1, <3>2, StreamKept
    <2>3. CASE u = t /\ s = last /\ written' = more
      <3>1. sent[tasks[t].pull] \in Nat /\ sent[tasks[t].pull] <= Segs[tasks[t].pull]
        BY <2>1, <2>3 DEF IInv, Types
      <3>2. tasks'[t].state = IF IsLast(Head(queues[t])) THEN "close" ELSE "open"
        BY <1>3, <2>3 DEF last
      <3>3. QED BY <1>2, <1>6, <1>8, <1>9, <2>1, <2>3, <3>1, <3>2, NextRead
    <2>4. CASE u = t /\ s = "failed" /\ written' = written
      <3>1. tasks'[t].state = "failed"
        BY <1>3, <2>4
      <3>2. QED BY <2>1, <2>4, <3>1 DEF StreamOf
    <2>5. QED BY <1>1, <2>2, <2>3, <2>4
  <1>12. Streams'
    BY <1>3, <1>11 DEF Streams
  <1>13. QED BY <1>4, <1>5, <1>10, <1>12 DEF IInv

\* pclose and the erase: the entry that leaves the map is the task's own.
LEMMA EraseKeeps ==
  ASSUME IInv, NEW t \in 1 .. Len(tasks), Erase(t)
  PROVE  IInv'
  <1> DEFINE l == LayerOfTask(t)
  <1>1. /\ Goto(t, "erased") /\ tasks[t].state = "close"
        /\ untar_map' = [untar_map EXCEPT ![l] = None]
        /\ UNCHANGED <<sent, pc, cur, queues, written, completed, nfault>>
    BY DEF Erase, LayerOfTask
  <1>2. /\ tasks' \in Seq([pull : Pulls, state : States])
        /\ Len(tasks') = Len(tasks) /\ Len(tasks) \in Nat
        /\ \A u \in 1 .. Len(tasks) :
             /\ tasks'[u].pull = tasks[u].pull /\ tasks[u].pull \in Pulls
             /\ tasks'[u].state = IF u = t THEN "erased" ELSE tasks[u].state
             /\ LayerOfTask(u)' = LayerOfTask(u)
    <2>1. /\ tasks' \in Seq([pull : Pulls, state : States])
          /\ Len(tasks') = Len(tasks)
          /\ \A u \in 1 .. Len(tasks) :
               /\ tasks'[u].pull = tasks[u].pull /\ tasks[u].pull \in Pulls
               /\ tasks'[u].state = IF u = t THEN "erased" ELSE tasks[u].state
      BY <1>1, GotoFacts DEF IInv, States
    <2>2. Len(tasks) \in Nat
      BY DEF IInv, Types
    <2>3. QED BY <2>1, <2>2 DEF LayerOfTask
  <1>3. Reports' /\ OneAtATime'
    BY <1>1, NoReport DEF Live
  <1>4. /\ l \in Layers /\ untar_map \in [Layers -> 0 .. Len(tasks)]
        /\ untar_map' \in [Layers -> 0 .. Len(tasks)] /\ untar_map'[l] = None
        /\ \A k \in Layers : k # l => untar_map'[k] = untar_map[k]
    <2>1. untar_map \in [Layers -> 0 .. Len(tasks)]
      BY DEF IInv, Types
    <2>2. l \in Layers
      BY <1>2 DEF LayerOfTask, Layers
    <2> HIDE DEF l
    <2>3. QED BY <1>1, <1>2, <2>1, <2>2 DEF None
  <1>5. Types'
    BY <1>1, <1>2, <1>4 DEF IInv, Types
  <1>6. untar_map[l] = t \/ Creating(t)
    <2>1. Map /\ tasks[t].state \in {"queued", "open", "close", "failed"}
      BY <1>1 DEF IInv
    <2>2. QED BY <2>1 DEF Map
  <1>7. Call'
    BY <1>1, <1>2, <1>4 DEF IInv, Call, LayerOfTask, Layers
  <1>8. Created'
    BY <1>1, <1>2 DEF IInv, Created
  <1>9. ASSUME NEW u \in 1 .. Len(tasks), u # t, untar_map[l] = u \/ Creating(u),
               LayerOfTask(u) = l
        PROVE  FALSE
    BY <1>6, <1>9 DEF IInv, Call, Creating, LayerOfTask, None
  <1>10. Map'
    <2>1. \A k \in Layers :
            untar_map'[k] # None => LayerOfTask(untar_map'[k]) = k
      BY <1>4 DEF IInv, Map
    <2>2. \A k \in Layers :
            untar_map'[k] # None => LayerOfTask(untar_map[k])' = k
      BY <1>2, <1>4, <2>1 DEF None, LayerOfTask
    <2>3. ASSUME NEW u \in 1 .. Len(tasks),
                 tasks'[u].state \in {"queued", "open", "close", "failed"}
          PROVE  untar_map'[LayerOfTask(u)'] = u \/ Creating(u)'
      <3>1. u # t /\ tasks[u].state \in {"queued", "open", "close", "failed"}
        BY <1>2, <2>3
      <3>2. untar_map[LayerOfTask(u)] = u \/ Creating(u)
        BY <3>1 DEF IInv, Map
      <3>3. LayerOfTask(u) # l /\ LayerOfTask(u) \in Layers
        BY <1>2, <1>9, <3>1, <3>2 DEF LayerOfTask, Layers
      <3>4. QED BY <1>1, <1>2, <1>4, <3>2, <3>3 DEF Creating
    <2>4. QED BY <1>2, <2>2, <2>3 DEF Map
  <1>11. Begun'
    <2>1. ASSUME NEW p \in Pulls, untar_map[LayerOf[p]] # None,
                 tasks[untar_map[LayerOf[p]]].state \in {"done", "failed"}
          PROVE  /\ untar_map'[LayerOf[p]] = untar_map[LayerOf[p]]
                 /\ tasks'[untar_map[LayerOf[p]]].state \in {"done", "failed"}
      <3>1. LayerOf[p] \in Layers
        BY DEF Layers
      <3> DEFINE k == LayerOf[p]
                 u == untar_map[k]
      <3>2. u \in 1 .. Len(tasks)
        BY <1>2, <1>4, <2>1, <3>1 DEF None
      <3>3. u # t
        BY <1>1, <2>1
      <3>4. LayerOfTask(u) = k
        BY <2>1, <3>1 DEF IInv, Map
      <3>5. k # l
        BY <1>9, <3>2, <3>3, <3>4
      <3>6. QED BY <1>2, <1>4, <2>1, <3>1, <3>2, <3>3, <3>5
    <2>2. ASSUME NEW p \in Pulls, sent[p] > 0
          PROVE  \/ \E u \in 1 .. Len(tasks) : tasks'[u].pull = p
                 \/ /\ untar_map'[LayerOf[p]] # None
                    /\ tasks'[untar_map'[LayerOf[p]]].state \in {"done", "failed"}
      <3>1. CASE \E u \in 1 .. Len(tasks) : tasks[u].pull = p
        BY <1>2, <3>1
      <3>2. CASE /\ untar_map[LayerOf[p]] # None
                 /\ tasks[untar_map[LayerOf[p]]].state \in {"done", "failed"}
        BY <2>1, <3>2
      <3>3. QED BY <2>2, <3>1, <3>2 DEF IInv, Begun
    <2>3. QED BY <1>1, <1>2, <2>2 DEF Begun
  <1>12. ASSUME NEW u \in 1 .. Len(tasks) PROVE StreamOf(u, tasks[u].pull)'
    <2>1. /\ StreamOf(u, tasks[u].pull) /\ tasks'[u].pull = tasks[u].pull
          /\ UNCHANGED <<sent, pc, cur, written, queues>>
      BY <1>1, <1>2 DEF IInv, Streams
    <2>2. /\ tasks'[u].state \in {"queued", "open"} =>
               tasks[u].state \in {"queued", "open"}
          /\ tasks'[u].state \in {"close", "erased", "done"} =>
               tasks[u].state \in {"close", "erased", "done"}
      BY <1>1, <1>2
    <2>3. QED BY <2>1, <2>2, StreamKept
  <1>13. Streams'
    BY <1>2, <1>12 DEF Streams
  <1>14. QED BY <1>3, <1>5, <1>7, <1>8, <1>10, <1>11, <1>13 DEF IInv

\* The report after the erase.
LEMMA FinishKeeps ==
  ASSUME IInv, NEW t \in 1 .. Len(tasks), Finish(t)
  PROVE  IInv'
  <1>1. /\ Goto(t, "done") /\ tasks[t].state = "erased"
        /\ UNCHANGED <<sent, pc, cur, untar_map, queues, written>>
    BY DEF Finish
  <1>2. Report(t, "done") /\ nfault' \in 0 .. MaxFault
    <2>1. nfault \in 0 .. MaxFault
      BY DEF IInv, Types
    <2>2. CASE Complete(t, TRUE) /\ UNCHANGED nfault
      BY <2>1, <2>2, Zenon DEF Report
    <2>3. CASE Complete(t, FALSE) /\ Fault
      <3>1. nfault' \in 0 .. MaxFault
        BY <2>1, <2>3, FaultFacts
      <3>2. QED BY <2>3, <3>1, Zenon DEF Report
    <2>4. QED BY <2>2, <2>3 DEF Finish
  <1>3. /\ tasks' \in Seq([pull : Pulls, state : States])
        /\ Len(tasks') = Len(tasks)
        /\ \A u \in 1 .. Len(tasks) :
             /\ tasks'[u].pull = tasks[u].pull /\ tasks[u].pull \in Pulls
             /\ tasks'[u].state = IF u = t THEN "done" ELSE tasks[u].state
    BY <1>1, GotoFacts DEF IInv, States
  <1>4. Call' /\ Map' /\ Created' /\ Begun'
    BY <1>1, MapKept DEF Live, States
  <1>5. Reports' /\ OneAtATime' /\ completed' \in [Pulls -> Seq(BOOLEAN)]
    BY <1>1, <1>2, OneReport DEF Live
  <1>6. Types'
    BY <1>1, <1>2, <1>3, <1>5 DEF IInv, Types
  <1>7. ASSUME NEW u \in 1 .. Len(tasks) PROVE StreamOf(u, tasks[u].pull)'
    <2>1. /\ StreamOf(u, tasks[u].pull) /\ tasks'[u].pull = tasks[u].pull
          /\ UNCHANGED <<sent, pc, cur, written, queues>>
      BY <1>1, <1>3 DEF IInv, Streams
    <2>2. /\ tasks'[u].state \in {"queued", "open"} =>
               tasks[u].state \in {"queued", "open"}
          /\ tasks'[u].state \in {"close", "erased", "done"} =>
               tasks[u].state \in {"close", "erased", "done"}
      BY <1>1, <1>3
    <2>3. QED BY <2>1, <2>2, StreamKept
  <1>8. Streams'
    BY <1>3, <1>7 DEF Streams
  <1>9. QED BY <1>4, <1>5, <1>6, <1>8 DEF IInv

-----------------------------------------------------------------------------
(* The steps of the loop thread. *)

\* What only depends on the calls that are over.
LEMMA FrameKept ==
  ASSUME IInv, UNCHANGED <<sent, tasks, completed>>
  PROVE  Created' /\ OneAtATime' /\ Reports'
  <1>1. Over' = Over /\ Succeeded' = Succeeded
    BY DEF Over, Succeeded
  <1>2. Created'
    BY DEF IInv, Created
  <1>3. OneAtATime'
    BY <1>1 DEF IInv, OneAtATime
  <1>4. Reports'
    BY <1>1 DEF IInv, Reports
  <1>5. QED BY <1>2, <1>3, <1>4

\* The segment at the end of the queue is the next one its task waits for.
LEMMA EnqueueKeeps == ASSUME IInv, Enqueue PROVE IInv'
  <1> DEFINE t == cur.task
             x == cur.data
  <1>1. /\ pc = "enqueue" /\ queues' = [queues EXCEPT ![t] = Append(queues[t], x)]
        /\ UNCHANGED <<sent, untar_map, tasks, written, completed, nfault>>
        /\ \/ cur.new /\ pc' = "emplace" /\ cur' = cur
           \/ ~cur.new /\ pc' = "loop" /\ cur' = NoCall
    BY DEF Enqueue
  <1>2. /\ t \in 1 .. Len(tasks) /\ x.pull \in Pulls /\ sent[x.pull] > 0
        /\ x = Seg(x.pull, sent[x.pull] - 1) /\ cur.new \in BOOLEAN
    BY <1>1 DEF IInv, Call
  <1>3. sent[x.pull] \in Nat
    BY <1>2 DEF IInv, Types
  <1>4. x \in Segments
    BY <1>2, <1>3 DEF Segments, Seg
  <1>5. /\ queues \in Seq(Seq(Segments)) /\ Len(queues) = Len(tasks)
        /\ queues[t] \in Seq(Segments)
    <2>1. queues \in Seq(Seq(Segments)) /\ Len(queues) = Len(tasks)
      BY DEF IInv, Types
    <2>2. QED BY <1>2, <2>1
  <1>6. /\ Append(queues[t], x) \in Seq(Segments) /\ Len(queues[t]) \in Nat
        /\ Len(Append(queues[t], x)) = Len(queues[t]) + 1
        /\ \A i \in 1 .. Len(queues[t]) : Append(queues[t], x)[i] = queues[t][i]
        /\ Append(queues[t], x)[Len(queues[t]) + 1] = x
    <2> DEFINE q == queues[t]
               y == cur.data
    <2>1. q \in Seq(Segments) /\ y \in Segments
      BY <1>4, <1>5
    <2> HIDE DEF q, y
    <2>2. /\ Append(q, y) \in Seq(Segments) /\ Len(q) \in Nat
          /\ Len(Append(q, y)) = Len(q) + 1
          /\ \A i \in 1 .. Len(q) : Append(q, y)[i] = q[i]
          /\ Append(q, y)[Len(q) + 1] = y
      BY <2>1
    <2>3. QED BY <2>2 DEF q, y
  <1>7. /\ queues' \in Seq(Seq(Segments)) /\ Len(queues') = Len(tasks)
        /\ queues'[t] = Append(queues[t], x)
        /\ \A u \in 1 .. Len(tasks) : u # t => queues'[u] = queues[u]
    <2> DEFINE e == Append(queues[t], x)
               S == Seq(Segments)
               k == cur.task
    <2>1. /\ queues \in Seq(S) /\ e \in S /\ queues' = [queues EXCEPT ![k] = e]
          /\ k \in 1 .. Len(queues)
      BY <1>1, <1>2, <1>5, <1>6
    <2> HIDE DEF e, S, k
    <2>2. /\ queues' \in Seq(S) /\ Len(queues') = Len(queues)
          /\ \A u \in 1 .. Len(queues) : queues'[u] = IF u = k THEN e ELSE queues[u]
      BY <2>1, SeqExcept
    <2>3. QED BY <1>5, <2>1, <2>2 DEF e, S, k
  <1>8. Types'
    BY <1>1, <1>7 DEF IInv, Types
  <1>9. Call'
    BY <1>1 DEF IInv, Call, LayerOfTask
  <1>10. Map'
    BY <1>1 DEF IInv, Map, LayerOfTask, Creating
  <1>11. Created' /\ Begun' /\ OneAtATime' /\ Reports'
    <2>1. Begun'
      BY <1>1 DEF IInv, Begun
    <2>2. QED BY <1>1, <2>1, FrameKept
  <1>12. ASSUME NEW u \in 1 .. Len(tasks) PROVE StreamOf(u, tasks[u].pull)'
    <2> DEFINE p == tasks[u].pull
    <2>1. StreamOf(u, p) /\ tasks' = tasks /\ written' = written /\ sent' = sent
      BY <1>1 DEF IInv, Streams
    <2>2. ~Taking(u)'
      BY <1>1 DEF Taking
    <2>3. CASE u # t
      <3>1. ~Taking(u) /\ queues'[u] = queues[u]
        BY <1>7, <2>3 DEF Taking
      <3>2. QED BY <2>1, <2>2, <3>1, StreamIdle
    <2>4. CASE u = t
      <3>1. Taking(u)
        BY <1>1, <2>4 DEF Taking
      <3>2. CASE tasks[u].state \in {"queued", "open"}
        <4>1. /\ Len(written[u]) + Len(queues[u]) + 1 = sent[p] /\ x.pull = p
              /\ \A i \in 1 .. Len(queues[u]) :
                   queues[u][i] = Seg(p, Len(written[u]) + i - 1)
          BY <2>1, <3>1, <3>2 DEF StreamOf
        <4> DEFINE a == Len(written[u])
                   b == Len(queues[u])
                   n == sent[p]
                   y == cur.data
        <4>2. a \in Nat /\ b \in Nat
          <5>1. written \in Seq(Seq(Segments)) /\ Len(written) = Len(tasks)
            BY DEF IInv, Types
          <5>2. written[u] \in Seq(Segments)
            BY <5>1
          <5>3. QED BY <1>6, <2>4, <5>2
        <4>3. a + b + 1 = n /\ y = Seg(p, n - 1)
          BY <1>2, <4>1
        <4>4. /\ Len(queues'[u]) = b + 1 /\ queues'[u][b + 1] = y
              /\ \A i \in 1 .. b : queues'[u][i] = Seg(p, a + i - 1)
          <5>1. /\ Len(queues'[u]) = b + 1 /\ queues'[u][b + 1] = y
                /\ \A i \in 1 .. b : queues'[u][i] = queues[u][i]
            BY <1>6, <1>7, <2>4, Zenon
          <5>2. QED BY <4>1, <5>1
        <4> HIDE DEF a, b, n, y
        <4>5. n - 1 = a + (b + 1) - 1 /\ a + (b + 1) = n
          BY <4>2, <4>3
        <4>6. ASSUME NEW i \in 1 .. b + 1
              PROVE  queues'[u][i] = Seg(p, a + i - 1)
          <5>1. CASE i \in 1 .. b
            BY <4>4, <5>1
          <5>2. CASE i = b + 1
            BY <4>3, <4>4, <4>5, <5>2
          <5>3. QED BY <4>2, <5>1, <5>2
        <4>7. ~Taking(u)' /\ tasks'[u].state = tasks[u].state
              /\ written'[u] = written[u] /\ sent'[p] = sent[p] /\ tasks'[u].pull = p
          BY <2>1, <2>2
        <4>8. Len(written[u]) + Len(queues'[u]) = sent[p]
          BY <4>4, <4>5 DEF a, n
        <4>9. \A i \in 1 .. Len(queues'[u]) :
                queues'[u][i] = Seg(p, Len(written[u]) + i - 1)
          BY <4>4, <4>6 DEF a
        <4>10. /\ Len(written[u]) <= Segs[p]
               /\ \A i \in 1 .. Len(written[u]) : written[u][i] = Seg(p, i - 1)
          BY <2>1 DEF StreamOf
        <4>11. QED BY <3>2, <4>7, <4>8, <4>9, <4>10 DEF StreamOf
      <3>3. CASE tasks[u].state \notin {"queued", "open"}
        BY <2>1, <3>3 DEF StreamOf
      <3>4. QED BY <3>2, <3>3
    <2>5. QED BY <2>3, <2>4
  <1>13. Streams'
    BY <1>1, <1>12 DEF Streams
  <1>14. QED BY <1>8, <1>9, <1>10, <1>11, <1>13 DEF IInv

\* The layer of a new task gets its entry.
LEMMA EmplaceKeeps == ASSUME IInv, Emplace PROVE IInv'
  <1> DEFINE t == cur.task
             l == LayerOfTask(t)
  <1>1. /\ pc = "emplace" /\ pc' = "loop" /\ cur' = NoCall
        /\ UNCHANGED <<sent, queues, tasks, written, completed, nfault>>
    BY DEF Emplace
  <1>2. /\ t \in 1 .. Len(tasks) /\ untar_map[l] = None /\ cur.new
        /\ LayerOf[cur.data.pull] = l
    BY <1>1 DEF IInv, Call, LayerOfTask
  <1>3. l \in Layers /\ untar_map \in [Layers -> 0 .. Len(tasks)]
    <2>1. tasks[t].pull \in Pulls
      BY <1>2, PullOfTask DEF IInv
    <2>2. QED BY <2>1 DEF IInv, Types, LayerOfTask, Layers
  <1>4. untar_map' = [untar_map EXCEPT ![l] = t]
    BY <1>2, <1>3 DEF Emplace
  <1>5. /\ untar_map' \in [Layers -> 0 .. Len(tasks)] /\ untar_map'[l] = t
        /\ \A k \in Layers : k # l => untar_map'[k] = untar_map[k]
    <2> HIDE DEF t, l
    <2>1. QED BY <1>2, <1>3, <1>4
  <1>6. Types'
    BY <1>1, <1>5 DEF IInv, Types
  <1>7. Call'
    BY <1>1 DEF Call
  <1>8. \A u : LayerOfTask(u)' = LayerOfTask(u)
    BY <1>1 DEF LayerOfTask
  <1>9. Map'
    <2>1. ASSUME NEW k \in Layers, untar_map'[k] # None
          PROVE  LayerOf[tasks[untar_map'[k]].pull] = k
      BY <1>5, <2>1 DEF IInv, Map, LayerOfTask
    <2>2. ASSUME NEW u \in 1 .. Len(tasks),
                 tasks[u].state \in {"queued", "open", "close", "failed"}
          PROVE  untar_map'[LayerOf[tasks[u].pull]] = u
      <3>1. LayerOf[tasks[u].pull] \in Layers
        <4>1. tasks[u].pull \in Pulls
          BY PullOfTask DEF IInv
        <4>2. QED BY <4>1 DEF Layers
      <3>2. untar_map[LayerOf[tasks[u].pull]] = u \/ u = t
        BY <2>2 DEF IInv, Map, Creating, LayerOfTask
      <3>3. CASE u = t
        BY <1>5, <3>3 DEF LayerOfTask
      <3>4. CASE u # t
        <4>1. LayerOf[tasks[u].pull] # l
          BY <1>2, <3>2, <3>4 DEF None
        <4>2. QED BY <1>5, <3>1, <3>2, <3>4, <4>1
      <3>5. QED BY <3>3, <3>4
    <2>3. QED BY <1>1, <2>1, <2>2 DEF Map, LayerOfTask
  <1>10. Begun'
    <2>1. \A p \in Pulls : untar_map[LayerOf[p]] # None =>
            untar_map'[LayerOf[p]] = untar_map[LayerOf[p]]
      BY <1>2, <1>5 DEF Layers
    <2>2. QED BY <1>1, <2>1 DEF IInv, Begun
  <1>11. Created' /\ OneAtATime' /\ Reports'
    BY <1>1, FrameKept
  <1>12. Streams'
    <2>1. \A u : ~Taking(u)' /\ ~Taking(u)
      BY <1>1 DEF Taking
    <2>2. ASSUME NEW u \in 1 .. Len(tasks) PROVE StreamOf(u, tasks[u].pull)'
      <3>1. StreamOf(u, tasks[u].pull)
        BY DEF IInv, Streams
      <3>2. QED BY <1>1, <2>1, <3>1, StreamIdle
    <2>3. QED BY <1>1, <2>2 DEF Streams
  <1>13. QED BY <1>6, <1>7, <1>9, <1>10, <1>11, <1>12 DEF IInv

\* A pull whose segments have not all arrived and that has a task finds it in
\* the map, unfinished or failed.
LEMMA OwnTask ==
  ASSUME IInv, pc = "loop", NEW p \in Pulls, sent[p] < Segs[p],
         NEW t \in 1 .. Len(tasks), tasks[t].pull = p
  PROVE  /\ untar_map[LayerOf[p]] = t
         /\ tasks[t].state \in {"queued", "open", "failed"}
  <1>1. sent[p] \in Nat /\ Segs[p] \in Nat
    BY DEF IInv, Types
  <1>2. tasks[t].state \notin {"close", "erased", "done"}
    <2>1. StreamOf(t, p)
      BY DEF IInv, Streams
    <2>2. QED BY <1>1, <2>1 DEF StreamOf
  <1>3. tasks[t].state \in {"queued", "open", "failed"}
    BY <1>2, PullOfTask DEF IInv, States
  <1>4. untar_map[LayerOf[p]] = t \/ Creating(t)
    BY <1>3 DEF IInv, Map, LayerOfTask
  <1>5. QED BY <1>3, <1>4 DEF Creating

\* A pull that finds nothing in the map has just begun; one that finds the
\* task of another pull finds it finished.
LEMMA Found ==
  ASSUME IInv, Overlap = FALSE, pc = "loop", NEW p \in Pulls, MayArrive(p)
  PROVE  /\ untar_map[LayerOf[p]] = None =>
              sent[p] = 0 /\ \A t \in 1 .. Len(tasks) : tasks[t].pull # p
         /\ \A t \in 1 .. Len(tasks) :
              untar_map[LayerOf[p]] = t /\ tasks[t].pull # p =>
                tasks[t].state \in {"done", "failed"}
         /\ \A q \in Pulls :
              q # p /\ LayerOf[p] = LayerOf[q] /\ sent[q] > 0 =>
                p \in Over \/ q \in Over
  <1>1. /\ sent[p] \in Nat /\ sent[p] < Segs[p]
        /\ sent[p] = 0 => \A q \in Pulls :
             LayerOf[q] = LayerOf[p] /\ sent[q] > 0 => q \in Over
    <2>1. sent[p] \in Nat
      BY DEF IInv, Types
    <2>2. QED BY <2>1 DEF MayArrive, IsCompleted, Over
  <1>2. ASSUME untar_map[LayerOf[p]] = None
        PROVE  sent[p] = 0 /\ \A t \in 1 .. Len(tasks) : tasks[t].pull # p
    <2>1. \A t \in 1 .. Len(tasks) : tasks[t].pull # p
      BY <1>1, <1>2, OwnTask DEF None
    <2>2. QED BY <1>1, <1>2, <2>1 DEF IInv, Begun
  <1>3. ASSUME NEW q \in Pulls, q # p, LayerOf[p] = LayerOf[q], sent[q] > 0
        PROVE  p \in Over \/ q \in Over
    <2>1. CASE sent[p] = 0
      BY <1>1, <1>3, <2>1
    <2>2. CASE sent[p] > 0
      BY <1>3, <2>2 DEF IInv, OneAtATime
    <2>3. QED BY <1>1, <2>1, <2>2
  <1>4. ASSUME NEW t \in 1 .. Len(tasks), untar_map[LayerOf[p]] = t,
               tasks[t].pull # p
        PROVE  tasks[t].state \in {"done", "failed"}
    <2> DEFINE q == tasks[t].pull
    <2>1. q \in Pulls /\ tasks[t].state \in States /\ sent[q] > 0
      BY PullOfTask DEF IInv, Created
    <2>2. LayerOf[q] = LayerOf[p]
      <3>1. LayerOf[p] \in Layers
        BY DEF Layers
      <3>2. QED BY <1>4, <3>1 DEF IInv, Map, LayerOfTask, None
    <2>3. p \notin Over
      <3>1. SUFFICES ASSUME p \in Over PROVE FALSE
        OBVIOUS
      <3>2. PICK u \in 1 .. Len(tasks) :
              tasks[u].pull = p /\ tasks[u].state \notin Live
        BY <3>1 DEF IInv, Reports
      <3>3. untar_map[LayerOf[p]] = u
        BY <1>1, <3>2, OwnTask
      <3>4. QED BY <1>4, <3>2, <3>3
    <2>4. q \in Over
      BY <1>3, <1>4, <2>1, <2>2, <2>3
    <2>5. tasks[t].state \notin Live
      BY <2>4 DEF IInv, Reports
    <2>6. QED BY <2>1, <2>5 DEF States, Live
  <1>5. QED BY <1>2, <1>3, <1>4

\* What untar() does to the counts, whatever it finds.
LEMMA Arrives ==
  ASSUME IInv, NEW p \in Pulls, MayArrive(p), sent' = [sent EXCEPT ![p] = @ + 1]
  PROVE  /\ sent' \in [Pulls -> Nat] /\ \A q \in Pulls : sent'[q] <= Segs[q]
         /\ sent'[p] = sent[p] + 1 /\ sent[p] \in Nat /\ sent[p] < Segs[p]
         /\ \A q \in Pulls : q # p => sent'[q] = sent[q]
         /\ \A q \in Pulls : sent[q] > 0 => sent'[q] > 0
  <1>1. /\ sent \in [Pulls -> Nat] /\ \A q \in Pulls : sent[q] <= Segs[q]
        /\ sent[p] < Segs[p] /\ Segs[p] \in Nat
    BY DEF IInv, Types, MayArrive
  <1>2. QED BY <1>1

\* untar() of a layer that is in the map.
LEMMA UntarFoundKeeps ==
  ASSUME IInv, Overlap = FALSE, NEW p \in Pulls, Untar(p),
         untar_map[LayerOf[p]] # None
  PROVE  IInv'
  <1> DEFINE l == LayerOf[p]
             t == untar_map[l]
  <1>1. /\ pc = "loop" /\ MayArrive(p) /\ sent' = [sent EXCEPT ![p] = @ + 1]
        /\ pc' = "enqueue"
        /\ cur' = [task |-> t, new |-> FALSE, data |-> Seg(p, sent[p])]
        /\ UNCHANGED <<untar_map, tasks, queues, written, completed, nfault>>
    BY DEF Untar, Find, NextSeg
  <1>2. /\ sent' \in [Pulls -> Nat] /\ \A q \in Pulls : sent'[q] <= Segs[q]
        /\ sent'[p] = sent[p] + 1 /\ sent[p] \in Nat /\ sent[p] < Segs[p]
        /\ \A q \in Pulls : q # p => sent'[q] = sent[q]
        /\ \A q \in Pulls : sent[q] > 0 => sent'[q] > 0
    BY <1>1, Arrives
  <1>3. l \in Layers /\ t \in 1 .. Len(tasks)
    <2>1. untar_map \in [Layers -> 0 .. Len(tasks)] /\ l \in Layers
      BY DEF IInv, Types, Layers
    <2>2. QED BY <2>1 DEF None
  <1>4. /\ tasks[t].pull # p => tasks[t].state \in {"done", "failed"}
        /\ \A q \in Pulls :
             q # p /\ LayerOf[p] = LayerOf[q] /\ sent[q] > 0 =>
               p \in Over \/ q \in Over
    BY <1>1, <1>3, Found
  <1>5. Over' = Over /\ Succeeded' = Succeeded
    BY <1>1 DEF Over, Succeeded
  <1>6. Types'
    BY <1>1, <1>2 DEF IInv, Types
  <1>7. Call'
    <2>1. /\ cur'.task = t /\ cur'.new = FALSE /\ cur'.data = Seg(p, sent[p])
          /\ cur'.data.pull = p /\ cur'.new \in BOOLEAN
      BY <1>1 DEF Seg
    <2>2. sent[p] = sent'[p] - 1 /\ sent'[p] > 0
      BY <1>2
    <2>3. QED BY <1>1, <1>3, <2>1, <2>2 DEF Call
  <1>8. Map'
    <2>1. ~cur'.new /\ tasks' = tasks /\ untar_map' = untar_map /\ pc = "loop"
      BY <1>1
    <2>2. QED BY <2>1 DEF IInv, Map, LayerOfTask, Creating
  <1>9. Created'
    <2>1. \A u \in 1 .. Len(tasks) : tasks[u].pull \in Pulls
      BY PullOfTask DEF IInv
    <2>2. QED BY <1>1, <1>2, <2>1 DEF IInv, Created
  <1>10. Begun'
    <2>1. \/ \E u \in 1 .. Len(tasks) : tasks[u].pull = p
          \/ untar_map[l] # None /\ tasks[t].state \in {"done", "failed"}
      BY <1>3, <1>4
    <2>2. ASSUME NEW q \in Pulls, sent'[q] > 0
          PROVE  \/ \E u \in 1 .. Len(tasks) : tasks[u].pull = q
                 \/ /\ untar_map[LayerOf[q]] # None
                    /\ tasks[untar_map[LayerOf[q]]].state \in {"done", "failed"}
      <3>1. CASE q = p
        BY <2>1, <3>1
      <3>2. CASE q # p
        BY <1>2, <2>2, <3>2 DEF IInv, Begun
      <3>3. QED BY <3>1, <3>2
    <2>3. QED BY <1>1, <2>2 DEF Begun
  <1>11. OneAtATime'
    BY <1>2, <1>4, <1>5 DEF IInv, OneAtATime
  <1>12. Reports'
    BY <1>1, <1>5 DEF IInv, Reports
  <1>13. ASSUME NEW u \in 1 .. Len(tasks) PROVE StreamOf(u, tasks[u].pull)'
    <2> DEFINE q == tasks[u].pull
    <2>1. /\ StreamOf(u, q) /\ tasks' = tasks /\ written' = written
          /\ queues' = queues /\ ~Taking(u)
      BY <1>1 DEF IInv, Streams, Taking
    <2>2. q \in Pulls /\ tasks[u].state \in States
      BY PullOfTask DEF IInv
    <2>3. CASE q = p /\ tasks[u].state \in {"queued", "open"}
      <3>1. u = t
        BY <1>1, <1>2, <2>3, OwnTask
      <3>2. Taking(u)' /\ cur'.data.pull = p
        BY <1>1, <3>1 DEF Taking, Seg
      <3>3. Len(written[u]) + Len(queues[u]) + 1 = sent'[p]
        <4>1. Len(written[u]) + Len(queues[u]) = sent[p]
          BY <2>1, <2>3 DEF StreamOf
        <4>2. QED BY <1>2, <4>1
      <3>4. QED BY <2>1, <2>3, <3>2, <3>3 DEF StreamOf
    <2>4. CASE q = p /\ tasks[u].state \notin {"queued", "open"}
      <3>1. tasks[u].state = "failed"
        BY <1>1, <1>2, <2>4, OwnTask
      <3>2. QED BY <2>1, <3>1 DEF StreamOf
    <2>5. CASE q # p
      <3>1. sent'[q] = sent[q]
        BY <1>2, <2>2, <2>5
      <3>2. CASE u # t
        <4>1. ~Taking(u)'
          BY <1>1, <3>2 DEF Taking
        <4>2. QED BY <2>1, <3>1, <4>1, StreamIdle
      <3>3. CASE u = t
        <4>1. tasks[u].state \in {"done", "failed"}
          BY <1>4, <2>5, <3>3
        <4>2. QED BY <2>1, <3>1, <4>1 DEF StreamOf
      <3>4. QED BY <3>2, <3>3
    <2>6. QED BY <2>3, <2>4, <2>5
  <1>14. Streams'
    BY <1>1, <1>13 DEF Streams
  <1>15. QED
    BY <1>6, <1>7, <1>8, <1>9, <1>10, <1>11, <1>12, <1>14 DEF IInv

\* A sequence that grew by one.
LEMMA Grown ==
  ASSUME NEW S, NEW q \in Seq(S), NEW e \in S
  PROVE  /\ Append(q, e) \in Seq(S) /\ Len(Append(q, e)) = Len(q) + 1
         /\ Len(q) \in Nat /\ Append(q, e)[Len(q) + 1] = e
         /\ \A i \in 1 .. Len(q) : Append(q, e)[i] = q[i]
  OBVIOUS

\* untar() of a layer that is not in the map.
LEMMA UntarNewKeeps ==
  ASSUME IInv, Overlap = FALSE, NEW p \in Pulls, Untar(p),
         untar_map[LayerOf[p]] = None, NEW N \in Nat, N = Len(tasks)
  PROVE  IInv'
  <1> DEFINE l == LayerOf[p]
             e == [pull |-> p, state |-> "queued"]
             R == [pull : Pulls, state : States]
             S == Seq(Segments)
  <1>1. /\ pc = "loop" /\ MayArrive(p) /\ sent' = [sent EXCEPT ![p] = @ + 1]
        /\ pc' = "enqueue"
        /\ cur' = [task |-> N + 1, new |-> TRUE, data |-> Seg(p, sent[p])]
        /\ tasks' = Append(tasks, e) /\ queues' = Append(queues, <<>>)
        /\ written' = Append(written, <<>>)
        /\ UNCHANGED <<untar_map, completed, nfault>>
    BY DEF Untar, Find, NextSeg
  <1>2. /\ sent' \in [Pulls -> Nat] /\ \A q \in Pulls : sent'[q] <= Segs[q]
        /\ sent'[p] = sent[p] + 1 /\ sent[p] \in Nat /\ sent[p] < Segs[p]
        /\ \A q \in Pulls : q # p => sent'[q] = sent[q]
        /\ \A q \in Pulls : sent[q] > 0 => sent'[q] > 0
    BY <1>1, Arrives
  <1>3. /\ sent[p] = 0 /\ \A t \in 1 .. N : tasks[t].pull # p
        /\ \A q \in Pulls :
             q # p /\ LayerOf[p] = LayerOf[q] /\ sent[q] > 0 =>
               p \in Over \/ q \in Over
    BY <1>1, Found
  <1>4. /\ tasks \in Seq(R) /\ queues \in Seq(S) /\ Len(queues) = N
        /\ written \in Seq(S) /\ Len(written) = N
        /\ untar_map \in [Layers -> 0 .. N] /\ l \in Layers
    BY DEF IInv, Types, Layers
  <1>5. e \in R /\ <<>> \in S /\ Len(<<>>) = 0
    BY DEF States
  <1>6. /\ tasks' \in Seq(R) /\ Len(tasks') = N + 1 /\ N \in Nat
        /\ tasks'[N + 1] = e /\ \A u \in 1 .. N : tasks'[u] = tasks[u]
    <2> HIDE DEF e, R
    <2>1. QED BY <1>1, <1>4, <1>5, Grown
  <1>7. /\ queues' \in Seq(S) /\ Len(queues') = N + 1
        /\ queues'[N + 1] = <<>> /\ \A u \in 1 .. N : queues'[u] = queues[u]
    <2> DEFINE x == <<>>
    <2>1. queues' = Append(queues, x) /\ x \in S
      BY <1>1, <1>5
    <2> HIDE DEF S, x
    <2>2. QED BY <1>4, <2>1, Grown DEF x
  <1>8. /\ written' \in Seq(S) /\ Len(written') = N + 1
        /\ written'[N + 1] = <<>> /\ \A u \in 1 .. N : written'[u] = written[u]
    <2> DEFINE x == <<>>
    <2>1. written' = Append(written, x) /\ x \in S
      BY <1>1, <1>5
    <2> HIDE DEF S, x
    <2>2. QED BY <1>4, <2>1, Grown DEF x
  <1>9. /\ tasks'[N + 1].pull = p /\ tasks'[N + 1].state = "queued"
        /\ N + 1 \in 1 .. N + 1 /\ \A u \in 1 .. N + 1 : u \in 1 .. N \/ u = N + 1
    BY <1>6
  <1>10. Over' = Over /\ Succeeded' = Succeeded
    BY <1>1 DEF Over, Succeeded
  <1>11. p \notin Over
    BY <1>3 DEF IInv, Reports
  <1>12. \A u \in 1 .. N : tasks[u].pull \in Pulls
    BY PullOfTask DEF IInv
  <1>13. Types'
    <2>1. untar_map' \in [Layers -> 0 .. N + 1]
      BY <1>1, <1>4, <1>6
    <2>2. QED BY <1>1, <1>2, <1>6, <1>7, <1>8, <2>1 DEF IInv, Types
  <1>14. Call'
    <2>1. /\ cur'.task = N + 1 /\ cur'.new /\ cur'.data = Seg(p, sent[p])
          /\ cur'.data.pull = p /\ cur'.new \in BOOLEAN
      BY <1>1 DEF Seg
    <2>2. sent[p] = sent'[p] - 1 /\ sent'[p] > 0
      BY <1>2
    <2>3. LayerOf[tasks'[cur'.task].pull] = l /\ untar_map'[l] = None
      BY <1>1, <1>9, <2>1
    <2>4. QED BY <1>1, <1>6, <1>9, <2>1, <2>2, <2>3 DEF Call, LayerOfTask
  <1>15. Map'
    <2>1. ASSUME NEW k \in Layers, untar_map[k] # None
          PROVE  LayerOf[tasks'[untar_map[k]].pull] = k
      <3>1. untar_map[k] \in 1 .. N
        BY <1>4, <1>6, <2>1 DEF None
      <3>2. QED BY <1>6, <2>1, <3>1 DEF IInv, Map, LayerOfTask
    <2>2. ASSUME NEW u \in 1 .. N,
                 tasks[u].state \in {"queued", "open", "close", "failed"}
          PROVE  untar_map[LayerOf[tasks[u].pull]] = u
      BY <1>1, <2>2 DEF IInv, Map, Creating, LayerOfTask
    <2>3. Creating(N + 1)'
      BY <1>1 DEF Creating
    <2>4. ASSUME NEW u \in 1 .. N + 1,
                 tasks'[u].state \in {"queued", "open", "close", "failed"}
          PROVE  untar_map[LayerOf[tasks'[u].pull]] = u \/ Creating(u)'
      <3>1. CASE u \in 1 .. N
        BY <1>6, <2>2, <2>4, <3>1
      <3>2. CASE u = N + 1
        BY <2>3, <3>2
      <3>3. QED BY <1>9, <3>1, <3>2
    <2>5. untar_map' = untar_map /\ Len(tasks') = N + 1
      BY <1>1, <1>6
    <2>6. QED BY <2>1, <2>4, <2>5 DEF Map, LayerOfTask
  <1>16. Created'
    <2>1. ASSUME NEW u \in 1 .. N + 1 PROVE sent'[tasks'[u].pull] > 0
      <3>1. CASE u \in 1 .. N
        <4>1. sent[tasks[u].pull] > 0
          BY <3>1 DEF IInv, Created
        <4>2. QED BY <1>2, <1>6, <1>12, <3>1, <4>1
      <3>2. CASE u = N + 1
        BY <1>2, <1>9, <3>2
      <3>3. QED BY <1>9, <3>1, <3>2
    <2>2. \A u, v \in 1 .. N + 1 : tasks'[u].pull = tasks'[v].pull => u = v
      BY <1>3, <1>6, <1>9 DEF IInv, Created
    <2>3. QED BY <1>6, <2>1, <2>2 DEF Created
  <1>17. Begun'
    <2>1. ASSUME NEW q \in Pulls, sent'[q] > 0
          PROVE  \/ \E u \in 1 .. N + 1 : tasks'[u].pull = q
                 \/ /\ untar_map[LayerOf[q]] # None
                    /\ tasks'[untar_map[LayerOf[q]]].state \in {"done", "failed"}
      <3>1. CASE q = p
        BY <1>9, <3>1
      <3>2. CASE q # p
        <4>1. \/ \E u \in 1 .. N : tasks[u].pull = q
              \/ /\ untar_map[LayerOf[q]] # None
                 /\ tasks[untar_map[LayerOf[q]]].state \in {"done", "failed"}
          BY <1>2, <2>1, <3>2 DEF IInv, Begun
        <4>2. untar_map[LayerOf[q]] # None => untar_map[LayerOf[q]] \in 1 .. N
          BY <1>4, <1>6 DEF Layers, None
        <4>3. CASE \E u \in 1 .. N : tasks[u].pull = q
          BY <1>6, <4>3
        <4>4. CASE /\ untar_map[LayerOf[q]] # None
                   /\ tasks[untar_map[LayerOf[q]]].state \in {"done", "failed"}
          <5>1. tasks'[untar_map[LayerOf[q]]] = tasks[untar_map[LayerOf[q]]]
            BY <1>6, <4>2, <4>4
          <5>2. QED BY <4>4, <5>1
        <4>5. QED BY <4>1, <4>3, <4>4
      <3>3. QED BY <3>1, <3>2
    <2>2. untar_map' = untar_map /\ Len(tasks') = N + 1
      BY <1>1, <1>6
    <2>3. QED BY <2>1, <2>2 DEF Begun
  <1>18. OneAtATime'
    BY <1>2, <1>3, <1>10 DEF IInv, OneAtATime
  <1>19. Reports'
    <2>1. \A u \in 1 .. N + 1 :
            tasks'[u].state \in Live => tasks'[u].pull \notin Over
      BY <1>6, <1>9, <1>11 DEF IInv, Reports
    <2>2. \A q \in Over : \E u \in 1 .. N + 1 :
            tasks'[u].pull = q /\ tasks'[u].state \notin Live
      <3>1. TAKE q \in Over
      <3>2. PICK u \in 1 .. N : tasks[u].pull = q /\ tasks[u].state \notin Live
        BY DEF IInv, Reports
      <3>3. u \in 1 .. N + 1 /\ tasks'[u] = tasks[u]
        BY <1>6, <3>2
      <3>4. QED BY <3>2, <3>3
    <2>3. \A q \in Succeeded : \E u \in 1 .. N + 1 :
            tasks'[u].pull = q /\ tasks'[u].state = "done"
      <3>1. TAKE q \in Succeeded
      <3>2. PICK u \in 1 .. N : tasks[u].pull = q /\ tasks[u].state = "done"
        BY DEF IInv, Reports
      <3>3. u \in 1 .. N + 1 /\ tasks'[u] = tasks[u]
        BY <1>6, <3>2
      <3>4. QED BY <3>2, <3>3
    <2>4. \A q \in Pulls : Len(completed'[q]) <= 1
      BY <1>1 DEF IInv, Reports
    <2>5. Len(tasks') = N + 1 /\ Over' = Over /\ Succeeded' = Succeeded
      BY <1>6, <1>10
    <2>6. /\ \A u \in 1 .. Len(tasks') :
               tasks'[u].state \in Live => tasks'[u].pull \notin Over'
          /\ \A q \in Over' : \E u \in 1 .. Len(tasks') :
               tasks'[u].pull = q /\ tasks'[u].state \notin Live
          /\ \A q \in Succeeded' : \E u \in 1 .. Len(tasks') :
               tasks'[u].pull = q /\ tasks'[u].state = "done"
      BY <2>1, <2>2, <2>3, <2>5
    <2>7. QED BY <2>4, <2>6, Zenon DEF Reports
  <1>20. ASSUME NEW u \in 1 .. N PROVE StreamOf(u, tasks[u].pull)'
    <2>1. StreamOf(u, tasks[u].pull) /\ ~Taking(u)
      BY <1>1 DEF IInv, Streams, Taking
    <2>2. ~Taking(u)'
      BY <1>1, <1>6 DEF Taking
    <2>3. /\ tasks'[u].pull = tasks[u].pull /\ tasks'[u].state = tasks[u].state
          /\ written'[u] = written[u] /\ queues'[u] = queues[u]
          /\ sent'[tasks[u].pull] = sent[tasks[u].pull]
      BY <1>2, <1>3, <1>6, <1>7, <1>8, <1>12
    <2>4. QED BY <2>1, <2>2, <2>3, StreamIdle
  <1>21. StreamOf(N + 1, tasks[N + 1].pull)'
    <2>1. Taking(N + 1)' /\ cur'.data.pull = p
      BY <1>1 DEF Taking, Seg
    <2>2. /\ Len(written'[N + 1]) = 0 /\ Len(queues'[N + 1]) = 0
          /\ sent'[p] = 1 /\ 0 <= Segs[p]
      BY <1>2, <1>3, <1>5, <1>7, <1>8
    <2>3. QED BY <1>9, <2>1, <2>2 DEF StreamOf
  <1>22. Streams'
    BY <1>6, <1>9, <1>20, <1>21 DEF Streams
  <1>23. QED
    BY <1>13, <1>14, <1>15, <1>16, <1>17, <1>18, <1>19, <1>22 DEF IInv

-----------------------------------------------------------------------------
(* The theorems. *)

\* One step of the engine.
LEMMA NextIInv == Overlap = FALSE /\ IInv /\ [Next]_vars => IInv'
  <1> SUFFICES ASSUME Overlap = FALSE, IInv, [Next]_vars PROVE IInv'
    OBVIOUS
  <1>1. ASSUME NEW p \in Pulls, Untar(p) PROVE IInv'
    <2>1. CASE untar_map[LayerOf[p]] = None
      <3>1. Len(tasks) \in Nat
        BY DEF IInv, Types
      <3>2. QED BY <1>1, <2>1, <3>1, UntarNewKeeps
    <2>2. CASE untar_map[LayerOf[p]] # None
      BY <1>1, <2>2, UntarFoundKeeps
    <2>3. QED BY <2>1, <2>2
  <1>2. ASSUME NEW t \in Tasks, TaskStep(t) PROVE IInv'
    <2>1. t \in 1 .. Len(tasks)
      BY DEF Tasks, IInv, Types
    <2>2. QED
      BY <1>2, <2>1, PopenKeeps, WriteKeeps, EraseKeeps, FinishKeeps DEF TaskStep
  <1>3. CASE UNCHANGED vars
    <2>1. Types' /\ Call'
      BY <1>3 DEF vars, IInv, Types, Call, LayerOfTask
    <2>2. Map'
      BY <1>3 DEF vars, IInv, Map, LayerOfTask, Creating
    <2>3. Begun'
      BY <1>3 DEF vars, IInv, Begun
    <2>4. Created' /\ OneAtATime' /\ Reports'
      BY <1>3, FrameKept DEF vars
    <2>5. Streams'
      <3>1. ASSUME NEW u \in 1 .. Len(tasks) PROVE StreamOf(u, tasks[u].pull)'
        <4>1. /\ StreamOf(u, tasks[u].pull)
              /\ UNCHANGED <<sent, pc, cur, tasks, written, queues>>
          BY <1>3 DEF vars, IInv, Streams
        <4>2. QED BY <4>1, StreamKept
      <3>2. QED BY <1>3, <3>1 DEF vars, Streams
    <2>6. QED BY <2>1, <2>2, <2>3, <2>4, <2>5 DEF IInv
  <1>4. QED BY <1>1, <1>2, <1>3, EnqueueKeeps, EmplaceKeeps DEF Next

\* The invariant holds throughout.
THEOREM Invariance == ASSUME Overlap = FALSE PROVE Spec => []IInv
  <1>1. Init => IInv
    BY InitIInv
  <1>2. IInv /\ [Next]_vars => IInv'
    BY NextIInv
  <1>3. QED BY <1>1, <1>2, PTL DEF Spec

\* A task in the map or in a call is one of the tasks, and so on: the state
\* stays in its domains.
THEOREM TypeCorrect == ASSUME Overlap = FALSE PROVE Spec => []TypeOK
  <1>1. ASSUME IInv PROVE TypeOK
    <2>1. Tasks = 1 .. Len(tasks) /\ Len(tasks) \in Nat
      BY DEF IInv, Types, Tasks
    <2>2. /\ DOMAIN queues = Tasks /\ DOMAIN written = Tasks
          /\ nfault \in 0 .. MaxFault
      <3>1. /\ queues \in Seq(Seq(Segments)) /\ Len(queues) = Len(tasks)
            /\ written \in Seq(Seq(Segments)) /\ Len(written) = Len(tasks)
            /\ nfault \in 0 .. MaxFault
        BY <1>1 DEF IInv, Types
      <3>2. QED BY <2>1, <3>1
    <2>3. completed \in [Pulls -> Seq(BOOLEAN)]
      BY <1>1 DEF IInv, Types
    <2>4. /\ \A p \in Pulls : sent[p] \in 0 .. Segs[p]
          /\ untar_map \in [Layers -> Tasks \cup {None}]
      <3>1. /\ sent \in [Pulls -> Nat] /\ \A p \in Pulls : sent[p] <= Segs[p]
            /\ untar_map \in [Layers -> 0 .. Len(tasks)]
        BY <1>1 DEF IInv, Types
      <3>2. 0 .. Len(tasks) = Tasks \cup {None}
        BY <2>1 DEF None
      <3>3. QED BY <3>1, <3>2
    <2>5. \A t \in Tasks :
            /\ tasks[t].pull \in Pulls
            /\ tasks[t].state \in {"queued", "open", "close", "erased", "done",
                                   "failed"}
      BY <1>1, <2>1, PullOfTask DEF IInv, States
    <2>6. pc \in {"loop", "enqueue", "emplace"}
      BY <1>1 DEF IInv, Call
    <2>7. cur.task \in Tasks \cup {None}
      BY <1>1, <2>1, <2>6 DEF IInv, Call, NoCall
    <2>8. ASSUME pc # "loop"
          PROVE  cur.data.index \in 0 .. Segs[cur.data.pull] - 1
      <3>1. /\ cur.data.pull \in Pulls /\ sent[cur.data.pull] > 0
            /\ cur.data = Seg(cur.data.pull, sent[cur.data.pull] - 1)
        BY <1>1, <2>8 DEF IInv, Call
      <3>2. cur.data.index = sent[cur.data.pull] - 1
        BY <3>1 DEF Seg
      <3>3. sent[cur.data.pull] \in 0 .. Segs[cur.data.pull]
            /\ Segs[cur.data.pull] \in Nat
        BY <2>4, <3>1
      <3>4. QED BY <3>1, <3>2, <3>3
    <2>9. QED BY <2>2, <2>3, <2>4, <2>5, <2>6, <2>7, <2>8 DEF TypeOK
  <1>2. QED BY <1>1, Invariance, PTL

\* A prefix of the stream, element by element.
LEMMA StreamPrefix ==
  ASSUME NEW p \in Pulls, NEW w \in Seq(Segments), Len(w) <= Segs[p],
         \A i \in 1 .. Len(w) : w[i] = Seg(p, i - 1)
  PROVE  /\ w = SubSeq(Stream(p), 1, Len(w)) /\ Len(w) \in 0 .. Segs[p]
         /\ Len(w) = Segs[p] => w = Stream(p)
  BY DEF Stream

\* What a task has read.
LEMMA ReadSoFar ==
  ASSUME IInv, NEW t \in 1 .. Len(tasks)
  PROVE  /\ tasks[t].pull \in Pulls /\ written[t] \in Seq(Segments)
         /\ written[t] = SubSeq(Stream(tasks[t].pull), 1, Len(written[t]))
         /\ Len(written[t]) \in 0 .. Segs[tasks[t].pull]
         /\ tasks[t].state = "done" => written[t] = Stream(tasks[t].pull)
  <1> DEFINE p == tasks[t].pull
             w == written[t]
  <1>1. written \in Seq(Seq(Segments)) /\ Len(written) = Len(tasks)
    BY DEF IInv, Types
  <1>2. p \in Pulls /\ w \in Seq(Segments)
    BY <1>1, PullOfTask DEF IInv
  <1>3. /\ Len(w) <= Segs[p] /\ \A i \in 1 .. Len(w) : w[i] = Seg(p, i - 1)
        /\ tasks[t].state = "done" => Len(w) = Segs[p]
    BY DEF IInv, Streams, StreamOf
  <1> HIDE DEF p, w
  <1>4. /\ w = SubSeq(Stream(p), 1, Len(w)) /\ Len(w) \in 0 .. Segs[p]
        /\ Len(w) = Segs[p] => w = Stream(p)
    BY <1>2, <1>3, StreamPrefix
  <1>5. QED BY <1>2, <1>3, <1>4 DEF p, w

\* Whatever the number of pulls, layers, segments, threads and failures, a tar
\* process reads the segments of one pull, in order and from the first.
THEOREM StreamsAlwaysInOrder ==
  ASSUME Overlap = FALSE PROVE Spec => []StreamsInOrder
  <1>1. ASSUME IInv PROVE StreamsInOrder
    <2>1. Tasks = 1 .. Len(tasks)
      BY <1>1 DEF IInv, Types, Tasks
    <2>2. QED BY <1>1, <2>1, ReadSoFar DEF StreamsInOrder
  <1>2. QED BY <1>1, Invariance, PTL

\* completeTask is called at most once for a pull, and with success only when
\* a tar process has read the whole layer.
THEOREM AlwaysCompletedOnce ==
  ASSUME Overlap = FALSE PROVE Spec => []CompletedOnce
  <1>1. ASSUME IInv PROVE CompletedOnce
    <2>1. Tasks = 1 .. Len(tasks)
      BY <1>1 DEF IInv, Types, Tasks
    <2>2. ASSUME NEW p \in Pulls PROVE Len(completed[p]) <= 1
      BY <1>1 DEF IInv, Reports
    <2>3. ASSUME NEW p \in Pulls, completed[p] = <<TRUE>>
          PROVE  \E t \in Tasks : written[t] = Stream(p)
      <3>1. p \in Succeeded
        BY <2>3, Zenon DEF Succeeded
      <3>2. PICK t \in 1 .. Len(tasks) :
              tasks[t].pull = p /\ tasks[t].state = "done"
        BY <1>1, <3>1 DEF IInv, Reports
      <3>3. written[t] = Stream(p)
        BY <1>1, <3>2, ReadSoFar
      <3>4. QED BY <2>1, <3>3, Zenon
    <2>4. QED BY <2>2, <2>3, Zenon DEF CompletedOnce
  <1>2. QED BY <1>1, Invariance, PTL
=============================================================================
