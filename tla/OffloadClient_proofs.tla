------------------------ MODULE OffloadClient_proofs ------------------------
(***************************************************************************)
(* The host's offload client, for any CLIs, images, layers and number of   *)
(* send buffers: a send buffer is free, under way or lost with a task that *)
(* was dropped; and, as long as no image is pulled while it is being       *)
(* pulled, a pull is answered once, when all of its layers are through,    *)
(* and every layer's result finds its task.                                *)
(***************************************************************************)
EXTENDS OffloadClient, FiniteSetTheorems, FunctionTheorems, TLAPS

Good == Images \ (BadImages \cup BigImages)

-----------------------------------------------------------------------------
(* Counting in sequences. *)

\* The places where x is in a sequence are finitely many.
LEMMA CountType ==
  ASSUME NEW S, NEW s \in Seq(S), NEW x
  PROVE  /\ Count(s, x) \in Nat
         /\ IsFiniteSet({n \in DOMAIN s : s[n] = x})
         /\ (\E n \in DOMAIN s : s[n] = x) => Count(s, x) > 0
         /\ (\A n \in DOMAIN s : s[n] # x) => Count(s, x) = 0
<1> DEFINE P == {n \in DOMAIN s : s[n] = x}
<1>1. DOMAIN s = 1 .. Len(s) /\ Len(s) \in Nat
  OBVIOUS
<1>2. IsFiniteSet(1 .. Len(s))
  BY <1>1, FS_Interval
<1>3. P \in SUBSET (1 .. Len(s))
  BY <1>1
<1>4. IsFiniteSet(P)
  <2> HIDE DEF P
  <2> QED
    BY <1>2, <1>3, FS_Subset
<1>5. Cardinality(P) \in Nat /\ (Cardinality(P) = 0 <=> P = {})
  <2> HIDE DEF P
  <2> QED
    BY <1>4, FS_CardinalityType, FS_EmptySet
<1>6. Count(s, x) = Cardinality(P)
  BY DEF Count
<1>7. P = {} <=> \A n \in DOMAIN s : s[n] # x
  OBVIOUS
<1> HIDE DEF P
<1>8. /\ Count(s, x) \in Nat
      /\ (\E n \in DOMAIN s : s[n] = x) => Count(s, x) > 0
      /\ (\A n \in DOMAIN s : s[n] # x) => Count(s, x) = 0
  BY <1>5, <1>6, <1>7
<1> QED
  BY <1>4, <1>8 DEF P

\* An element that is appended is counted once more, and no other is.
LEMMA CountAppend ==
  ASSUME NEW S, NEW s \in Seq(S), NEW y \in S, NEW x
  PROVE  Count(Append(s, y), x) = Count(s, x) + (IF x = y THEN 1 ELSE 0)
<1> DEFINE P == {n \in DOMAIN s : s[n] = x}
           Q == {n \in DOMAIN Append(s, y) : Append(s, y)[n] = x}
           k == Len(s) + 1
<1>1. /\ DOMAIN s = 1 .. Len(s) /\ Len(s) \in Nat
      /\ DOMAIN Append(s, y) = 1 .. Len(s) + 1
      /\ \A n \in 1 .. Len(s) : Append(s, y)[n] = s[n]
      /\ Append(s, y)[Len(s) + 1] = y
  OBVIOUS
<1>2. k \notin P
  BY <1>1
<1>3. CASE x = y
  <2>1. Q = P \cup {k}
    BY <1>1, <1>3
  <2>2. Count(s, x) = Cardinality(P)
        /\ Count(Append(s, y), x) = Cardinality(Q)
    BY DEF Count
  <2>3. IsFiniteSet(P)
    BY CountType, Zenon
  <2> HIDE DEF P, Q, k
  <2>4. Cardinality(P \cup {k}) = Cardinality(P) + 1
    BY <1>2, <2>3, FS_AddElement
  <2> QED
    BY <1>3, <2>1, <2>2, <2>4
<1>4. CASE x # y
  <2>1. Q = P
    BY <1>1, <1>4
  <2>2. Count(s, x) = Cardinality(P) /\ Count(s, x) \in Nat
        /\ Count(Append(s, y), x) = Cardinality(Q)
    BY CountType DEF Count
  <2> HIDE DEF P, Q, k
  <2> QED
    BY <1>4, <2>1, <2>2
<1> QED
  BY <1>3, <1>4

\* Without its head a sequence has one of it less, and as many of all others.
LEMMA CountTail ==
  ASSUME NEW S, NEW s \in Seq(S), s # <<>>, NEW x
  PROVE  Count(Tail(s), x) = Count(s, x) - (IF x = Head(s) THEN 1 ELSE 0)
<1> DEFINE P == {n \in DOMAIN s : s[n] = x}
           Q == {n \in DOMAIN Tail(s) : Tail(s)[n] = x}
           f == [n \in Q |-> n + 1]
<1>1. /\ DOMAIN s = 1 .. Len(s) /\ Len(s) \in Nat \ {0}
      /\ Tail(s) \in Seq(S)
      /\ DOMAIN Tail(s) = 1 .. Len(s) - 1
      /\ \A n \in 1 .. Len(s) - 1 : Tail(s)[n] = s[n + 1]
      /\ Head(s) = s[1]
  OBVIOUS
<1>2. /\ IsFiniteSet(P) /\ Count(s, x) = Cardinality(P)
      /\ IsFiniteSet(Q) /\ Count(Tail(s), x) = Cardinality(Q)
      /\ Count(Tail(s), x) \in Nat /\ Count(s, x) \in Nat
  <2>1. Count(s, x) = Cardinality(P) /\ Count(Tail(s), x) = Cardinality(Q)
    BY DEF Count
  <2>2. IsFiniteSet(P) /\ Count(s, x) \in Nat
    BY CountType, Zenon
  <2>3. Tail(s) \in Seq(S)
    BY <1>1
  <2>4. IsFiniteSet(Q) /\ Count(Tail(s), x) \in Nat
    BY <2>3, CountType, Zenon
  <2> QED
    BY <2>1, <2>2, <2>4
<1>3. f \in [Q -> P \ {1}]
  BY <1>1
<1>4. \A a, b \in Q : f[a] = f[b] => a = b
  BY <1>1
<1>5. \A t \in P \ {1} : \E n \in Q : f[n] = t
  <2> SUFFICES ASSUME NEW t \in P \ {1} PROVE \E n \in Q : f[n] = t
    OBVIOUS
  <2>1. t - 1 \in Q
    BY <1>1
  <2>2. f[t - 1] = t
    BY <1>1, <2>1
  <2> QED
    BY <2>1, <2>2
<1>6. 1 \in P <=> x = Head(s)
  BY <1>1
<1> HIDE DEF f, P, Q
<1>7. f \in Bijection(Q, P \ {1})
  BY <1>3, <1>4, <1>5, Fun_IsBij
<1>8. ExistsBijection(Q, P \ {1})
  BY <1>7, Fun_ExistsBij
<1>9. Cardinality(P \ {1}) = Cardinality(Q)
  BY <1>2, <1>8, FS_Bijection
<1>10. Cardinality(P \ {1}) = IF 1 \in P THEN Cardinality(P) - 1
                                        ELSE Cardinality(P)
  BY <1>2, FS_RemoveElement
<1> QED
  BY <1>2, <1>6, <1>9, <1>10

-----------------------------------------------------------------------------
(* Send buffers, tasks and the queue of pulls, whoever pulls what. *)

TaskRec == [total : Nat \ {0}, layers : Nat, cli : Clis]

\* The domains of the variables.  Only images that were offloaded, and so
\* neither without metadata nor too big, get to the DPU.
Types ==
  /\ asked \subseteq Clis /\ dropped \subseteq asked /\ IsFiniteSet(dropped)
  /\ conn \in {"none", "asked", "up"} /\ cfree \in Nat
  /\ reqs \in Seq(Good \cup {Connect}) /\ resps \in Seq(Good \cup {Connect})
  /\ tasks \in [Images -> TaskRec \cup {NoTask}]
  /\ left \in [Images -> Nat] /\ \A i \in Images \ Good : left[i] = 0
  /\ functors \in Seq(Good) /\ answers \in [Clis -> Nat]

\* A task that is kept is of a CLI that wants its image, and not yet complete.
TaskOK(t, i) ==
  /\ t.cli \in asked /\ Want[t.cli] = i /\ t.total = NumLayers[i]
  /\ t.layers < t.total

Tasks == \A i \in Images : tasks[i] # NoTask => TaskOK(tasks[i], i)

\* A CLI waits once, and has neither been dropped nor got a task.
Waits(q, A, drop, tsk) ==
  /\ q \in Seq(A)
  /\ \A m, n \in DOMAIN q : q[m] = q[n] => m = n
  /\ \A n \in DOMAIN q :
       /\ q[n] \notin drop
       /\ \A i \in Images : tsk[i] # NoTask => tsk[i].cli # q[n]

Pending == Waits(pending, asked, dropped, tasks)

\* No send buffer is lost but with a task that was dropped; before the
\* connection is up all of them are free.
Buffers ==
  /\ cfree + Len(reqs) + Len(resps) + Cardinality(dropped) = Nc
  /\ conn = "none" => reqs = <<>> /\ resps = <<>> /\ dropped = {}

TInv == Types /\ Tasks /\ Pending /\ Buffers

\* Without its head, the queue is one without the head's CLI.
LEMMA WaitsTail ==
  ASSUME NEW q, NEW A, NEW D, NEW T, Waits(q, A, D, T), q # <<>>
  PROVE  /\ Head(q) \in A /\ Head(q) \notin D
         /\ \A i \in Images : T[i] # NoTask => T[i].cli # Head(q)
         /\ Waits(Tail(q), A, D, T)
         /\ \A n \in DOMAIN Tail(q) : Tail(q)[n] # Head(q)
<1>1. /\ q \in Seq(A) /\ Len(q) \in Nat \ {0} /\ DOMAIN q = 1 .. Len(q)
      /\ Head(q) = q[1] /\ 1 \in DOMAIN q
  BY DEF Waits
<1>2. /\ Tail(q) \in Seq(A) /\ DOMAIN Tail(q) = 1 .. Len(q) - 1
      /\ \A n \in DOMAIN Tail(q) : Tail(q)[n] = q[n + 1]
  BY <1>1
<1>3. \A n \in DOMAIN Tail(q) : n + 1 \in DOMAIN q /\ n + 1 # 1 /\ n \in Nat
  BY <1>1, <1>2
<1>4. \A m, n \in DOMAIN Tail(q) : Tail(q)[m] = Tail(q)[n] => m = n
  <2> SUFFICES ASSUME NEW m \in DOMAIN Tail(q), NEW n \in DOMAIN Tail(q),
                      Tail(q)[m] = Tail(q)[n]
               PROVE  m = n
    OBVIOUS
  <2>1. m + 1 = n + 1
    BY <1>2, <1>3 DEF Waits
  <2> QED
    BY <1>3, <2>1
<1>5. \A n \in DOMAIN Tail(q) :
        /\ Tail(q)[n] \notin D
        /\ \A i \in Images : T[i] # NoTask => T[i].cli # Tail(q)[n]
  BY <1>2, <1>3 DEF Waits
<1>6. \A n \in DOMAIN Tail(q) : Tail(q)[n] # Head(q)
  BY <1>1, <1>2, <1>3 DEF Waits
<1>7. /\ Head(q) \in A /\ Head(q) \notin D
      /\ \A i \in Images : T[i] # NoTask => T[i].cli # Head(q)
  BY <1>1 DEF Waits
<1> QED
  BY <1>2, <1>4, <1>5, <1>6, <1>7 DEF Waits

\* A CLI that was not waiting may join the queue.
LEMMA WaitsAppend ==
  ASSUME NEW q, NEW A, NEW D, NEW T, Waits(q, A, D, T), NEW c,
         c \notin A, c \notin D,
         \A i \in Images : T[i] # NoTask => T[i].cli # c
  PROVE  Waits(Append(q, c), A \cup {c}, D, T)
<1> DEFINE B == A \cup {c}
<1>1. q \in Seq(A) /\ q \in Seq(B) /\ c \in B
  BY DEF Waits
<1>2. \A n \in DOMAIN q : q[n] # c
  BY <1>1
<1> HIDE DEF B
<1>3. /\ Append(q, c) \in Seq(B) /\ Len(q) \in Nat
      /\ DOMAIN q = 1 .. Len(q) /\ DOMAIN Append(q, c) = 1 .. Len(q) + 1
      /\ \A n \in 1 .. Len(q) : Append(q, c)[n] = q[n]
      /\ Append(q, c)[Len(q) + 1] = c
  BY <1>1
<1>4. \A n \in DOMAIN Append(q, c) :
        \/ n \in DOMAIN q /\ Append(q, c)[n] = q[n]
        \/ n = Len(q) + 1 /\ Append(q, c)[n] = c
  BY <1>3
<1>5. \A m, n \in DOMAIN Append(q, c) :
        Append(q, c)[m] = Append(q, c)[n] => m = n
  BY <1>2, <1>4 DEF Waits
<1>6. \A n \in DOMAIN Append(q, c) :
        /\ Append(q, c)[n] \notin D
        /\ \A i \in Images : T[i] # NoTask => T[i].cli # Append(q, c)[n]
  BY <1>4 DEF Waits
<1> QED
  BY <1>3, <1>5, <1>6 DEF Waits, B

\* A new TaskInfo is one for the image its CLI wants.
LEMMA NewTaskOK ==
  ASSUME NEW c \in Clis
  PROVE  /\ Want[c] \in Images /\ NewTask(c) \in TaskRec
         /\ NewTask(c) # NoTask /\ NewTask(c).cli = c
         /\ NewTask(c).total = NumLayers[Want[c]] /\ NewTask(c).layers = 0
         /\ NumLayers[Want[c]] \in Nat \ {0}
<1>1. Want[c] \in Images /\ NumLayers[Want[c]] \in Nat \ {0}
  BY OffloadAssumption DEF Images
<1>2. /\ NewTask(c) \in TaskRec /\ NewTask(c).cli = c
      /\ NewTask(c).total = NumLayers[Want[c]] /\ NewTask(c).layers = 0
  BY <1>1 DEF NewTask, TaskRec
<1>3. NoTask.total = 0
  BY DEF NoTask
<1>4. NewTask(c) # NoTask
  BY <1>1, <1>2, <1>3
<1> QED
  BY <1>1, <1>2, <1>4

\* tryOffloadTask: nothing is tried, or the oldest pull is, and its task
\* entered unless there is no metadata or a task already.
TakesTask(c) ==
  tasks' = IF Want[c] \in BadImages \/ tasks[Want[c]] # NoTask
             THEN tasks ELSE [tasks EXCEPT ![Want[c]] = NewTask(c)]
NothingTried(q, bufs) ==
  /\ pending' = q /\ cfree' = bufs /\ reqs' = reqs /\ tasks' = tasks
  /\ dropped' = dropped
Tried(q, bufs, c) ==
  /\ q # <<>> /\ c = Head(q) /\ pending' = Tail(q)
  /\ bufs > 0 /\ cfree' = bufs - 1
  /\ TakesTask(c)
  /\ \/ Want[c] \notin Good /\ dropped' = dropped \cup {c} /\ reqs' = reqs
     \/ Want[c] \in Good /\ reqs' = Append(reqs, Want[c])
        /\ dropped' = dropped

\* tryOffloadTask has these outcomes.
LEMMA TryOutcome ==
  ASSUME NEW q \in Seq(Clis), NEW bufs \in Nat, TryOffload(q, bufs)
  PROVE  NothingTried(q, bufs) \/ \E c \in Clis : Tried(q, bufs, c)
<1>1. CASE q = <<>> \/ bufs = 0
  BY <1>1 DEF TryOffload, NothingTried
<1>2. CASE ~(q = <<>> \/ bufs = 0)
  <2>1. Head(q) \in Clis /\ q # <<>> /\ bufs > 0
    BY <1>2
  <2>2. Want[Head(q)] \in Images
    BY <2>1, NewTaskOK
  <2>3. Want[Head(q)] \in Good <=> Want[Head(q)] \notin BadImages \cup BigImages
    BY <2>2 DEF Good
  <2>4. Tried(q, bufs, Head(q))
    BY <1>2, <2>1, <2>3, Zenon DEF TryOffload, Tried, TakesTask
  <2> QED
    BY <2>1, <2>4
<1> QED
  BY <1>1, <1>2

\* Entering a task keeps the tasks' types and that they are what their CLIs
\* want, and gives a task to nobody but the CLI that was tried.
LEMMA TakeKeeps ==
  ASSUME Types, Tasks, NEW c \in Clis, TakesTask(c), asked \subseteq asked',
         c \in asked'
  PROVE  /\ tasks' \in [Images -> TaskRec \cup {NoTask}] /\ Tasks'
         /\ \A i \in Images :
              tasks'[i] # NoTask => tasks'[i] = tasks[i] \/ tasks'[i].cli = c
<1>1. /\ Want[c] \in Images /\ NewTask(c) \in TaskRec
      /\ NewTask(c) # NoTask /\ NewTask(c).cli = c
      /\ NewTask(c).total = NumLayers[Want[c]] /\ NewTask(c).layers = 0
      /\ NumLayers[Want[c]] \in Nat \ {0}
  BY NewTaskOK
<1>2. tasks \in [Images -> TaskRec \cup {NoTask}]
  BY DEF Types
<1>3. tasks' \in [Images -> TaskRec \cup {NoTask}]
  BY <1>1, <1>2 DEF TakesTask
<1>4. \A i \in Images :
        \/ tasks'[i] = tasks[i]
        \/ i = Want[c] /\ tasks'[i] = NewTask(c)
  <2>1. CASE tasks' = tasks
    BY <2>1
  <2>2. CASE tasks' = [tasks EXCEPT ![Want[c]] = NewTask(c)]
    BY <1>1, <1>2, <2>2
  <2> QED
    BY <2>1, <2>2 DEF TakesTask
<1>5. ASSUME NEW i \in Images, tasks'[i] # NoTask
      PROVE  /\ tasks'[i].cli \in asked' /\ Want[tasks'[i].cli] = i
             /\ tasks'[i].total = NumLayers[i]
             /\ tasks'[i].layers < tasks'[i].total
  <2>1. CASE tasks'[i] = tasks[i]
    BY <1>5, <2>1 DEF Tasks, TaskOK
  <2>2. CASE i = Want[c] /\ tasks'[i] = NewTask(c)
    BY <1>1, <2>2
  <2> QED
    BY <1>4, <2>1, <2>2
<1>6. Tasks'
  BY <1>5 DEF Tasks, TaskOK
<1> QED
  BY <1>1, <1>3, <1>4, <1>6

\* What tryOffloadTask keeps: nobody waits who has been tried, and each task
\* that is tried takes a send buffer, which goes with the request or is lost.
LEMMA TryKeeps ==
  ASSUME Types, Tasks, asked \subseteq asked', asked' \subseteq Clis,
         NEW q, Waits(q, asked', dropped, tasks),
         NEW bufs \in Nat, TryOffload(q, bufs)
  PROVE  /\ dropped' \subseteq asked' /\ IsFiniteSet(dropped')
         /\ cfree' \in Nat /\ reqs' \in Seq(Good \cup {Connect})
         /\ tasks' \in [Images -> TaskRec \cup {NoTask}]
         /\ Tasks' /\ Pending'
         /\ cfree' + Len(reqs') + Cardinality(dropped')
              = bufs + Len(reqs) + Cardinality(dropped)
<1>1. q \in Seq(asked') /\ q \in Seq(Clis)
  <2>1. q \in Seq(asked')
    BY DEF Waits
  <2> QED
    BY <2>1
<1>2. /\ dropped \subseteq asked' /\ IsFiniteSet(dropped)
      /\ reqs \in Seq(Good \cup {Connect})
      /\ tasks \in [Images -> TaskRec \cup {NoTask}]
  BY DEF Types
<1>3. Cardinality(dropped) \in Nat /\ Len(reqs) \in Nat
  BY <1>2, FS_CardinalityType
<1>4. CASE NothingTried(q, bufs)
  <2>1. Tasks'
    BY <1>4 DEF NothingTried, Tasks, TaskOK
  <2>2. Pending'
    BY <1>4 DEF NothingTried, Pending
  <2> QED
    BY <1>2, <1>4, <2>1, <2>2 DEF NothingTried
<1>5. ASSUME NEW c \in Clis, Tried(q, bufs, c) PROVE
         /\ dropped' \subseteq asked' /\ IsFiniteSet(dropped')
         /\ cfree' \in Nat /\ reqs' \in Seq(Good \cup {Connect})
         /\ tasks' \in [Images -> TaskRec \cup {NoTask}]
         /\ Tasks' /\ Pending'
         /\ cfree' + Len(reqs') + Cardinality(dropped')
              = bufs + Len(reqs) + Cardinality(dropped)
  <2>1. q # <<>> /\ c = Head(q) /\ pending' = Tail(q) /\ TakesTask(c)
        /\ cfree' = bufs - 1 /\ cfree' \in Nat
    BY <1>5 DEF Tried
  <2>2. /\ c \in asked' /\ c \notin dropped
        /\ \A i \in Images : tasks[i] # NoTask => tasks[i].cli # c
        /\ Waits(Tail(q), asked', dropped, tasks)
        /\ \A n \in DOMAIN Tail(q) : Tail(q)[n] # c
    BY <2>1, WaitsTail
  <2>3. /\ tasks' \in [Images -> TaskRec \cup {NoTask}] /\ Tasks'
        /\ \A i \in Images :
              tasks'[i] # NoTask => tasks'[i] = tasks[i] \/ tasks'[i].cli = c
    BY <2>1, <2>2, TakeKeeps
  <2>4. dropped' \subseteq dropped \cup {c}
    BY <1>5 DEF Tried
  <2>5. Waits(Tail(q), asked', dropped', tasks')
    <3>1. \A n \in DOMAIN Tail(q) : Tail(q)[n] \notin dropped'
      BY <2>2, <2>4 DEF Waits
    <3>2. \A n \in DOMAIN Tail(q), i \in Images :
            tasks'[i] # NoTask => tasks'[i].cli # Tail(q)[n]
      BY <2>2, <2>3 DEF Waits
    <3> QED
      BY <2>2, <3>1, <3>2 DEF Waits
  <2>6. Pending'
    BY <2>1, <2>5 DEF Pending
  <2>7. CASE Want[c] \notin Good /\ dropped' = dropped \cup {c} /\ reqs' = reqs
    <3>1. /\ IsFiniteSet(dropped')
          /\ Cardinality(dropped') = Cardinality(dropped) + 1
      BY <1>2, <2>2, <2>7, FS_AddElement
    <3>2. cfree' + Len(reqs') + Cardinality(dropped')
            = bufs + Len(reqs) + Cardinality(dropped)
      BY <1>3, <2>1, <2>7, <3>1
    <3>3. dropped' \subseteq asked'
      BY <1>2, <2>2, <2>7
    <3> QED
      BY <1>2, <2>1, <2>3, <2>6, <2>7, <3>1, <3>2, <3>3
  <2>8. CASE Want[c] \in Good /\ reqs' = Append(reqs, Want[c])
             /\ dropped' = dropped
    <3>1. reqs' \in Seq(Good \cup {Connect}) /\ Len(reqs') = Len(reqs) + 1
      <4> DEFINE R == Good \cup {Connect}
      <4>1. Want[c] \in R /\ reqs \in Seq(R)
        BY <1>2, <2>8
      <4> HIDE DEF R
      <4>2. Append(reqs, Want[c]) \in Seq(R)
            /\ Len(Append(reqs, Want[c])) = Len(reqs) + 1
        BY <4>1
      <4> QED
        BY <2>8, <4>2 DEF R
    <3>2. cfree' + Len(reqs') + Cardinality(dropped')
            = bufs + Len(reqs) + Cardinality(dropped)
      BY <1>3, <2>1, <2>8, <3>1
    <3> QED
      BY <1>2, <2>1, <2>3, <2>6, <2>8, <3>1, <3>2
  <2> QED
    BY <1>5, <2>7, <2>8 DEF Tried
<1> QED
  BY <1>1, <1>4, <1>5, TryOutcome

\* Nothing has happened yet, and all buffers are free.
LEMMA InitTInv == Init => TInv
<1> SUFFICES ASSUME Init PROVE TInv
  OBVIOUS
<1>1. IsFiniteSet({}) /\ Cardinality({}) = 0
  BY FS_EmptySet
<1>2. Nc \in Nat /\ BadImages \subseteq Images
  BY OffloadAssumption
<1>3. Types
  BY <1>1, <1>2 DEF Init, Types, Good
<1>4. Tasks
  BY DEF Init, Tasks
<1>5. Pending
  BY DEF Init, Pending, Waits
<1>6. Buffers
  BY <1>1, <1>2 DEF Init, Buffers
<1> QED
  BY <1>3, <1>4, <1>5, <1>6 DEF TInv

\* A pull joins the queue; if the connection is up the oldest is tried.
LEMMA OffloadTypes ==
  ASSUME TInv, NEW c \in Clis, Offload(c)
  PROVE  TInv'
<1>1. Types /\ Tasks /\ Pending /\ Buffers
  BY DEF TInv
<1>2. /\ c \notin asked /\ asked' = asked \cup {c} /\ conn' = conn
      /\ resps' = resps /\ left' = left /\ functors' = functors
      /\ answers' = answers
  BY DEF Offload
<1>3. asked \subseteq asked' /\ asked' \subseteq Clis /\ c \notin dropped
  BY <1>1, <1>2 DEF Types
<1>4. \A i \in Images : tasks[i] # NoTask => tasks[i].cli # c
  BY <1>1, <1>2 DEF Tasks, TaskOK
<1>5. Waits(Append(pending, c), asked', dropped, tasks)
  BY <1>1, <1>2, <1>3, <1>4, WaitsAppend DEF Pending
<1>6. /\ cfree \in Nat /\ Len(reqs) \in Nat /\ Len(resps) \in Nat
      /\ Cardinality(dropped) \in Nat
  BY <1>1, FS_CardinalityType DEF Types
<1>7. CASE conn = "up"
  <2>1. TryOffload(Append(pending, c), cfree)
    BY <1>7 DEF Offload
  <2>2. /\ dropped' \subseteq asked' /\ IsFiniteSet(dropped')
        /\ cfree' \in Nat /\ reqs' \in Seq(Good \cup {Connect})
        /\ tasks' \in [Images -> TaskRec \cup {NoTask}]
        /\ Tasks' /\ Pending'
        /\ cfree' + Len(reqs') + Cardinality(dropped')
              = cfree + Len(reqs) + Cardinality(dropped)
    BY <1>1, <1>3, <1>5, <1>6, <2>1, TryKeeps
  <2>3. Types'
    BY <1>1, <1>2, <1>3, <2>2 DEF Types
  <2>4. Len(reqs') \in Nat /\ Cardinality(dropped') \in Nat
    BY <2>2, FS_CardinalityType
  <2>5. Buffers'
    <3>1. cfree + Len(reqs) + Len(resps) + Cardinality(dropped) = Nc
      BY <1>1 DEF Buffers
    <3>2. cfree' + Len(reqs') + Len(resps') + Cardinality(dropped') = Nc
      <4> DEFINE f == cfree r == Len(reqs) p == Len(resps)
                 d == Cardinality(dropped)
                 f1 == cfree' r1 == Len(reqs') p1 == Len(resps')
                 d1 == Cardinality(dropped')
      <4>1. /\ f \in Nat /\ r \in Nat /\ p \in Nat /\ d \in Nat
            /\ f1 \in Nat /\ r1 \in Nat /\ p1 \in Nat /\ d1 \in Nat
            /\ f1 + r1 + d1 = f + r + d /\ f + p1 = f + p
            /\ f + r + p + d = Nc
        BY <1>2, <1>6, <2>2, <2>4, <3>1
      <4> HIDE DEF f, r, p, d, f1, r1, p1, d1
      <4>2. f1 + r1 + p1 + d1 = Nc
        BY <4>1
      <4> QED
        BY <4>2 DEF f1, r1, p1, d1
    <3> QED
      BY <1>2, <1>7, <3>2 DEF Buffers
  <2> QED
    BY <2>2, <2>3, <2>5 DEF TInv
<1>8. CASE conn # "up"
  <2>1. /\ pending' = Append(pending, c) /\ cfree' = cfree /\ reqs' = reqs
        /\ tasks' = tasks /\ dropped' = dropped
    BY <1>8 DEF Offload
  <2>2. Types'
    BY <1>1, <1>2, <1>3, <2>1 DEF Types
  <2>3. Tasks'
    BY <1>1, <1>3, <2>1 DEF Tasks, TaskOK
  <2>4. Pending'
    BY <1>5, <2>1 DEF Pending
  <2>5. Buffers'
    BY <1>1, <1>2, <2>1 DEF Buffers
  <2> QED
    BY <2>2, <2>3, <2>4, <2>5 DEF TInv
<1> QED
  BY <1>7, <1>8

\* The first request takes the first buffer.
LEMMA OnConnectedTypes ==
  ASSUME TInv, OnConnected
  PROVE  TInv'
<1> DEFINE R == Good \cup {Connect}
<1>1. Types /\ Tasks /\ Pending /\ Buffers
  BY DEF TInv
<1>2. /\ asked' = asked /\ pending' = pending /\ resps' = resps
      /\ tasks' = tasks /\ dropped' = dropped /\ left' = left
      /\ functors' = functors /\ answers' = answers
      /\ conn = "none" /\ conn' = "asked" /\ cfree' = cfree - 1
      /\ reqs' = Append(reqs, Connect)
  BY DEF OnConnected
<1>3. Connect \in R /\ reqs \in Seq(R) /\ resps \in Seq(R)
  BY <1>1 DEF Types
<1>4. cfree \in Nat /\ Cardinality(dropped) \in Nat
  BY <1>1, FS_CardinalityType DEF Types
<1>5. Cardinality(dropped) = 0 /\ Len(reqs) = 0 /\ Len(resps) = 0
  BY <1>1, <1>2, FS_EmptySet DEF Buffers
<1>6. cfree = Nc /\ cfree' \in Nat
  BY <1>1, <1>2, <1>4, <1>5, OffloadAssumption DEF Buffers
<1> HIDE DEF R
<1>7. reqs' \in Seq(R) /\ Len(reqs') = Len(reqs) + 1 /\ Len(resps) \in Nat
  BY <1>2, <1>3
<1>8. Types'
  BY <1>1, <1>2, <1>6, <1>7 DEF Types, R
<1>9. Tasks' /\ Pending'
  BY <1>1, <1>2 DEF Tasks, TaskOK, Pending
<1>10. Buffers'
  BY <1>2, <1>4, <1>5, <1>6, <1>7, OffloadAssumption DEF Buffers
<1> QED
  BY <1>8, <1>9, <1>10 DEF TInv

\* The buffer of the oldest response comes back and may be used at once.
LEMMA OnRecvSuccessTypes ==
  ASSUME TInv, OnRecvSuccess
  PROVE  TInv'
<1> DEFINE R == Good \cup {Connect}
<1>1. Types /\ Tasks /\ Pending /\ Buffers
  BY DEF TInv
<1>2. /\ resps # <<>> /\ resps' = Tail(resps) /\ conn' \in {conn, "up"}
      /\ TryOffload(pending, cfree + 1)
      /\ asked' = asked /\ left' = left /\ functors' = functors
      /\ answers' = answers
  BY DEF OnRecvSuccess
<1>3. resps \in Seq(R) /\ reqs \in Seq(R)
  BY <1>1 DEF Types
<1>4. conn # "none" /\ conn' \in {"asked", "up"}
  BY <1>1, <1>2 DEF Buffers, Types
<1>5. asked' \subseteq Clis /\ cfree + 1 \in Nat /\ cfree \in Nat
      /\ Waits(pending, asked', dropped, tasks)
  BY <1>1, <1>2 DEF Types, Pending
<1>6. /\ dropped' \subseteq asked' /\ IsFiniteSet(dropped')
      /\ cfree' \in Nat /\ reqs' \in Seq(Good \cup {Connect})
      /\ tasks' \in [Images -> TaskRec \cup {NoTask}]
      /\ Tasks' /\ Pending'
      /\ cfree' + Len(reqs') + Cardinality(dropped')
            = cfree + 1 + Len(reqs) + Cardinality(dropped)
  BY <1>1, <1>2, <1>5, TryKeeps
<1>7. /\ Cardinality(dropped) \in Nat /\ Cardinality(dropped') \in Nat
      /\ Len(reqs) \in Nat /\ Len(reqs') \in Nat
  BY <1>1, <1>3, <1>6, FS_CardinalityType DEF Types
<1> HIDE DEF R
<1>8. resps' \in Seq(R) /\ Len(resps') = Len(resps) - 1 /\ Len(resps) \in Nat
      /\ Len(resps') \in Nat
  BY <1>2, <1>3
<1>9. Types'
  BY <1>1, <1>2, <1>4, <1>6, <1>8 DEF Types, R
<1>10. Buffers'
  <2>1. cfree + Len(reqs) + Len(resps) + Cardinality(dropped) = Nc
    BY <1>1 DEF Buffers
  <2>2. cfree' + Len(reqs') + Len(resps') + Cardinality(dropped') = Nc
    <3>0. cfree + 1 + Len(resps') = cfree + Len(resps)
      BY <1>5, <1>8
    <3> DEFINE f == cfree r == Len(reqs) p == Len(resps)
               d == Cardinality(dropped)
               f1 == cfree' r1 == Len(reqs') p1 == Len(resps')
               d1 == Cardinality(dropped')
    <3>1. /\ f \in Nat /\ r \in Nat /\ p \in Nat /\ d \in Nat
          /\ f1 \in Nat /\ r1 \in Nat /\ p1 \in Nat /\ d1 \in Nat
          /\ f1 + r1 + d1 = f + 1 + r + d /\ f + 1 + p1 = f + p
          /\ f + r + p + d = Nc
      BY <1>5, <1>6, <1>7, <1>8, <2>1, <3>0
    <3> HIDE DEF f, r, p, d, f1, r1, p1, d1
    <3>2. f1 + r1 + p1 + d1 = Nc
      BY <3>1
    <3> QED
      BY <3>2 DEF f1, r1, p1, d1
  <2> QED
    BY <1>4, <2>2 DEF Buffers
<1> QED
  BY <1>6, <1>9, <1>10 DEF TInv

\* What completeTask's functor does to the task it is for: the last layer
\* ends it and answers its CLI, any other is counted.
LEMMA CompleteOutcome ==
  ASSUME TInv, CompleteTask
  PROVE  \E i \in Good :
           /\ functors # <<>> /\ i = Head(functors) /\ functors' = Tail(functors)
           /\ tasks[i] # NoTask /\ TaskOK(tasks[i], i) /\ tasks[i] \in TaskRec
           /\ i \in Images
           /\ \/ /\ tasks[i].layers + 1 = tasks[i].total
                 /\ tasks' = [tasks EXCEPT ![i] = NoTask]
                 /\ answers' = [answers EXCEPT ![tasks[i].cli] = @ + 1]
              \/ /\ tasks[i].layers + 1 < tasks[i].total
                 /\ tasks' = [tasks EXCEPT ![i] =
                               [tasks[i] EXCEPT !.layers = @ + 1]]
                 /\ answers' = answers
<1> DEFINE i == Head(functors)
           task == [tasks[i] EXCEPT !.layers = @ + 1]
<1>1. functors \in Seq(Good) /\ functors # <<>> /\ functors' = Tail(functors)
  BY DEF TInv, Types, CompleteTask
<1>2. i \in Good /\ i \in Images
  BY <1>1 DEF Good
<1>3. /\ tasks[i] # NoTask
      /\ IF AllLayers(task)
           THEN /\ tasks' = [tasks EXCEPT ![i] = NoTask]
                /\ answers' = [answers EXCEPT ![task.cli] = @ + 1]
           ELSE /\ tasks' = [tasks EXCEPT ![i] = task]
                /\ answers' = answers
  BY DEF CompleteTask
<1> HIDE DEF i
<1>4. tasks[i] \in TaskRec
  BY <1>2, <1>3 DEF TInv, Types
<1>5. TaskOK(tasks[i], i)
  BY <1>2, <1>3 DEF TInv, Tasks
<1>6. /\ task.layers = tasks[i].layers + 1 /\ task.total = tasks[i].total
      /\ task.cli = tasks[i].cli
      /\ tasks[i].layers \in Nat /\ tasks[i].total \in Nat
  BY <1>4 DEF TaskRec
<1>7. \/ AllLayers(task) /\ tasks[i].layers + 1 = tasks[i].total
      \/ ~AllLayers(task) /\ tasks[i].layers + 1 < tasks[i].total
  <2> HIDE DEF task
  <2> QED
    BY <1>5, <1>6 DEF AllLayers, TaskOK
<1>8. CASE AllLayers(task) /\ tasks[i].layers + 1 = tasks[i].total
  <2>1. /\ tasks' = [tasks EXCEPT ![i] = NoTask]
        /\ answers' = [answers EXCEPT ![tasks[i].cli] = @ + 1]
    <3> HIDE DEF task
    <3> QED
      BY <1>3, <1>6, <1>8
  <2> QED
    BY <1>1, <1>2, <1>3, <1>4, <1>5, <1>8, <2>1, Zenon DEF i
<1>9. CASE ~AllLayers(task) /\ tasks[i].layers + 1 < tasks[i].total
  <2>1. tasks' = [tasks EXCEPT ![i] = task] /\ answers' = answers
    <3> HIDE DEF task
    <3> QED
      BY <1>3, <1>9
  <2> QED
    BY <1>1, <1>2, <1>3, <1>4, <1>5, <1>9, <2>1, Zenon DEF i
<1> QED
  BY <1>7, <1>8, <1>9

\* A layer's result counts for its task, or ends it.
LEMMA CompleteTaskTypes ==
  ASSUME TInv, CompleteTask
  PROVE  TInv'
<1>1. Types /\ Tasks /\ Pending /\ Buffers
  BY DEF TInv
<1>2. /\ asked' = asked /\ pending' = pending /\ conn' = conn
      /\ cfree' = cfree /\ reqs' = reqs /\ resps' = resps
      /\ dropped' = dropped /\ left' = left
  BY DEF CompleteTask
<1>3. PICK i \in Good :
           /\ functors # <<>> /\ i = Head(functors) /\ functors' = Tail(functors)
           /\ tasks[i] # NoTask /\ TaskOK(tasks[i], i) /\ tasks[i] \in TaskRec
           /\ i \in Images
           /\ \/ /\ tasks[i].layers + 1 = tasks[i].total
                 /\ tasks' = [tasks EXCEPT ![i] = NoTask]
                 /\ answers' = [answers EXCEPT ![tasks[i].cli] = @ + 1]
              \/ /\ tasks[i].layers + 1 < tasks[i].total
                 /\ tasks' = [tasks EXCEPT ![i] =
                               [tasks[i] EXCEPT !.layers = @ + 1]]
                 /\ answers' = answers
  BY CompleteOutcome
<1>4. functors' \in Seq(Good)
  BY <1>1, <1>3 DEF Types
<1>5. answers' \in [Clis -> Nat]
  BY <1>1, <1>3 DEF Types, TaskRec
<1> DEFINE t == [tasks[i] EXCEPT !.layers = @ + 1]
<1>6. /\ t \in TaskRec /\ t.cli = tasks[i].cli /\ t.total = tasks[i].total
      /\ t.layers = tasks[i].layers + 1
  BY <1>3 DEF TaskRec
<1>7. tasks' = [tasks EXCEPT ![i] = NoTask]
      \/ (tasks' = [tasks EXCEPT ![i] = t] /\ t.layers < t.total)
  BY <1>3, <1>6
<1> HIDE DEF t
<1>8. tasks \in [Images -> TaskRec \cup {NoTask}]
  BY <1>1 DEF Types
<1>9. /\ tasks' \in [Images -> TaskRec \cup {NoTask}]
      /\ \A j \in Images : j # i => tasks'[j] = tasks[j]
      /\ \/ tasks'[i] = NoTask
         \/ tasks'[i] = t /\ t.layers < t.total
  BY <1>3, <1>6, <1>7, <1>8
<1>10. \A j \in Images : tasks'[j] # NoTask =>
         /\ tasks[j] # NoTask /\ tasks'[j].cli = tasks[j].cli
         /\ tasks'[j].total = tasks[j].total
         /\ tasks'[j].layers < tasks'[j].total
  BY <1>1, <1>3, <1>6, <1>9 DEF Tasks, TaskOK
<1>11. Types'
  BY <1>1, <1>2, <1>4, <1>5, <1>9 DEF Types
<1>12. Tasks'
  BY <1>1, <1>2, <1>10 DEF Tasks, TaskOK
<1>13. Pending'
  BY <1>1, <1>2, <1>10 DEF Pending, Waits
<1>14. Buffers'
  BY <1>1, <1>2 DEF Buffers
<1> QED
  BY <1>11, <1>12, <1>13, <1>14 DEF TInv

\* The DPU answers each request and starts on the layers of an image.
LEMMA HandleRequestTypes ==
  ASSUME TInv, HandleRequest
  PROVE  TInv'
<1> DEFINE R == Good \cup {Connect}
<1>1. Types /\ Tasks /\ Pending /\ Buffers
  BY DEF TInv
<1>2. /\ asked' = asked /\ pending' = pending /\ conn' = conn
      /\ cfree' = cfree /\ tasks' = tasks /\ dropped' = dropped
      /\ functors' = functors /\ answers' = answers
      /\ reqs # <<>> /\ reqs' = Tail(reqs) /\ resps' = Append(resps, Head(reqs))
      /\ left' = IF Head(reqs) = Connect THEN left
                 ELSE [left EXCEPT ![Head(reqs)] = @ + NumLayers[Head(reqs)]]
  BY DEF HandleRequest
<1>3. reqs \in Seq(R) /\ resps \in Seq(R)
  BY <1>1 DEF Types
<1>4. left' \in [Images -> Nat] /\ \A i \in Images \ Good : left'[i] = 0
  <2>1. Head(reqs) \in R
    BY <1>2, <1>3
  <2>2. CASE Head(reqs) = Connect
    BY <1>1, <1>2, <2>2 DEF Types
  <2>3. CASE Head(reqs) # Connect
    <3>1. Head(reqs) \in Good /\ Head(reqs) \in Images
      BY <2>1, <2>3 DEF Good
    <3>2. NumLayers[Head(reqs)] \in Nat
      BY <3>1, OffloadAssumption
    <3> QED
      BY <1>1, <1>2, <2>3, <3>1, <3>2 DEF Types
  <2> QED
    BY <2>2, <2>3
<1> HIDE DEF R
<1>5. /\ reqs' \in Seq(R) /\ resps' \in Seq(R)
      /\ Len(reqs') = Len(reqs) - 1 /\ Len(resps') = Len(resps) + 1
      /\ Len(reqs) \in Nat /\ Len(resps) \in Nat
  BY <1>2, <1>3
<1>6. Types'
  BY <1>1, <1>2, <1>4, <1>5 DEF Types, R
<1>7. Tasks' /\ Pending'
  BY <1>1, <1>2 DEF Tasks, TaskOK, Pending
<1>8. Buffers'
  <2>1. conn' # "none"
    BY <1>1, <1>2 DEF Buffers
  <2>2. Cardinality(dropped) \in Nat /\ cfree \in Nat
    BY <1>1, FS_CardinalityType DEF Types
  <2> QED
    BY <1>1, <1>2, <1>5, <2>1, <2>2 DEF Buffers
<1> QED
  BY <1>6, <1>7, <1>8 DEF TInv

\* A layer that is through is queued for the loop.
LEMMA LayerDoneTypes ==
  ASSUME TInv, NEW i \in Images, LayerDone(i)
  PROVE  TInv'
<1>1. Types /\ Tasks /\ Pending /\ Buffers
  BY DEF TInv
<1>2. /\ asked' = asked /\ pending' = pending /\ conn' = conn
      /\ cfree' = cfree /\ reqs' = reqs /\ resps' = resps
      /\ tasks' = tasks /\ dropped' = dropped /\ answers' = answers
      /\ left[i] > 0 /\ left' = [left EXCEPT ![i] = @ - 1]
      /\ functors' = Append(functors, i)
  BY DEF LayerDone
<1>3. i \in Good
  BY <1>1, <1>2 DEF Types
<1>4. functors' \in Seq(Good)
  BY <1>1, <1>2, <1>3 DEF Types
<1>5. left' \in [Images -> Nat] /\ \A j \in Images \ Good : left'[j] = 0
  BY <1>1, <1>2, <1>3 DEF Types
<1>6. Types'
  BY <1>1, <1>2, <1>4, <1>5 DEF Types
<1>7. Tasks' /\ Pending'
  BY <1>1, <1>2 DEF Tasks, TaskOK, Pending
<1>8. Buffers'
  BY <1>1, <1>2 DEF Buffers
<1> QED
  BY <1>6, <1>7, <1>8 DEF TInv

\* Nothing happens.
LEMMA StutterTypes ==
  ASSUME TInv, UNCHANGED vars
  PROVE  TInv'
<1>1. Types /\ Tasks /\ Pending /\ Buffers
  BY DEF TInv
<1>2. Types'
  BY <1>1 DEF vars, Types
<1>3. Tasks' /\ Pending' /\ Buffers'
  BY <1>1 DEF vars, Tasks, TaskOK, Pending, Buffers
<1> QED
  BY <1>2, <1>3 DEF TInv

\* Every step keeps the types, the tasks, the queue and the buffers.
LEMMA TInvStep == TInv /\ [Next]_vars => TInv'
  BY OffloadTypes, OnConnectedTypes, OnRecvSuccessTypes, CompleteTaskTypes,
     HandleRequestTypes, LayerDoneTypes, StutterTypes DEF Next

\* The variables stay in their domains, and every send buffer is accounted
\* for: whether images are pulled twice at a time or not.
THEOREM TypeCorrect == Spec => []TypeOK
<1>1. TInv => TypeOK
  <2> SUFFICES ASSUME TInv PROVE TypeOK
    OBVIOUS
  <2>1. Types /\ Tasks /\ Pending /\ Buffers
    BY DEF TInv
  <2>2. Good \subseteq Images
    BY DEF Good
  <2>3. /\ pending \in Seq(asked) /\ functors \in Seq(Images)
        /\ reqs \in Seq(Images \cup {Connect})
        /\ resps \in Seq(Images \cup {Connect})
    BY <2>1, <2>2 DEF Types, Pending, Waits
  <2>4. /\ cfree \in Nat /\ Len(reqs) \in Nat /\ Len(resps) \in Nat
        /\ Cardinality(dropped) \in Nat
        /\ cfree + Len(reqs) + Len(resps) + Cardinality(dropped) = Nc
    BY <2>1, FS_CardinalityType DEF Types, Buffers
  <2>5. cfree \in 0 .. Nc
    BY <2>4, OffloadAssumption
  <2>6. ASSUME NEW i \in Images, tasks[i] # NoTask
        PROVE  /\ tasks[i].cli \in asked
               /\ tasks[i].layers \in 0 .. tasks[i].total - 1
    <3>1. tasks[i] \in TaskRec /\ TaskOK(tasks[i], i)
      BY <2>1, <2>6 DEF Types, Tasks
    <3> QED
      BY <3>1 DEF TaskRec, TaskOK
  <2> QED
    BY <2>1, <2>3, <2>4, <2>5, <2>6 DEF TypeOK, Types
<1> QED
  BY InitTInv, TInvStep, <1>1, PTL DEF Spec

-----------------------------------------------------------------------------
(* The layers of a pull, when no image is pulled while it is being pulled. *)

\* A CLI is answered at most once, and not before it asked.
AnsweredOnce ==
  \A c \in Clis : answers[c] <= 1 /\ (c \notin asked => answers[c] = 0)

\* Of the CLIs that want an image at most one is still to be answered.
OnePull ==
  \A c, d \in asked :
    Want[c] = Want[d] /\ answers[c] = 0 /\ answers[d] = 0 => c = d

\* Those who wait, and those who have a task, are still to be answered.
Unanswered(q) == \A n \in DOMAIN q : answers[q[n]] = 0
Working == \A i \in Images : tasks[i] # NoTask => answers[tasks[i].cli] = 0

\* The layers of an image that can be offloaded.
Accounted ==
  \A i \in Good : IF tasks[i] = NoTask THEN Owed(i) = 0
                   ELSE tasks[i].layers + Owed(i) = NumLayers[i]

LInv ==
  AnsweredOnce /\ OnePull /\ Unanswered(pending) /\ Working /\ Accounted

\* What is owed for an image is a sum of naturals.
LEMMA OwedParts ==
  ASSUME Types, NEW i \in Images
  PROVE  /\ Count(reqs, i) \in Nat /\ left[i] \in Nat
         /\ Count(functors, i) \in Nat /\ NumLayers[i] \in Nat \ {0}
         /\ Owed(i) \in Nat
<1>1. Count(reqs, i) \in Nat /\ Count(functors, i) \in Nat
  BY CountType DEF Types
<1>2. left[i] \in Nat /\ NumLayers[i] \in Nat \ {0}
  BY OffloadAssumption DEF Types
<1>3. Count(reqs, i) * NumLayers[i] \in Nat
  BY <1>1, <1>2
<1> QED
  BY <1>1, <1>2, <1>3 DEF Owed

\* A pull that is tried finds no task for its image, because nobody else has
\* a pull of it under way; so its request owes all of the layers.
LEMMA TryAccounts ==
  ASSUME Types, Tasks, asked \subseteq asked', asked' \subseteq Clis,
         NEW q, Waits(q, asked', dropped, tasks), Unanswered(q), OnePull',
         Working, Accounted, answers' = answers, left' = left,
         functors' = functors, NEW bufs \in Nat, TryOffload(q, bufs)
  PROVE  Unanswered(pending)' /\ Working' /\ Accounted'
<1>1. q \in Seq(asked') /\ q \in Seq(Clis)
  <2>1. q \in Seq(asked')
    BY DEF Waits
  <2> QED
    BY <2>1
<1>2. CASE NothingTried(q, bufs)
  <2>1. Unanswered(pending)' /\ Working'
    BY <1>2 DEF NothingTried, Unanswered, Working
  <2>2. Accounted'
    BY <1>2 DEF NothingTried, Accounted, Owed
  <2> QED
    BY <2>1, <2>2
<1>3. ASSUME NEW c \in Clis, Tried(q, bufs, c)
      PROVE  Unanswered(pending)' /\ Working' /\ Accounted'
  <2>1. q # <<>> /\ c = Head(q) /\ pending' = Tail(q) /\ TakesTask(c)
    BY <1>3 DEF Tried
  <2>2. /\ c \in asked'
        /\ \A i \in Images : tasks[i] # NoTask => tasks[i].cli # c
    BY <2>1, WaitsTail
  <2>3. answers[c] = 0
    BY <1>1, <2>1 DEF Unanswered
  <2>4. Unanswered(pending)'
    <3>1. \A n \in DOMAIN Tail(q) :
            n + 1 \in DOMAIN q /\ Tail(q)[n] = q[n + 1]
      BY <1>1, <2>1
    <3> QED
      BY <2>1, <3>1 DEF Unanswered
  <2>5. /\ Want[c] \in Images /\ NewTask(c) # NoTask /\ NewTask(c).cli = c
        /\ NewTask(c).layers = 0 /\ NumLayers[Want[c]] \in Nat \ {0}
    BY NewTaskOK
  <2>6. tasks[Want[c]] = NoTask
    <3> SUFFICES ASSUME tasks[Want[c]] # NoTask PROVE FALSE
      OBVIOUS
    <3> DEFINE d == tasks[Want[c]].cli
    <3>1. d \in asked' /\ Want[d] = Want[c]
      BY <2>5 DEF Tasks, TaskOK
    <3>2. answers[d] = 0 /\ d # c
      BY <2>2, <2>5 DEF Working
    <3> HIDE DEF d
    <3> QED
      BY <2>2, <2>3, <3>1, <3>2 DEF OnePull
  <2>7. tasks \in [Images -> TaskRec \cup {NoTask}]
    BY DEF Types
  <2>8. /\ \A i \in Images : i # Want[c] => tasks'[i] = tasks[i]
        /\ \/ tasks'[Want[c]] = NoTask
           \/ tasks'[Want[c]] = NewTask(c)
        /\ Want[c] \in Good => tasks'[Want[c]] = NewTask(c)
    <3>1. CASE Want[c] \in BadImages
      BY <2>1, <2>6, <3>1 DEF TakesTask, Good
    <3>2. CASE Want[c] \notin BadImages
      <4>1. tasks' = [tasks EXCEPT ![Want[c]] = NewTask(c)]
        BY <2>1, <2>6, <3>2 DEF TakesTask
      <4> QED
        BY <2>5, <2>7, <4>1
    <3> QED
      BY <3>1, <3>2
  <2>9. Working'
    <3> SUFFICES ASSUME NEW i \in Images, tasks'[i] # NoTask
                 PROVE  answers[tasks'[i].cli] = 0
      BY DEF Working
    <3>1. CASE i # Want[c]
      BY <2>8, <3>1 DEF Working
    <3>2. CASE i = Want[c]
      BY <2>3, <2>5, <2>8, <3>2
    <3> QED
      BY <3>1, <3>2
  <2>10. Accounted'
    <3>1. ASSUME NEW i \in Good, i # Want[c] \/ Want[c] \notin Good
          PROVE  tasks'[i] = tasks[i] /\ Owed(i)' = Owed(i)
      <4>1. Count(reqs', i) = Count(reqs, i)
        <5>1. CASE reqs' = reqs
          BY <5>1
        <5>2. CASE Want[c] \in Good /\ reqs' = Append(reqs, Want[c])
          <6>1. reqs \in Seq(Good \cup {Connect})
                /\ Want[c] \in Good \cup {Connect}
            BY <5>2 DEF Types
          <6>2. Count(reqs, i) \in Nat /\ i # Want[c]
            BY <3>1, <5>2, <6>1, CountType
          <6>3. Count(Append(reqs, Want[c]), i)
                  = Count(reqs, i) + (IF i = Want[c] THEN 1 ELSE 0)
            BY <6>1, CountAppend
          <6> QED
            BY <5>2, <6>2, <6>3
        <5> QED
          BY <1>3, <5>1, <5>2 DEF Tried
      <4>2. tasks'[i] = tasks[i]
        BY <2>8, <3>1 DEF Good
      <4> QED
        BY <4>1, <4>2 DEF Owed
    <3>2. ASSUME NEW i \in Good, i = Want[c]
          PROVE  /\ tasks'[i] # NoTask
                 /\ tasks'[i].layers + Owed(i)' = NumLayers[i]
      <4>1. reqs' = Append(reqs, i)
        BY <1>3, <3>2 DEF Tried
      <4>2. reqs \in Seq(Good \cup {Connect}) /\ i \in Good \cup {Connect}
        BY DEF Types
      <4>3. Count(reqs', i) = Count(reqs, i) + 1
        BY <4>1, <4>2, CountAppend
      <4>4. /\ Count(reqs, i) \in Nat /\ left[i] \in Nat
            /\ Count(functors, i) \in Nat /\ NumLayers[i] \in Nat
        BY <2>5, <3>2, OwedParts
      <4>5. Owed(i) = 0
        BY <2>6, <3>2 DEF Accounted
      <4>6. Owed(i)' = NumLayers[i]
        <5> DEFINE k == Count(reqs, i) m == NumLayers[i] l == left[i]
                   f == Count(functors, i)
        <5>1. /\ k \in Nat /\ m \in Nat /\ l \in Nat /\ f \in Nat
              /\ k * m + l + f = 0 /\ Owed(i)' = (k + 1) * m + l + f
          BY <4>3, <4>4, <4>5 DEF Owed
        <5> HIDE DEF k, m, l, f
        <5>2. (k + 1) * m = k * m + m /\ k * m \in Nat
          BY <5>1
        <5>3. Owed(i)' = m
          BY <5>1, <5>2
        <5> QED
          BY <5>3 DEF m
      <4>7. tasks'[i] # NoTask /\ tasks'[i].layers = 0
        BY <2>5, <2>8, <3>2
      <4> QED
        BY <4>4, <4>6, <4>7
    <3> QED
      BY <3>1, <3>2 DEF Accounted
  <2> QED
    BY <2>4, <2>9, <2>10
<1> QED
  BY <1>1, <1>2, <1>3, TryOutcome

\* Nothing is owed to anybody yet.
LEMMA InitLInv == Init => LInv
<1> SUFFICES ASSUME Init PROVE LInv
  OBVIOUS
<1>1. AnsweredOnce /\ OnePull /\ Unanswered(pending) /\ Working
  BY DEF Init, AnsweredOnce, OnePull, Unanswered, Working
<1>2. ASSUME NEW i \in Good PROVE tasks[i] = NoTask /\ Owed(i) = 0
  <2>1. tasks[i] = NoTask /\ left[i] = 0
    BY DEF Init, Good
  <2>2. Count(reqs, i) = 0 /\ Count(functors, i) = 0
    <3>1. reqs \in Seq(Good) /\ functors \in Seq(Good)
          /\ (\A n \in DOMAIN reqs : reqs[n] # i)
          /\ (\A n \in DOMAIN functors : functors[n] # i)
      BY DEF Init
    <3> QED
      BY <3>1, CountType
  <2>3. NumLayers[i] \in Nat
    BY OffloadAssumption DEF Good
  <2> QED
    BY <2>1, <2>2, <2>3 DEF Owed
<1> QED
  BY <1>1, <1>2 DEF LInv, Accounted

\* A pull is only accepted when the ones before it of its image are answered.
LEMMA OffloadAccounts ==
  ASSUME Duplicates = FALSE, TInv, LInv, NEW c \in Clis, Offload(c)
  PROVE  LInv'
<1>1. Types /\ Tasks /\ Pending
  BY DEF TInv
<1>2. AnsweredOnce /\ OnePull /\ Unanswered(pending) /\ Working /\ Accounted
  BY DEF LInv
<1>3. /\ c \notin asked /\ asked' = asked \cup {c} /\ conn' = conn
      /\ left' = left /\ functors' = functors /\ answers' = answers
  BY DEF Offload
<1>4. \A d \in asked : Want[d] = Want[c] => answers[d] > 0
  BY Zenon DEF Offload
<1>5. AnsweredOnce' /\ answers[c] = 0
  BY <1>2, <1>3 DEF AnsweredOnce
<1>6. OnePull'
  <2> SUFFICES ASSUME NEW d \in asked', NEW e \in asked', Want[d] = Want[e],
                      answers[d] = 0, answers[e] = 0
               PROVE  d = e
    BY <1>3 DEF OnePull
  <2>1. d \in asked /\ e \in asked => d = e
    BY <1>2 DEF OnePull
  <2> QED
    BY <1>3, <1>4, <2>1
<1>7. asked \subseteq asked' /\ asked' \subseteq Clis /\ c \notin dropped
  BY <1>1, <1>3 DEF Types
<1>8. \A i \in Images : tasks[i] # NoTask => tasks[i].cli # c
  BY <1>1, <1>3 DEF Tasks, TaskOK
<1>9. Waits(Append(pending, c), asked', dropped, tasks)
  BY <1>1, <1>3, <1>7, <1>8, WaitsAppend DEF Pending
<1>10. Unanswered(Append(pending, c))
  <2>1. pending \in Seq(asked)
    BY <1>1 DEF Pending, Waits
  <2>2. /\ DOMAIN pending = 1 .. Len(pending) /\ Len(pending) \in Nat
        /\ DOMAIN Append(pending, c) = 1 .. Len(pending) + 1
        /\ \A n \in 1 .. Len(pending) : Append(pending, c)[n] = pending[n]
        /\ Append(pending, c)[Len(pending) + 1] = c
    BY <2>1
  <2> QED
    BY <1>2, <1>5, <2>2 DEF Unanswered
<1>11. CASE conn = "up"
  <2>1. TryOffload(Append(pending, c), cfree) /\ cfree \in Nat
    BY <1>1, <1>11 DEF Offload, Types
  <2>2. Unanswered(pending)' /\ Working' /\ Accounted'
    BY <1>1, <1>2, <1>3, <1>6, <1>7, <1>9, <1>10, <2>1, TryAccounts
  <2> QED
    BY <1>5, <1>6, <2>2 DEF LInv
<1>12. CASE conn # "up"
  <2>1. pending' = Append(pending, c) /\ reqs' = reqs /\ tasks' = tasks
    BY <1>12 DEF Offload
  <2>2. Unanswered(pending)'
    BY <1>3, <1>10, <2>1 DEF Unanswered
  <2>3. Working' /\ Accounted'
    BY <1>2, <1>3, <2>1 DEF Working, Accounted, Owed
  <2> QED
    BY <1>5, <1>6, <2>2, <2>3 DEF LInv
<1> QED
  BY <1>11, <1>12

\* The request to connect owes no layer.
LEMMA OnConnectedAccounts ==
  ASSUME TInv, LInv, OnConnected
  PROVE  LInv'
<1>1. /\ asked' = asked /\ pending' = pending /\ tasks' = tasks
      /\ left' = left /\ functors' = functors /\ answers' = answers
      /\ reqs' = Append(reqs, Connect)
  BY DEF OnConnected
<1>2. AnsweredOnce' /\ OnePull' /\ Unanswered(pending)' /\ Working'
  BY <1>1 DEF LInv, AnsweredOnce, OnePull, Unanswered, Working
<1>3. ASSUME NEW i \in Good PROVE Owed(i)' = Owed(i)
  <2>1. i # Connect /\ i \in Images
    BY OffloadAssumption DEF Good
  <2>2. reqs \in Seq(Good \cup {Connect}) /\ Connect \in Good \cup {Connect}
    BY DEF TInv, Types
  <2>3. Count(Append(reqs, Connect), i) =
          Count(reqs, i) + (IF i = Connect THEN 1 ELSE 0)
    BY <2>2, CountAppend
  <2>4. Count(reqs, i) \in Nat
    BY <2>2, CountType
  <2>5. Count(reqs', i) = Count(reqs, i)
    BY <1>1, <2>1, <2>3, <2>4
  <2> QED
    BY <1>1, <2>5 DEF Owed
<1>4. Accounted'
  BY <1>1, <1>3 DEF LInv, Accounted
<1> QED
  BY <1>2, <1>4 DEF LInv

\* A response lets the next pull be tried.
LEMMA OnRecvSuccessAccounts ==
  ASSUME TInv, LInv, OnRecvSuccess
  PROVE  LInv'
<1>1. Types /\ Tasks /\ Pending
  BY DEF TInv
<1>2. AnsweredOnce /\ OnePull /\ Unanswered(pending) /\ Working /\ Accounted
  BY DEF LInv
<1>3. /\ TryOffload(pending, cfree + 1) /\ asked' = asked /\ left' = left
      /\ functors' = functors /\ answers' = answers
  BY DEF OnRecvSuccess
<1>4. AnsweredOnce' /\ OnePull'
  BY <1>2, <1>3 DEF AnsweredOnce, OnePull
<1>5. asked \subseteq asked' /\ asked' \subseteq Clis /\ cfree + 1 \in Nat
      /\ Waits(pending, asked', dropped, tasks)
  BY <1>1, <1>3 DEF Types, Pending
<1>6. Unanswered(pending)' /\ Working' /\ Accounted'
  BY <1>1, <1>2, <1>3, <1>4, <1>5, TryAccounts
<1> QED
  BY <1>4, <1>6 DEF LInv

\* A layer's result is one less owed and one more counted; the last one finds
\* nothing owed, and answers a CLI that was not answered.
LEMMA CompleteTaskAccounts ==
  ASSUME TInv, LInv, CompleteTask
  PROVE  LInv'
<1>1. Types /\ Tasks /\ Pending
  BY DEF TInv
<1>2. AnsweredOnce /\ OnePull /\ Unanswered(pending) /\ Working /\ Accounted
  BY DEF LInv
<1>3. /\ asked' = asked /\ pending' = pending /\ reqs' = reqs
      /\ left' = left
  BY DEF CompleteTask
<1>4. PICK i \in Good :
           /\ functors # <<>> /\ i = Head(functors) /\ functors' = Tail(functors)
           /\ tasks[i] # NoTask /\ TaskOK(tasks[i], i) /\ tasks[i] \in TaskRec
           /\ i \in Images
           /\ \/ /\ tasks[i].layers + 1 = tasks[i].total
                 /\ tasks' = [tasks EXCEPT ![i] = NoTask]
                 /\ answers' = [answers EXCEPT ![tasks[i].cli] = @ + 1]
              \/ /\ tasks[i].layers + 1 < tasks[i].total
                 /\ tasks' = [tasks EXCEPT ![i] =
                               [tasks[i] EXCEPT !.layers = @ + 1]]
                 /\ answers' = answers
  BY CompleteOutcome
<1> DEFINE c == tasks[i].cli
<1>5. /\ c \in asked /\ c \in Clis /\ Want[c] = i /\ answers[c] = 0
      /\ tasks[i].total = NumLayers[i] /\ tasks[i].layers \in Nat
  BY <1>1, <1>2, <1>4 DEF TaskOK, TaskRec, Working
<1>6. tasks \in [Images -> TaskRec \cup {NoTask}] /\ answers \in [Clis -> Nat]
  BY <1>1 DEF Types
<1>7. ASSUME NEW j \in Good
      PROVE  /\ Owed(j)' = Owed(j) - (IF j = i THEN 1 ELSE 0)
             /\ Owed(j) \in Nat /\ (j = i => Owed(j) > 0)
  <2>1. j \in Images
    BY DEF Good
  <2>2. functors \in Seq(Good)
    BY <1>1 DEF Types
  <2>3. Count(Tail(functors), j) =
          Count(functors, j) - (IF j = i THEN 1 ELSE 0)
    BY <1>4, <2>2, CountTail
  <2>4. /\ Count(reqs, j) \in Nat /\ left[j] \in Nat
        /\ Count(functors, j) \in Nat /\ NumLayers[j] \in Nat
        /\ Owed(j) \in Nat
    BY <1>1, <2>1, OwedParts
  <2>5. j = i => Count(functors, j) > 0
    <3>1. functors[1] = i /\ 1 \in DOMAIN functors
      BY <1>4, <2>2
    <3> QED
      BY <2>2, <3>1, CountType
  <2> DEFINE k == Count(reqs, j) * NumLayers[j] l == left[j]
             f == Count(functors, j)
  <2>6. k \in Nat
    BY <2>4
  <2>7. /\ k \in Nat /\ l \in Nat /\ f \in Nat /\ (j = i => f > 0)
        /\ Owed(j) = k + l + f
        /\ Owed(j)' = k + l + (f - (IF j = i THEN 1 ELSE 0))
    BY <1>3, <1>4, <2>3, <2>4, <2>5, <2>6 DEF Owed
  <2> HIDE DEF k, l, f
  <2> QED
    BY <2>4, <2>7
<1>8. tasks[i].layers + Owed(i) = NumLayers[i] /\ NumLayers[i] \in Nat
  BY <1>1, <1>2, <1>4, OwedParts DEF Accounted
<1>9. \A j \in Images : j # i => tasks'[j] = tasks[j]
  BY <1>4, <1>6
<1>10. \A j \in Images : j # i /\ tasks[j] # NoTask => tasks[j].cli # c
  BY <1>1, <1>5 DEF Tasks, TaskOK
<1>11. \A n \in DOMAIN pending : pending[n] # c
  BY <1>1, <1>4 DEF Pending, Waits
<1>12. CASE /\ tasks[i].layers + 1 = tasks[i].total
            /\ tasks' = [tasks EXCEPT ![i] = NoTask]
            /\ answers' = [answers EXCEPT ![tasks[i].cli] = @ + 1]
  <2>1. tasks'[i] = NoTask
    BY <1>4, <1>6, <1>12
  <2>2. /\ \A d \in Clis : d # c => answers'[d] = answers[d]
        /\ answers'[c] = 1
    BY <1>5, <1>6, <1>12
  <2>3. Owed(i)' = 0
    BY <1>5, <1>7, <1>8, <1>12
  <2> HIDE DEF c
  <2>4. AnsweredOnce'
    BY <1>2, <1>3, <1>5, <2>2 DEF AnsweredOnce
  <2>5. OnePull'
    BY <1>1, <1>2, <1>3, <2>2 DEF OnePull, Types
  <2>6. Unanswered(pending)'
    <3>1. \A n \in DOMAIN pending : pending[n] \in Clis
      BY <1>1 DEF Pending, Waits, Types
    <3> QED
      BY <1>2, <1>3, <1>11, <2>2, <3>1 DEF Unanswered
  <2>7. Working'
    <3>1. \A j \in Images : tasks[j] # NoTask => tasks[j].cli \in Clis
      BY <1>1 DEF Tasks, TaskOK, Types
    <3> QED
      BY <1>2, <1>9, <1>10, <2>1, <2>2, <3>1 DEF Working
  <2>8. Accounted'
    <3>1. ASSUME NEW j \in Good, j # i
          PROVE  tasks'[j] = tasks[j] /\ Owed(j)' = Owed(j)
      BY <1>7, <1>9, <3>1 DEF Good
    <3> QED
      BY <1>2, <2>1, <2>3, <3>1 DEF Accounted
  <2> QED
    BY <2>4, <2>5, <2>6, <2>7, <2>8 DEF LInv
<1>13. CASE /\ tasks[i].layers + 1 < tasks[i].total
            /\ tasks' = [tasks EXCEPT ![i] =
                          [tasks[i] EXCEPT !.layers = @ + 1]]
            /\ answers' = answers
  <2> DEFINE t == [tasks[i] EXCEPT !.layers = @ + 1]
  <2>1. /\ t \in TaskRec /\ t.cli = tasks[i].cli
        /\ t.layers = tasks[i].layers + 1
    BY <1>4 DEF TaskRec
  <2>2. t # NoTask
    <3>1. t.total # 0 /\ NoTask.total = 0
      BY <2>1 DEF TaskRec, NoTask
    <3> QED
      BY <3>1
  <2>3. tasks'[i] = t
    BY <1>4, <1>6, <1>13
  <2> HIDE DEF t, c
  <2>4. AnsweredOnce' /\ OnePull' /\ Unanswered(pending)'
    BY <1>2, <1>3, <1>13 DEF AnsweredOnce, OnePull, Unanswered
  <2>5. Working'
    BY <1>2, <1>4, <1>9, <1>13, <2>1, <2>3 DEF Working
  <2>6. tasks'[i].layers + Owed(i)' = NumLayers[i]
    BY <1>5, <1>7, <1>8, <2>1, <2>3
  <2>7. Accounted'
    <3>1. ASSUME NEW j \in Good, j # i
          PROVE  tasks'[j] = tasks[j] /\ Owed(j)' = Owed(j)
      BY <1>7, <1>9, <3>1 DEF Good
    <3> QED
      BY <1>2, <2>2, <2>3, <2>6, <3>1 DEF Accounted
  <2> QED
    BY <2>4, <2>5, <2>7 DEF LInv
<1> QED
  BY <1>4, <1>12, <1>13

\* A request that arrives owes as many layers as it did on its way.
LEMMA HandleRequestAccounts ==
  ASSUME TInv, LInv, HandleRequest
  PROVE  LInv'
<1> DEFINE h == Head(reqs)
<1>1. /\ asked' = asked /\ pending' = pending /\ tasks' = tasks
      /\ functors' = functors /\ answers' = answers
      /\ reqs # <<>> /\ reqs' = Tail(reqs)
      /\ left' = IF h = Connect THEN left
                 ELSE [left EXCEPT ![h] = @ + NumLayers[h]]
  BY DEF HandleRequest
<1>2. /\ Types /\ reqs \in Seq(Good \cup {Connect})
      /\ left \in [Images -> Nat]
  BY DEF TInv, Types
<1>3. AnsweredOnce' /\ OnePull' /\ Unanswered(pending)' /\ Working'
  BY <1>1 DEF LInv, AnsweredOnce, OnePull, Unanswered, Working
<1>4. h \in Good \cup {Connect}
  BY <1>1, <1>2
<1>5. ASSUME NEW i \in Good PROVE Owed(i)' = Owed(i)
  <2>1. i # Connect /\ i \in Images
    BY OffloadAssumption DEF Good
  <2>2. Count(reqs', i) = Count(reqs, i) - (IF i = h THEN 1 ELSE 0)
    BY <1>1, <1>2, CountTail
  <2>3. /\ Count(reqs, i) \in Nat /\ left[i] \in Nat
        /\ Count(functors, i) \in Nat /\ NumLayers[i] \in Nat
    BY <1>2, <2>1, OwedParts
  <2>4. left'[i] = left[i] + (IF i = h THEN NumLayers[i] ELSE 0)
    <3> HIDE DEF h
    <3>1. CASE h = Connect
      BY <1>1, <2>1, <2>3, <3>1
    <3>2. CASE h # Connect
      <4>1. h \in Images
        BY <1>4, <3>2 DEF Good
      <4> QED
        BY <1>1, <1>2, <2>1, <2>3, <3>2, <4>1
    <3> QED
      BY <3>1, <3>2
  <2> DEFINE k == Count(reqs, i) m == NumLayers[i] l == left[i]
             f == Count(functors, i)
  <2>5. /\ k \in Nat /\ m \in Nat /\ l \in Nat /\ f \in Nat
        /\ Owed(i) = k * m + l + f
        /\ Owed(i)' = (k - (IF i = h THEN 1 ELSE 0)) * m
                       + (l + (IF i = h THEN m ELSE 0)) + f
    BY <1>1, <2>2, <2>3, <2>4 DEF Owed
  <2> HIDE DEF k, m, l, f, h
  <2>6. (k - 1) * m = k * m - m /\ k * m \in Nat
    BY <2>5
  <2> QED
    BY <2>5, <2>6
<1>6. Accounted'
  BY <1>1, <1>5 DEF LInv, Accounted
<1> QED
  BY <1>3, <1>6 DEF LInv

\* A layer that is through owes its result until the functor has run.
LEMMA LayerDoneAccounts ==
  ASSUME TInv, LInv, NEW j \in Images, LayerDone(j)
  PROVE  LInv'
<1>1. /\ asked' = asked /\ pending' = pending /\ reqs' = reqs
      /\ tasks' = tasks /\ answers' = answers /\ left[j] > 0
      /\ left' = [left EXCEPT ![j] = @ - 1]
      /\ functors' = Append(functors, j)
  BY DEF LayerDone
<1>2. /\ Types /\ functors \in Seq(Good) /\ left \in [Images -> Nat]
      /\ j \in Good
  BY <1>1 DEF TInv, Types
<1>3. AnsweredOnce' /\ OnePull' /\ Unanswered(pending)' /\ Working'
  BY <1>1 DEF LInv, AnsweredOnce, OnePull, Unanswered, Working
<1>4. ASSUME NEW i \in Good PROVE Owed(i)' = Owed(i)
  <2>1. i \in Images
    BY DEF Good
  <2>2. Count(functors', i) = Count(functors, i) + (IF i = j THEN 1 ELSE 0)
    BY <1>1, <1>2, CountAppend
  <2>3. /\ Count(reqs, i) \in Nat /\ left[i] \in Nat
        /\ Count(functors, i) \in Nat /\ NumLayers[i] \in Nat
    BY <1>2, <2>1, OwedParts
  <2>4. left'[i] = left[i] - (IF i = j THEN 1 ELSE 0)
    BY <1>1, <1>2, <2>1, <2>3
  <2> DEFINE k == Count(reqs, i) * NumLayers[i] l == left[i]
             f == Count(functors, i)
  <2>5. k \in Nat
    BY <2>3
  <2>6. /\ k \in Nat /\ l \in Nat /\ f \in Nat /\ Owed(i) = k + l + f
        /\ Owed(i)' = k + (l - (IF i = j THEN 1 ELSE 0))
                       + (f + (IF i = j THEN 1 ELSE 0))
    BY <1>1, <2>2, <2>3, <2>4, <2>5 DEF Owed
  <2> HIDE DEF k, l, f
  <2> QED
    BY <2>6
<1>5. Accounted'
  BY <1>1, <1>4 DEF LInv, Accounted
<1> QED
  BY <1>3, <1>5 DEF LInv

\* Every step keeps the accounts, if no pull of an image overlaps another.
LEMMA LInvStep ==
  ASSUME Duplicates = FALSE
  PROVE  TInv /\ LInv /\ [Next]_vars => LInv'
<1>1. ASSUME LInv, UNCHANGED vars PROVE LInv'
  <2>1. AnsweredOnce' /\ OnePull' /\ Unanswered(pending)' /\ Working'
    BY <1>1 DEF vars, LInv, AnsweredOnce, OnePull, Unanswered, Working
  <2>2. Accounted'
    BY <1>1 DEF vars, LInv, Accounted, Owed
  <2> QED
    BY <2>1, <2>2 DEF LInv
<1>2. ASSUME TInv, LInv, Next PROVE LInv'
  <2>1. CASE \E c \in Clis : Offload(c)
    BY <1>2, <2>1, OffloadAccounts
  <2>2. CASE \E i \in Images : LayerDone(i)
    BY <1>2, <2>2, LayerDoneAccounts
  <2> QED
    BY <1>2, <2>1, <2>2, OnConnectedAccounts, OnRecvSuccessAccounts,
       CompleteTaskAccounts, HandleRequestAccounts DEF Next
<1> QED
  BY <1>1, <1>2

\* The accounts hold in all states, if no pull of an image overlaps another.
THEOREM Invariance ==
  ASSUME Duplicates = FALSE
  PROVE  Spec => [](TInv /\ LInv)
<1>1. TInv /\ LInv /\ [Next]_vars => (TInv /\ LInv)'
  BY TInvStep, LInvStep
<1>2. Init => TInv /\ LInv
  BY InitTInv, InitLInv
<1> QED
  BY <1>1, <1>2, PTL DEF Spec

\* A pull is answered once and never before every layer is through: the
\* layers counted and the completions still to come are those of the image.
THEOREM AlwaysAccountedFor ==
  ASSUME Duplicates = FALSE
  PROVE  Spec => []LayersAccountedFor
<1>1. TInv /\ LInv => LayersAccountedFor
  <2> SUFFICES ASSUME TInv, LInv PROVE LayersAccountedFor
    OBVIOUS
  <2>1. \A c \in Clis : answers[c] <= 1
    BY DEF LInv, AnsweredOnce
  <2>2. \A i \in Good :
          IF tasks[i] = NoTask THEN Owed(i) = 0
          ELSE /\ tasks[i].layers + Owed(i) = NumLayers[i]
               /\ answers[tasks[i].cli] = 0
    BY DEF LInv, Accounted, Working, Good
  <2> QED
    BY <2>1, <2>2 DEF LayersAccountedFor, Good
<1> QED
  BY Invariance, <1>1, PTL

\* completeTask's assertion holds: a layer's result finds its task, as long
\* as no image is pulled while it is being pulled.  The run with Duplicates
\* shows that it fails otherwise.
THEOREM TaskAlwaysFound ==
  ASSUME Duplicates = FALSE
  PROVE  Spec => []CompleteTaskAssertion
<1>1. TInv /\ LInv => CompleteTaskAssertion
  <2> SUFFICES ASSUME TInv, LInv, functors # <<>>,
                      tasks[Head(functors)] = NoTask
               PROVE  FALSE
    BY DEF CompleteTaskAssertion
  <2> DEFINE i == Head(functors)
  <2>1. Types /\ functors \in Seq(Good)
    BY DEF TInv, Types
  <2>2. i \in Good /\ i \in Images /\ functors[1] = i /\ 1 \in DOMAIN functors
    BY <2>1 DEF Good
  <2>3. tasks[i] = NoTask
    OBVIOUS
  <2> HIDE DEF i
  <2>4. Count(functors, i) > 0
    BY <2>1, <2>2, CountType
  <2>5. /\ Count(reqs, i) \in Nat /\ left[i] \in Nat
        /\ Count(functors, i) \in Nat /\ NumLayers[i] \in Nat
    BY <2>1, <2>2, OwedParts
  <2>6. Count(reqs, i) * NumLayers[i] \in Nat
    BY <2>5
  <2>7. Owed(i) = 0
    BY <2>2, <2>3 DEF LInv, Accounted
  <2> QED
    BY <2>4, <2>5, <2>6, <2>7 DEF Owed
<1> QED
  BY Invariance, <1>1, PTL
=============================================================================
