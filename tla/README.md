# Poby in TLA+

Poby pulls container images with the help of a SmartNIC (DPU). A command line
client asks the host for an image; the host offloads the pull to the DPU; the
DPU fetches the layers' segments from a registry over RDMA, inflates them with
its DOCA compression engine straight into the host's memory, and the host pipes
them into `tar`, one process per layer. Everything runs on muduo-style event
loops.

This directory holds TLA+ models of the parts of Poby that carry its logic, TLC
configurations that check them on small instances, and TLAPS proofs of the
results that hold for every size. Paths below are relative to `src/src/` of the
repository unless they begin with `src/`.

## 1. The system

```
 client_cli --TCP--> CommandServer --> OffloadClientEpoll --RDMA--> OffloadServerEpoll
                        (host)             (host)                       (DPU)
                                             ^                            | fetch() per layer
                                completeTask |                            v
   tar <--pipe-- UntarEngine <-- DecompressServerEpoll <--RDMA-- DecompressClientEpoll
                  (host)              (host)             (DPU, DOCA)      ^
                                                                          | submitDecompressTask
                          ContentServer <--RDMA--> ContentFetcher --------+
                           (registry)                 (DPU)
```

| Component | State | Operations | Hard because |
|---|---|---|---|
| `RdmaConnection` (`network/rdma`) | `free_bufpairs_`, the NIC's queues, the registered memory | acquire / post / release a send buffer; `handleRead` (completion, repost, callback) | no send completions are awaited; a receive buffer is reposted before it is read; the peer's speed bounds nothing |
| `ContentClient` / `ContentFetcher` (`dpu`) | `clients_`, `unsend_reqs_`, `inflight_sends_` | `fetch`, `onConnected`, `onRecvSuccess`, `trySendRequests` | fetches arrive from another thread while connecting; follow-ups are pushed in front; unanswered requests |
| `ContentServer` (`host/server`) | send buffers | `onRecvSuccess` | three ways not to answer, one of which leaks a buffer |
| `OffloadServerEpoll` (`dpu`) | - | two request handlers | starts other components' loops |
| `DecompressClientEpoll` (`dpu`) | `pending_compress_jobs_`, `pending_rdma_jobs_`, `decompress_busy_`, `compress_job_` | submit, job start, job completion, two responses | three asynchronous parties (fetcher, accelerator, host) share buffers |
| `CompressEngine`, `DocaCore` (`doca`) | the DOCA objects, `engine_busy_`, `free_bufpairs_`, the work queue's event | `create`, `destroy`, `start_job`, `handleRead` | set-up is a ladder of `goto`s; the event is armed after the next job was started; ignored error returns |
| `BlobPool` (`utils`) | `blobs_` | `acquireBlob`, `releaseBlob` | shared by two threads, grows |
| `DecompressServerEpoll` (`host/client`) | destination buffers | two request handlers | responds before it untars |
| `UntarEngine` (`host/client`) | `untar_map_`, queues, executor | `untar`, `untar_task` | a task runs while `untar()` is still filling in its queue; the key is the layer alone |
| `OffloadClientEpoll`, `CommandServer` (`host/client`) | `pending_tasks_`, `tasks_`, `conn_` | `offload`, `onConnected`, `onRecvSuccess`, `tryOffloadTask`, `completeTask` | results matched by image name; error paths drop tasks |
| `EventLoop`, `EventLoopThread` (`network`) | `pendingFunctors_`, flags, eventfd | `loop`, `quit`, `queueInLoop`, `doPendingFunctors` | lost wake-ups, quit races |
| RDMA handshake (`RdmaConnector`, `RdmaClient`, `RdmaServer`) and the TCP classes under it (`network/tcp`) | connector and connection states, input and output buffers, queue pair | `connect`, `retry`, `accept`, `send`, `shutdown`, `handleRead`, `handleWrite`, `handleClose`, `handshakeQp` | two sides become ready at different times; short reads and writes; half close |
| `TimerQueue` (`network`) | `timers_`, `activeTimers_`, `cancelingTimers_`, the timerfd | `addTimer`, `cancel`, `handleRead`, `getExpired`, `reset` | one alarm for all timers; callbacks add and cancel while their batch runs; raw pointers |
| `Poller`, `Channel` (`network`) | `channels_`, `index_`, `events_`, `tie_`, epoll's set | `poll`, `updateChannel`, `removeChannel`, `handleEvent` | nothing of it owns a `Channel`; a descriptor is reused as soon as it is closed, while events of its old owner may be pending |
| `Buffer` (`network/tcp`), framing (`utils/MsgFrame.h`) | a vector and two indices | `append`, `readFd`, `retrieve`; send and parse of a length-prefixed message | growth, compaction and an overflow area; a message arrives in any pieces |
| `client_cli` (`host/client`) | its connection | connect, request, response, shutdown | its connection and the server's end on different threads; it may be killed |
| `image_compress` (`src/tool`) | the layer at hand, `head_`, `idx_`, the output folder | set-up, split, compress, write | every DOCA call may fail, and reads and writes fail unnoticed; the process may be killed between two files and run again |
| Image metadata (`host/client/metadata.cc`, `image`) | none of its own | parse a manifest; wrapper of iSulad's image library | not modelled |

What makes each component correct:

* an RDMA buffer is not overwritten while the NIC or a callback still needs it,
  and the exchange is a FIFO request/response channel;
* the segments of a layer reach `tar` in order, once, with the bytes that were
  fetched under their name;
* every layer that can be pulled is completed once, every CLI is answered once;
* a functor that is queued is run, in order, and the loop never sleeps on one;
* neither side uses an RDMA connection the other is not ready for;
* the loop never touches a `Channel` that is gone, and what is gone is given
  back; a TCP stream keeps its bytes and its messages whole;
* a `total_segment.txt` counts segments that are there and make up the layer (the
  code keeps this only in part; `TotalMeansComplete` says in which).

## 2. The modules

| Module | Models | Composed with |
|---|---|---|
| `RdmaRpc` | one RDMA connection between `ContentClient` and `ContentServer`: buffers, NIC queues, completion handlers | implements `RpcChannel` |
| `RpcChannel` | the abstract exactly-once FIFO request/response channel with a window | - |
| `RdmaHandshake` | from `connect()` to `connectedCallback_`: TCP connect with retry, accept, `TcpConnection`, `RdmaConnector` | - |
| `ContentFetcher` | `OffloadServerEpoll`'s fetch calls, `ContentFetcher`, `ContentClient`, `ContentServer` | uses the channel of `RdmaRpc` as two queues |
| `Decompress` | `DecompressClientEpoll`, `CompressEngine`, `BlobPool`, `DecompressServerEpoll` | same |
| `UntarEngine` | `UntarEngine::untar` against the executor's `untar_task`s | - |
| `OffloadClient` | `CommandServer`, `OffloadClientEpoll`, `OffloadServerEpoll` | a layer's way through the three modules above is its step `LayerDone` |
| `EventLoop` | `EventLoop` and `EventLoopThread`; what handlers do is open | - |
| `Reactor` | `EventLoop` with `Poller`, `Channel`, `Acceptor`, `TcpServer`'s and `TcpConnection`'s life cycle, and a task that keeps a connection for another thread | extends and implements `EventLoop` |
| `Buffer` | `tcp::Buffer` as operators on a record | - |
| `CommandSession` | one pull on its TCP connection: `client_cli`, `CommandServer`, `TcpConnection::send` from either loop, framing | uses `Buffer`; runs on the functors of `EventLoop` |
| `CompressEngine` | `CompressEngine` and `DocaCore`: set-up, jobs, event handle, clean up | - |
| `ImageCompress` | the tool `image_compress` | extends `CompressEngine` |
| `TimerQueue` | `TimerQueue`, `Timer` and the timerfd | runs on the functors of `EventLoop` |
| `RdmaRpc_proofs`, `Reactor_proofs`, `CommandSession_proofs`, `UntarEngine_proofs`, `TimerQueue_proofs`, `OffloadClient_proofs`, `ContentFetcher_proofs`, `Decompress_proofs` | theorems | extend their module; `RdmaRpc_proofs` also extends `RdmaHandshake`, `ContentFetcher_proofs` also `ImageCompress` |
| `MC...` | instances for TLC | extend their module |

Variables carry the names of the members they stand for (each declaration says
which), actions the names of the handlers; `PROJECT.json` maps every definition
to its lines. An action is a handler as far as nothing can come in between. Where
something can, the handler is cut there and a program counter (`pc`, `cpc`,
`spc`, `tpc`, the `state` of an untar task) says how far it is:

* `RdmaRpc`: the repost of a receive buffer is one step, the callback that reads
  it the next, because the NIC may deliver in between. The bytes of a buffer are
  the number of the request they belong to, so an overwritten buffer shows.
* `UntarEngine`: `executor_.add`, the enqueue and the emplace of `untar()` are
  three steps, because the task already runs.
* `Decompress`: the arming of the DOCA event follows the callback in a step of
  its own, because the job started in the callback may be done by then.
* `EventLoop`: the push under the lock and the `wakeup()` after it are two steps,
  `looping_ = true` and `quit_ = false` as well.
* `RdmaHandshake`: the registration with the loop, the send and the read of
  the peer's message are steps of `handshakeQp`.
* `Reactor`: the events of one `epoll_wait` are handled one at a time, because a
  handler may remove another's channel or close its descriptor.
* `CommandSession`: `send()` looks at `state_` in one step and runs or queues
  `sendInLoop` in the next, because the connection may close on its own loop.
* `CompressEngine`, `ImageCompress`: every DOCA call, every file opened, read or
  written is a step or a choice of a step: it may fail, or the process may be
  killed after it.

A `Fetch`, `Offload`, `Submit`, `Untar` or `Push` is never forced to happen; what
has been accepted must be worked off.

### Abstractions

* One client and one server per connection. Segments, images and layers are
  small sets; bytes are the name of what they belong to; a `RdmaExchangeInfo` is
  `InfoLen` units, so that it can be cut.
* `ContentFetcher` and `Decompress` do not repeat the buffers of `RdmaRpc`: they
  count free send buffers and keep one queue each way, which is what
  `ImplementsRpcChannel` shows the exchange to be.
* An image lists a layer once. A manifest that names a digest twice would have
  its segments fetched twice under the same name, and the order per layer would
  be meaningless.
* `UntarEngine`: `Overlap` says whether a layer may be pulled again while it is
  being untarred. With `Overlap = TRUE` the key of `untar_map_` is ambiguous, two
  streams end up in one `tar`, and `StreamsInOrder` fails; the run leaves it off
  and PROJECT.json lists the hazard. `Duplicates` of `OffloadClient` is alike and
  has a run of its own (section 6).
* `Decompress`: `ArmSeesPending` is an assumption about DOCA: arming a work queue
  whose job is already done raises the event. With `FALSE` the engine waits
  forever and `AllUntarred` fails: the code rests on it.
* `Decompress`: an uncompressed segment that comes before the connection makes
  the code dereference a null `conn_`
  (`dpu/decompress_client_epoll.cc:321`). It can: the DPU answers a
  `DecompressConnectionRequest` before `connect()` is through
  (`dpu/offload_server_epoll.cc:165-168`). The module then ends the DPU's process
  (`conn = "crash"`); what it has sent before may still arrive, nothing else
  happens.
* `Decompress`: `OutInOrder` is stated for compressed segments, because
  `handleMmapInfoResponse` gives a send buffer back without serving
  `pending_rdma_jobs_`, and a later inline segment can then overtake. With one
  send buffer, which the scripts use too (`src/scripts/mem_block/mem_block.sh`), the same
  leaves inline segments in `pending_rdma_jobs_` when all of them came before the
  response: no buffer comes back any more that would serve them, until another
  segment is submitted. `Stranded` is this state and `AllUntarred` leaves it out.
* A call whose failure ends the process (`std::terminate`) is not taken to fail.
  `retrieve_job_once` and a failed work completion are of this kind.
* `TimerQueue`: times are relative to the wall clock and more than `MaxLate` ticks
  of delay are not told apart, so that time has no bound. A cancel that the loop
  thread makes before the timer's queued add has run finds nothing and is
  forgotten; `CancelSticks` is about the others.
* `Reactor` leaves out bytes (there is something to read or not) and
  `CommandSession` leaves out descriptors; each carries the other's half.
* `completeTask` calls `tasks_.erase` and then sends through `task_info.conn`, a
  reference into the erased entry
  (`host/client/offload_client_epoll.cc:115-120`). If the entry held the last
  `shared_ptr`, the connection is destructed by then. Both modules make that use
  in its place: `CompleteTask` of `Reactor` erases, destructs if nobody else holds
  the connection, and then sends; `completeTask` of `CommandSession` lets go of the
  connection before its first `send()`. As the behaviour is undefined, each has
  more than one outcome. The freed memory reads as its destructor left it, which
  for a connection is `kDisconnected`, and `send()` drops the response; or the
  memory of the entry, or of the connection, has another use by now (the path
  of the response is a string that may be given just that memory) and the process
  ends (`crashed`, `SendCrashes`). Both modules check, and it is proved, that a
  destructed connection is used only if its peer had left, so a CLI that waits
  is harmed by the erased entry at worst (`NoDangling`, `RawThisSafe`). That the
  use happens is not excluded: it does, as soon as a CLI is killed during its
  pull.
* `CompressEngine`: DOCA is external. Its objects are there or not; a call out of
  order is recorded as misuse. Arming the event handle is for one completion, a
  job writes its output from the start of the destination buffer, and a buffer
  cannot be made from a memory map that was not started. A `doca_compress_as_ctx`
  that fails leaves the compress object behind, as the code does.
* `ImageCompress`: a kill ends the process, not the machine: what `close` wrote is
  there afterwards, what was being written is torn. The code looks at the result
  of no `read`, `write` or `close` (`src/tool/image_compress.cc:87,122,138,163`): where
  one falls short the module goes on as the code does, with a file, or a source
  buffer, that is `Torn`. `lost` and `begun` are history: which segments were not
  read or written as a whole, and which layers have been begun to be written over
  since their total was written.
* `RdmaHandshake`: a refused connect is retried after a while (the delay and its
  doubling are left out). Errors that `TcpConnector` only logs, and a failure of
  `RdmaConnection::create` or `connectQp`, are counted faults.

## 3. The runs

All bounds are constants of the cfg. Deadlock checking is off in every run for
one reason: with the bounded number of requests worked off, nothing is left to
do, and the liveness property of the run says that it *was* worked off.

| Run | Distinct states | Bounds, and why they are enough |
|---|---|---|
| `rdma_rpc` | 11,773 | 3 buffers a side, 7 requests: every buffer is reused at least twice; up to 3 lost requests, so that the window can close completely |
| `rdma_handshake` | 339 | `InfoLen = 2` so that a description can be split and coalesced with what follows; one fault. Small because each side waits for the other |
| `event_loop` (`MCReactor`) | 93,068 | two connections over two descriptors, so that one can be reused while events of the old owner wait; one peer sends a request that another thread answers; 4 functors, which is what these connections can queue at most; quit and join |
| `command_session` | 525 | a header of 4 and bodies of 5 and 4 bytes through pipes of 2: no message passes in one piece; a buffer of 5 with an overflow area of 2 must compact and grow; both loops. Small because request and response alternate |
| `timer_queue` | 130,658 | two timers, due at once or later, that run once or repeat, two addresses, one change of the clock; the safety properties were also checked for three timers (6.4 million states, not part of the runs) |
| `content_fetcher` | 10,005 | two images that share a layer, layers of 4, 2 and 1 segments, a window of 2, up to 2 missing files (then the window can close) |
| `decompress` | 233,277 | 5 segments, 1 blob at first and growth by 2, 3 buffer pairs, 1 or 2 send buffers: every pool runs dry, and the only send buffer may be the one the `MmapInfoRequest` has; one DOCA fault; compressed and not |
| `untar_engine` | 119,709 | four pulls of three layers (one twice), two threads, one fault: a layer waits for a thread, a layer is pulled again |
| `untar_repull` | violation | a layer of one segment pulled twice |
| `offload_client` | 5,034 | five CLIs, four images (one without metadata, one too large), 2 send buffers |
| `offload_duplicate` | violation | two CLIs pull one image at the same time |
| `image_compress` | 275,810 | a layer of three blocks and an empty one, segments of two blocks (an uneven last one) or three (fewer segments than with two), two runs, each of which may be killed anywhere, the second with either size over what the first left |

What they show, property by property (each is explained where it is defined):

* **rdma_rpc.** `SendBufsStable` and `RecvBufsStable`: no buffer changes while it
  is in use, although no one waits for a send completion and receive buffers are
  reposted before they are read. `ReceiversReady`: no message meets an empty
  receive queue. `ImplementsRpcChannel`: read through memory, the exchange
  refines `RpcChannel`. `AllAnswered`: every request is answered unless lost ones
  used up the window.
* **rdma_handshake.** `PeerReady`: when `connectedCallback_` runs, the peer's
  receive queue is filled and watched, and the assertion in `handshakeQp` holds
  however the stream is cut. `NoEarlyClose`: the faster
  side's half close never cuts the slower one off. `BothConnected` and `TcpEnds`:
  both get their connection, and no TCP connection is left over, failure or not.
* **timer_queue.** `AlarmCovers`: the timerfd is never set later than the
  earliest timer. `OneOwner`: a Timer is in exactly one place, so none is used
  after delete, deleted twice or leaked. `CancelSticks`: a cancelled timer is not
  restarted, not even by the batch it runs in. `EventuallyExpires`: timers that
  nobody cancels go off, repeating ones again and again, whatever the clock does
  and whatever stale TimerId is cancelled.
* **content_fetcher.** `SegmentsInOrder` in spite of the requests pushed in front
  of those of other layers; `OnConnectedAssertion` for fetches that arrive while
  connecting; `EventuallyFetched` for everything the registry has.
* **decompress.** `OutIntact`: name and bytes stay together through blob, source,
  destination and send buffer. `OutInOrder`: jobs that waited for a send
  buffer keep their place. `DstStable`: the engine never writes where the host
  still reads.
  `AllUntarred`: nothing gets stuck, unless DOCA failed, an uncompressed segment
  met the null `conn_`, or the segments are `Stranded` (section 2).
* **untar_engine.** `StreamsInOrder`, `CompletedOnce`, `AllCompleted`: one `tar`
  per pull, its stream complete and in order, one result, no segment put where
  nobody reads.
* **offload_client.** `LayersAccountedFor`: layers counted plus layers to come are
  the layers of the image; `AllAnswered`: every CLI, also those queued before the connection,
  unless a task was dropped.
* **event_loop.** `InOrderOnce`, `NeverSleepsOnWork`, `FunctorsAllRun`,
  `LoopQuitEnds`: the functors of connections and tasks, with the poll timeout in
  the model but without fairness, so that nothing rests on it. The last two are
  `AllRun` and `QuitEnds` of `EventLoop`, for behaviours in which the process does
  not end on what `completeTask` erased. `RegistrationOK`: `index_`,
  `channels_` and epoll's set agree, and no assertion of `Poller`, `Channel` and
  `TcpConnection` fails, whatever is closed in the middle of a batch of events.
  `NoDangling`: no event is handled on a `Channel` that is gone, no functor is
  called for a connection that is, and when `completeTask` sends on one that its
  own erase has destructed, the peer had left. `Reclaimed`: a
  connection whose peer has gone and whose task is over is destroyed and its
  descriptor closed, unless the process ended first.
* **command_session.** `StreamIntact`: what a side wrote is what the other
  parsed, plus what is in its buffers and on the wire, in that order, through
  growth, compaction and short reads. `WholeFrames`: a message is taken up once
  and only when it is complete. `RawThisSafe`: the functors of `send()`, which
  hold a bare `this`, never run on a connection that is gone, and `completeTask`
  sends on one only when the CLI has gone. `CliAnswered`: a CLI that stays is
  answered, unless the server ends on the task it has erased; it never ends on a
  destructed connection while the CLI waits.
* **image_compress.** `TotalMeansComplete`: after any number of runs, kills and
  failures, a number in a `total_segment.txt` is the layer's count at one segment
  size, and the files it counts are the layer's segments at that size, with two
  exceptions that are the code's: a file may be cut if its segment was not read
  or not written as a whole, which nobody looks at; and as long as a run has begun
  to write the layer over and has not written its total, and for good if it ends
  there, a file may be cut or be the segment of that number at another size.
  `NoSpuriousRetrieve`: the engine is asked for a result only when there is one.
  `SetUpOrUndone`: a job starts only on a complete engine, and when
  `doca_workq_create`, the set-up of the queue's event handle or
  `doca_ctx_workq_add` fails, everything but the device is undone, in an order
  DOCA accepts. The failures before these, and the one of the first arm, are in
  the model and not in this property: the code does not undo them rightly.
  `AllPublished`: a run in which no checked call fails and that is not killed
  publishes every layer.

Every property of a passing run has a mutant in PROJECT.json: an operator that
changes one mapped definition the way a slip in the code would, under which TLC
finds the property violated. The `TypeOK` of a module says what its variables
hold; where it is proved, no run repeats it.

## 4. Fairness

Weak fairness on the steps of threads and loops that run forever, on the NIC and
the kernel (a reliable connection delivers what was posted, TCP delivers what
was written) and on the accelerator (a submitted job ends). The retry timer of
`TcpConnector` fires. A thread that waits for a queue or an event is simply not
enabled. `TimerQueue` alone has strong fairness, on the step that runs a queued
functor: every iteration of the loop looks at the queue, which is `AllRun` of
`EventLoop`. Faults, new requests, poll timeouts, the start of the server and the
end of a loop are never forced. In `UntarEngine` a pull that has begun goes on,
which is what `AllUntarred` of `Decompress` gives; in `OffloadClient` a layer is
done in the end, which is `AllCompleted` of `UntarEngine`, and in `CommandSession`
an accepted pull is untarred in the end, which is both. In `ImageCompress` the
tool goes on until it ends or is killed; in `Reactor` a peer is never forced to
speak, to close or to read. An outcome that ends the process (`crashed`, `crash`,
`conn = "crash"`) is never forced, and after it the process takes no step: the
liveness properties name it as a way out.

## 5. What is proved

TLAPS proves, for every value of the constants that satisfies the assumptions:

* `RdmaRpc_proofs`: `Invariance`, `ReceiversAlwaysReady`, `CallbacksAlwaysSafe`,
  `SendBufsAlwaysStable`, `RecvBufsAlwaysStable`, `Refinement`. Assumptions: both sides have
  buffers, and the client has no more than the server (`Nc <= Ns`; the
  deployment gives both the same number).

  None of the four invariants and action properties is inductive. `IInv` adds
  what makes them so: the client's send buffers are a partition into free and in
  flight (`ClientBufsPartition`); receive buffers are a partition into posted
  and completed, and the one a callback reads was posted last (`RecvQueues`);
  undelivered sends are the newest of the buffers in flight and of the server's
  *free* buffers (`UndeliveredAreNewest`), which is why a buffer released too
  early is safe: the free list is a FIFO and the undelivered ones are at its
  back; and every message anywhere, and every buffer the server leaked, stands
  for a different buffer in flight (`WindowBoundsTraffic`), which keeps the
  front of the free list away from its back.

  `Refinement` proves the run's `ImplementsRpcChannel`: the abstract queues are
  the bytes behind the queues of buffers, read now, so the mapping is only right
  because the memory behind every buffer on its way is left alone. Its lemmas say
  just that for each step: posted and undelivered sends keep their bytes
  (`SendBufsStep`), received and unread messages too (`RecvBufsStep`), and the
  requests that wait are the newest ones in order (`UnsentInOrder`). Every step is
  then a step of `RpcChannel` or a stutter.

* `RdmaRpc_proofs`, about `RdmaHandshake`: `HandshakeInvariance`,
  `AlwaysPeerReady`, `NeverEarlyClose`, for every length of a `RdmaExchangeInfo`,
  any number of failing calls, and every way in which TCP cuts the two streams.
  A stream is a sequence of units with fixed places: the description first,
  `kHandshakeCompleteMsg` after it, the end of the stream last (`Placed`,
  `Fits`). `HandshakeInv` says of each direction that the units a side has used,
  buffered and not yet read, and those in the other's output buffer, follow one
  another, and that until the other shuts down there are as many as it gave to
  `send()` (`Sends`); that a side which is back in its loop has used up what a
  step of `handshakeQp` could use (`Control`); and that a
  `kHandshakeCompleteMsg` anywhere on the way means that its sender's queue pair
  is up. `Faultless` carries `NoEarlyClose`: without a fault a side shuts down
  only when it is connected, and then the other has, or will read, all it
  needs, with the end of the stream behind it.

* `Reactor_proofs`, first about `EventLoop` alone: `LoopInvariance`,
  `AlwaysInOrderOnce`, `NeverSleeps`, for any sets of threads and channels, any
  callbacks and any number of functors. `LoopInv` adds
  `LoopAwake`: outside of the event handlers, which are followed by a look at the
  queue, a queued functor has made the eventfd readable or its thread is about
  to. The flag `callingPendingFunctors_` is exactly what the case of a functor
  that queues another one needs.

* `Reactor_proofs`, about `Reactor`: `ReactorImplementsLoop`, every behaviour of
  `Reactor` is one of `EventLoop`, step by step (one case per handler: it pushes
  functors the way `queueInLoop` does, or leaves the loop's variables alone).
  With it the invariants of `EventLoop` hold of a server with any number of
  connections and descriptors (`ReactorInOrderOnce`, `ReactorNeverSleeps`).
  `ReactorInvariance`, `RegistrationAlwaysOK` and `NeverDangling` are about the
  connections themselves, for any number of connections, descriptors and
  threads. The invariant `RInv` has six parts. `PollerOK`: a connection is
  unconnected and without a descriptor; or connected, in the map and in epoll
  under its own descriptor with the same events; or closed, watching nothing,
  and in the map until `connectDestroyed`; and no two share a descriptor.
  `Opened`: the server's map is the set of connected ones. `Watched`: the
  kernel's events and the rest of the batch at hand are about connected ones
  only, which is why the handlers' assertions hold although a handler may close
  its connection. `Bound`: each waiting functor keeps its connection by its own
  `shared_ptr` or by that of its task. `Closing`: each closed connection that is
  still in the map has exactly one `connectDestroyed` waiting; two would call
  `remove` twice. `TasksOK`: a task keeps its connection while another thread
  has it. `NeverDangling` also needs `Departed`: a connection is over only when
  its peer has left, a hang-up is reported only for such a one, and what was
  used after its end is among them. With `TasksOK` and `Closing` it follows that
  a connection which only its task still holds is over. There is a lemma for
  each operation of `Poller` and `Channel`, for what queueing and calling a
  functor does to `Bound` and `Closing`, and for each action.

* `CommandSession_proofs`, first about `Buffer` alone: `AppendEnqueues`,
  `ReadFdEnqueues`, `RetrieveDequeues`,
  `AppendNeverAsserts`. For every size of prepend area, buffer and overflow area,
  and every number of bytes, the readable part behaves as a queue: `append` and
  `readFd` add exactly their bytes at the back, whichever of the three branches
  of `makeSpace` is taken, `retrieve` removes from the front, and the code's
  assertions hold. They rest on `IsBuffer`, which each operation preserves, and
  on lemmas about `std::copy` and `resize`.

* `CommandSession_proofs`, about the session: `SessionInvariance`,
  `AlwaysStreamIntact`, `AlwaysWholeFrames`, `AlwaysRawThisSafe`, for every size
  of header and messages, every socket capacity, either loop, however the
  streams are cut and whenever the CLI is killed. The assumption on the
  constants is that the bytes of the two frames are bytes. `SessionInv` relates
  three things. The functors: each waits at most once, in the loop it belongs
  to, the header before the body, and both before `connectDestroyed`
  (`Ordered`); that order is what makes the bare `this` of `send()` safe,
  together with the fact that a queued or checked `send()` finds the connection
  in `connections_`, or its `connectDestroyed` still waiting (`Work`): the base
  loop, which sends, is also the one that removes. The connection: `Life` says
  for each state who holds it, and that it is added to the loop exactly until
  `connectDestroyed`; with `HeldBy`, what `Held` means in terms of the waiting
  functors, the last `shared_ptr` is never let go of in another state than
  disconnected and not added. For the send of `completeTask` there is `Departed`
  beside it: a connection is over only when the CLI has gone, or has quit with
  its whole response, and then nothing is left to be sent (`QuitHasAll`). The
  streams: what a side has parsed, buffered, on its way and in the other side's
  output buffer begin the frame (`Request`, `Response`), and `Given` says how
  long the stream of the response is, from what `completeTask` has not sent yet
  and what waits in the loop. Each step moves bytes from one place of a stream
  to the next (`MoveIn`, `Regroup`), or is a `sendInLoop` at the point where the
  stream ends (`SrvSends`), or takes a frame out, which can only be the whole
  stream (`TakeFrame`).

* `UntarEngine_proofs`: `Invariance`, `TypeCorrect`, `StreamsAlwaysInOrder`,
  `AlwaysCompletedOnce`, for any pulls, layers, numbers of segments, threads and
  failures, under the hypothesis `Overlap = FALSE` (a layer is not pulled again
  before its pull is completed; section 2). The streams are in order because what
  a task has read, what is in its queue and the segment a call of `untar()` has
  taken but not yet enqueued are, in this order, the segments sent so far
  (`Streams`). For a segment to reach the queue of its own pull, the map must
  lead to the right task: `Map` (every task that still reads is in the map, or a
  call is just creating it), `Created` (one task a pull) and `OneAtATime`. The
  entry that is left behind when a task ends before its emplace (finding 1) does
  not break the streams; `Begun` is the conjunct that says what becomes of later
  pulls of that layer: their segments go to a queue that nobody reads. `Reports`
  gives `CompletedOnce`.

* `TimerQueue_proofs`: `Invariance`, `AlwaysOneOwner`, `CancelAlwaysSticks`,
  `AlarmAlwaysCovers`, for any number of timers, delays, intervals, addresses and
  changes of the clock. The three invariants are inductive only together with
  `Phase` (`expired` is empty outside of a batch), `Queued` (a functor is about a
  Timer that exists, and adds it once: otherwise a second add would give it two
  owners) and `CancelledAfterAdd`. The alarm needs no more than this: each
  operation that puts a Timer in sets the timerfd when the Timer became the
  first, an expired alarm is readable until a batch is taken, and the batch ends
  with a look at what is left.

* `OffloadClient_proofs`: `TypeCorrect`, for any CLIs, images and buffers: the
  send buffers are conserved, whichever way a task ends. `AlwaysAccountedFor` and
  `TaskAlwaysFound` (the assertion in `completeTask`) under the hypothesis
  `Duplicates = FALSE`. `LInv` adds `OnePull` (an image is queued, tried or under
  way for one CLI only), `Unanswered` and `Working` (whose CLI waits), and
  `AnsweredOnce`; `Accounted` follows the layers through the queues by counting
  (`CountAppend`, `CountTail`). `TaskAlwaysFound` is the other side of run
  `offload_duplicate`: the assertion fails with a duplicate, and only with one.

* `ContentFetcher_proofs`: `Invariance`, `SegmentsAlwaysInOrder`,
  `OnConnectedNeverAsserts`, `TypeCorrect`, for any images, layers, numbers of
  segments and send buffers and any segments the registry lacks; the first two
  under the hypothesis `LayersDistinct` (an image lists a layer once; section
  2), the others without it. The argument is about one sequence, `Pipe`: what
  was handed on, then the responses, the requests, `unsend_reqs_` and the
  `fetch()` calls to come. A step moves a request within `Pipe` and leaves
  `Pipe` as it is, appends to it (`Offload`), drops a request from it (the
  content server lacks the file), or inserts the follow-ups of a segment 0 in
  front of `unsend_reqs_`. The insertion keeps the order because of
  `FirstLeads`: as long as the response for segment 0 has not been handled,
  nothing else of that layer is anywhere in `Pipe`. `NoGaps`, `Pulled` and
  `Answered` give the rest of `SegmentsInOrder`.

* `ContentFetcher_proofs`, about `ImageCompress` (where the
  `total_segment.txt` the fetcher counts with comes from): `ImageInvariance`,
  `AlwaysTotalMeansComplete`, `NeverSpuriousRetrieve`, `AlwaysSetUpOrUndone`, for
  any folder, any segment sizes, any number of runs and any failures and kills.
  Assumptions: segment sizes are not 0, no layer has more blocks than
  `MaxSegments` (a segment has at least one), and the marks for a missing and
  for a torn file are no contents of a segment. `EngineInv` says which DOCA
  objects exist at each step of the set-up (`SetUp`, then `CoreReady`: a buffer
  exists only of a started memory map, which is why the ignored result of
  `doca_mmap_start` does no harm), that only a complete engine is used, and that
  no job is in it while files are written. `ToolInv` follows the layer at hand:
  `head_` is where `idx_` segments end (`Reading`), the files written so far are
  its first segments at this run's size, except for those in `lost` (`Whole`), and
  the segment in the engine is the next one, or torn (`InEngine`). `Counted` is
  about the whole folder, what earlier runs left included: every file is the
  layer's segment of its number at *some* size, or missing, or cut (`Files`); and
  a total is a count at some size `z`, such that the files below it are `Whole` at
  `z` unless the layer is in `begun`, and none is missing (`Total`). The second half
  is what the step that opens a segment's file weakens and the one that writes
  the total restores (`SegmentCounted`, `CountedElsewhere`): a layer that is
  written over keeps its old count over files of two sizes until then.

* `Decompress_proofs`: `DecompressInvariance`, `DecompressTypeCorrect`,
  `AlwaysOutIntact`, `AlwaysOutInOrder`, `AlwaysDstStable`, for any number of
  segments, send buffers, buffer pairs, blobs and DOCA faults, of either kind of
  segment, and with the crash on a null `conn_` at any point. The compressed
  segments under way form a line: what was untarred, the requests,
  `pending_rdma_jobs_`, `compress_job_`, `pending_compress_jobs_` and the
  functors hold the segments 1 .. `nsub` one after the other, each with its
  bytes where that stage keeps them (`Downstream`: in the destination buffer;
  `Upstream`: in the source buffer or the blob). That two stages do not share a
  destination buffer or a blob is a consequence, since the bytes would be those
  of two segments; that a *free* buffer pair or blob is not in use, nor one
  whose response is on its way, is not, and is the rest of the invariant
  (`PairsApart`, `BlobsApart`). `tryStartDecompressJob` has three outcomes
  (`TryStartOutcome`) and keeps the line in each (`TryStartLine`), whichever of
  its four callers calls it; a failed start loses the task's name and a buffer
  pair but not its place. Two more facts are needed: before the client is
  connected nothing but the `MmapInfoRequest` is under way (`Quiet`), and an
  announcement waits only while no send buffer is free, or a later one would
  overtake it. Uncompressed segments do overtake each other (a new one does not
  look at the queue of waiting ones), so for them the invariant only says that
  the names in the four places are different (`Inline`). `AlwaysDstStable`
  follows because the accelerator writes into the job's buffer only.

`IInv`, `LoopInv` and `CallbacksSafe` of the first modules, `RInv`, and the
other inductive invariants, were also model-checked; they are proved for all
instances, so no run repeats them.

Each invariance proof has the three facts of an invariance proof as lemmas (initial states;
one lemma per conjunct for a step, one case per action), and lemmas on queues
(what `Append` and `Tail` do to order and to disjointness) under them.

Only model-checked: the liveness properties (fairness and ENABLED are beyond the
prover). Every invariant and every action property of a passing run is proved,
and so are the two refinements: of `RpcChannel`, and of `EventLoop` by `Reactor`.

## 6. Findings

Two runs show a property, taken from the code's own assertions, comments or
checks, to be violated by what the code does.

1. `untar_repull` - `untar()` gives the task to the executor before it emplaces
   the queue (`host/client/untar_engine.cc:80-86`). The task of a layer of one
   segment can be over by then; its entry stays in `untar_map_`, and the next
   pull of that layer is never completed.
2. `offload_duplicate` - two concurrent pulls of one image share an entry of
   `tasks_` (`host/client/offload_client_epoll.cc:236`); the assertion at line
   110 fails on the first result after the entry is erased.

Observed while modelling, without a line of the repository that says otherwise:
`completeTask` ignores `success` of the `UntarResult`, so a pull with a failed
layer is reported as a success (`host/client/offload_client_epoll.cc:118`); a
failure of `doca_ctx_dev_add` or `doca_ctx_start` falls through labels of
`DocaCore::create` that use `buf_inv` before it is set (`doca/core.cc:179`);
`parseRdmaPbMsg` returns -1, which callers that test it with `!` take for success
(`utils/MsgFrame.h:68`); `acquireBlob` ignores the size it is asked for
(`utils/blob_pool.h:58`); `image_compress` reads a segment before it compares
sizes, looks at no result of a read or a write, and when it is killed while it
writes a layer over, the old `total_segment.txt` stays and counts files of two
segment sizes (`src/tool/image_compress.cc:87,122,132`); `completeTask` sends
through the task it has just erased (`host/client/offload_client_epoll.cc:120`);
an uncompressed segment can meet a null `conn_`, and with one send buffer
uncompressed segments can be left in `pending_rdma_jobs_`
(`dpu/decompress_client_epoll.cc:321,265`).

## 7. Hazards without a property

PROJECT.json lists them with a note each:

* `dpu/decompress_client_epoll.cc:321`: the null `conn_` for early inline segments;
  modelled as a crash, which no property excludes since it happens;
* `host/client/untar_engine.cc:66`: overlapping pulls of a layer, which mix two
  streams in one `tar`; the module has them behind `Overlap`;
* `network/rdma/RdmaClient.cc:47`: a second `connect()` of one `RdmaClient`, after
  a restart of the host client, aborts in its first line;
* `host/client/client_cli.cc:75`: the CLI destroys a connection that is still
  `kDisconnecting`.

The notes of other hazards say where a property stops because the code does
something else: a name or the pipeline lost to a DOCA failure, pulls of a layer
that failed, tasks that are dropped and those behind them, inline segments that
overtake or stay queued, the early failures of `DocaCore::create` and the one of
its first arm, a cancel before its add, an old total over a layer that is written
over, the process that ends on an erased task.

## 8. Not modelled, and the plan

Not modelled because there is nothing to check: logging, flags, addresses,
wrappers of system calls, discovery of the DOCA device and export of memory,
`Thread`. Image metadata is parsing and a wrapper of iSulad's library, whose
state is not in this repository. `stop`, `disconnect`, `stopRead` and
reconnection of the TCP classes, `prepend`, `shrink` and the wider integers of
`Buffer`, `retrieve_job` and the framing with a type are never used by Poby.
Completion-channel acknowledgement and the depth of the send queue
(`mem_num + 5`) are left out of `RdmaRpc`.

Left:

* A pipeline that composes `ContentFetcher`, `Decompress`, `UntarEngine` and
  `OffloadClient` through their interfaces and refines an abstract image pull;
  with it a host that restarts and sends a second `DecompressConnectionRequest`.
