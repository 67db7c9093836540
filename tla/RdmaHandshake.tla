--------------------------- MODULE RdmaHandshake ---------------------------
(***************************************************************************)
(* How an RdmaClient and an RdmaServer get an RDMA connection: over a TCP  *)
(* connection of its own, which lives only as long as the handshake.       *)
(*                                                                         *)
(* TcpConnector retries until the server listens.  Each side then creates  *)
(* its queue pair and sends its RdmaExchangeInfo; with the peer's it moves *)
(* the queue pair to RTS, registers the connection with its loop and sends *)
(* kHandshakeCompleteMsg; with the peer's it calls connectedCallback_ and  *)
(* shuts its half of the TCP connection down.  The peer's half close may   *)
(* come at any time, reads and writes may be short, and everything a side  *)
(* has not written yet waits in its output buffer.                         *)
(*                                                                         *)
(* The bytes are abstract: InfoLen units "i" are an RdmaExchangeInfo, "k"  *)
(* is kHandshakeCompleteMsg, and "eof" ends the stream.                    *)
(***************************************************************************)
EXTENDS Naturals, Sequences

CONSTANTS InfoLen,  \* units of an RdmaExchangeInfo, so that it can be split
          MaxFault  \* bound: verbs and socket calls that fail

ASSUME HandshakeAssumption == InfoLen \in Nat \ {0} /\ MaxFault \in Nat

VARIABLES
  listening, \* has the server's Acceptor begun to listen
  connector, \* TcpConnector::state_, "idle" before connect(), or "failed"
  sock,      \* the kernel's view of the client's connect
  backlog,   \* does the listening socket have a connection to accept
  tcp,       \* per side, TcpConnection::state_, or "destroyed"
  state,     \* per side, RdmaConnector::state_
  qp,        \* per side, the RdmaConnection: queue pair INIT or RTS, or
             \* also registered with the loop ("up")
  wire,      \* per side, bytes on their way to it
  input,     \* per side, inputBuffer_
  output,    \* per side, outputBuffer_; writing is enabled unless it is empty
  pc,        \* per side, where its loop thread is in handshakeQp
  called,    \* per side, calls of connectedCallback_
  nfault     \* failures so far

netvars == <<listening, connector, sock, backlog>>
hsVars ==
  <<netvars, tcp, state, qp, wire, input, output, pc, called, nfault>>

Side == {"client", "server"}
Other(s) == IF s = "client" THEN "server" ELSE "client"
Info == [n \in 1 .. InfoLen |-> "i"]
Complete == <<"k">>

HsInit ==
  /\ listening = FALSE /\ connector = "idle" /\ sock = "none"
  /\ backlog = FALSE
  /\ tcp = [s \in Side |-> "none"] /\ state = [s \in Side |-> "notInit"]
  /\ qp = [s \in Side |-> "none"] /\ pc = [s \in Side |-> "loop"]
  /\ wire = [s \in Side |-> <<>>]
  /\ input = [s \in Side |-> <<>>] /\ output = [s \in Side |-> <<>>]
  /\ called = [s \in Side |-> 0] /\ nfault = 0

-----------------------------------------------------------------------------
(* TcpConnection's sending half. *)

\* sendInLoop: write at once what the socket takes, unless something waits
\* already; the rest goes to the output buffer.
SendInLoop(s, msg) ==
  IF output[s] # <<>>
    THEN output' = [output EXCEPT ![s] = @ \o msg] /\ UNCHANGED wire
    ELSE \E n \in 0 .. Len(msg) :
           /\ wire' = [wire EXCEPT ![Other(s)] = @ \o SubSeq(msg, 1, n)]
           /\ output' = [output EXCEPT ![s] = SubSeq(msg, n + 1, Len(msg))]

\* Mutants: the output buffer is not looked at; nothing is shut down.
ShutdownWriteAtOnce(s, waiting) ==
  wire' = [wire EXCEPT ![Other(s)] = Append(@, "eof")]

ShutdownNothing(s, waiting) == UNCHANGED wire

\* shutdownInLoop: the write half is closed only if nothing waits.
ShutdownInLoop(s, waiting) ==
  wire' = IF waiting = <<>>
            THEN [wire EXCEPT ![Other(s)] = Append(@, "eof")]
            ELSE wire

\* shutdown(); what the connection state was is up to the caller.
Shutdown(s) ==
  /\ tcp' = [tcp EXCEPT ![s] = "disconnecting"]
  /\ ShutdownInLoop(s, output[s])

\* handleWrite writes n units; when the buffer is empty a connection that is
\* being shut down is closed for writing.
HandleWrite(s) ==
  /\ pc[s] = "loop" /\ tcp[s] \in {"connected", "disconnecting"}
  /\ \E n \in 1 .. Len(output[s]) :
       /\ wire' = [wire EXCEPT ![Other(s)] =
                     @ \o SubSeq(output[s], 1, n)
                       \o IF n = Len(output[s]) /\ tcp[s] = "disconnecting"
                            THEN <<"eof">> ELSE <<>>]
       /\ output' = [output EXCEPT ![s] = SubSeq(@, n + 1, Len(@))]
  /\ UNCHANGED <<netvars, tcp, state, qp, input, pc, called, nfault>>

-----------------------------------------------------------------------------
(* Getting the TCP connection. *)

\* RdmaServer::start, Acceptor::listen.
Listen ==
  /\ ~listening /\ listening' = TRUE
  /\ UNCHANGED <<connector, sock, backlog, tcp, state, qp, wire, input, output,
                 pc, called, nfault>>

\* Mutant: a refused connect is final.
GiveUp == "connected"

\* retry(): the timer that calls startInLoop again is set.
Retry == "disconnected"

\* startInLoop, from connect() or from the retry timer: the connect is under
\* way, or refused at once and retried later.
StartInLoop ==
  /\ connector \in {"idle", "disconnected"}
  /\ \/ connector' = "connecting" /\ sock' = "syn" /\ UNCHANGED nfault
     \/ ~listening /\ connector' = Retry /\ UNCHANGED <<sock, nfault>>
     \* Any other error: logged, and nothing is tried again.
     \/ /\ nfault < MaxFault /\ nfault' = nfault + 1
        /\ connector' = "failed" /\ UNCHANGED sock
  /\ UNCHANGED <<listening, backlog, tcp, state, qp, wire, input, output, pc,
                 called>>

\* The kernel (external) establishes the connection or refuses it.
KernelAnswer ==
  /\ sock = "syn"
  /\ IF listening THEN sock' = "established" /\ backlog' = TRUE
                  ELSE sock' = "refused" /\ UNCHANGED backlog
  /\ UNCHANGED <<listening, connector, tcp, state, qp, wire, input, output, pc,
                 called, nfault>>

\* RdmaConnection::create: all of the verbs resources, or none.
Create(s) ==
  \/ qp' = [qp EXCEPT ![s] = "init"] /\ UNCHANGED nfault
  \/ nfault < MaxFault /\ nfault' = nfault + 1 /\ UNCHANGED qp

\* initialRdmaResource, the connection callback: create the connection and
\* send its description, or shut TCP down.
InitialRdmaResource(s) ==
  /\ Create(s)
  /\ IF qp'[s] = "init"
       THEN /\ tcp' = [tcp EXCEPT ![s] = "connected"]
            /\ state' = [state EXCEPT ![s] = "init"]
            /\ SendInLoop(s, Info)
       ELSE Shutdown(s) /\ UNCHANGED <<state, output>>

\* RdmaClient::onTcpConnection and RdmaServer::onTcpConnection: an
\* RdmaConnector becomes the context of the connection.
ClientOnTcpConnection == InitialRdmaResource("client")
ServerOnTcpConnection == InitialRdmaResource("server")

\* TcpClient::newConnection, with connectEstablished.
ClientNewConnection == connector' = "connected" /\ ClientOnTcpConnection

\* TcpConnector::handleWrite or handleError: retry later, or hand the socket
\* over.
ConnectorHandleWrite ==
  /\ connector = "connecting"
  /\ \/ /\ sock = "refused" /\ connector' = Retry /\ sock' = "none"
        /\ UNCHANGED <<tcp, qp, state, wire, output, nfault>>
     \/ sock = "established" /\ ClientNewConnection /\ UNCHANGED sock
  /\ UNCHANGED <<listening, backlog, input, pc, called>>

\* TcpServer::newConnection, with connectEstablished.
ServerNewConnection == ServerOnTcpConnection

\* Acceptor::handleRead.
Accept ==
  /\ backlog /\ backlog' = FALSE
  /\ ServerNewConnection
  /\ UNCHANGED <<listening, connector, sock, input, pc, called>>

-----------------------------------------------------------------------------
(* The handshake: TcpConnection::handleRead and handshakeQp. *)

\* onTcpMessage: nothing is looked at once this side is shutting down.
OnTcpMessage(s) ==
  pc' = [pc EXCEPT ![s] = IF tcp[s] = "connected" THEN "message" ELSE @]

\* handleRead takes some bytes and calls the message callback.
HandleRead(s) ==
  /\ pc[s] = "loop" /\ tcp[s] \in {"connected", "disconnecting"}
  /\ \E n \in 1 .. Len(wire[s]) :
       /\ \A k \in 1 .. n : wire[s][k] # "eof"
       /\ input' = [input EXCEPT ![s] = @ \o SubSeq(wire[s], 1, n)]
       /\ wire' = [wire EXCEPT ![s] = SubSeq(@, n + 1, Len(@))]
  /\ OnTcpMessage(s)
  /\ UNCHANGED <<netvars, tcp, state, qp, output, called, nfault>>

\* RdmaConnection::connectQp: RTR, fillRq, RTS, or an error.
ConnectQp(s) ==
  \/ qp' = [qp EXCEPT ![s] = "rts"] /\ UNCHANGED nfault
  \/ nfault < MaxFault /\ nfault' = nfault + 1 /\ UNCHANGED qp

\* readableBytes() against sizeof(remoteExchangeInfo).
HaveInfo(s) == Len(input[s]) >= InfoLen

\* handshakeQp in kRdmaInit: wait for a whole RdmaExchangeInfo, then connect
\* the queue pair, or shut down if that fails.
HandshakeInit(s) ==
  /\ pc[s] = "message" /\ state[s] = "init"
  /\ \/ /\ ~HaveInfo(s) /\ pc' = [pc EXCEPT ![s] = "loop"]
        /\ UNCHANGED <<tcp, state, qp, wire, input, nfault>>
     \/ /\ HaveInfo(s)
        /\ input' = [input EXCEPT ![s] = SubSeq(@, InfoLen + 1, Len(@))]
        /\ ConnectQp(s)
        /\ IF qp'[s] = "rts"
             THEN /\ state' = [state EXCEPT ![s] = "rts"]
                  /\ pc' = [pc EXCEPT ![s] = "register"]
                  /\ UNCHANGED <<tcp, wire>>
             ELSE /\ Shutdown(s)
                  /\ pc' = [pc EXCEPT ![s] = "loop"]
                  /\ UNCHANGED state
  /\ UNCHANGED <<netvars, output, called>>

\* RdmaConnection::connectEstablished: the completion channel is added to the
\* loop.
ConnectEstablished(s) == qp' = [qp EXCEPT ![s] = "up"]

\* newRdmaConnectionCallback_: the client keeps its one connection, the server
\* enters it in connections_; both set the callbacks.
ClientNewRdmaConnection(s) == s = "client" /\ ConnectEstablished(s)
ServerNewRdmaConnection(s) == s = "server" /\ ConnectEstablished(s)

NewRdmaConnection(s) ==
  /\ pc[s] = "register" /\ pc' = [pc EXCEPT ![s] = "send"]
  /\ ClientNewRdmaConnection(s) \/ ServerNewRdmaConnection(s)
  /\ UNCHANGED <<netvars, tcp, state, wire, input, output, called, nfault>>

\* handshakeQp tells the peer, then falls through to kRdmaRTS.
SendComplete(s) ==
  /\ pc[s] = "send" /\ pc' = [pc EXCEPT ![s] = "message"]
  /\ SendInLoop(s, Complete)
  /\ UNCHANGED <<netvars, tcp, state, qp, input, called, nfault>>

\* Mutant: the peer's message is not waited for.
NoNeedForComplete(s) == TRUE

\* readableBytes() against sizeof(kHandshakeCompleteMsg).
HaveComplete(s) == input[s] # <<>>

\* handshakeQp in kRdmaRTS: with the peer's message the connection is ready
\* for use, and TCP is no longer needed.
HandshakeDone(s) ==
  /\ pc[s] = "message" /\ state[s] = "rts"
  /\ pc' = [pc EXCEPT ![s] = "loop"]
  /\ IF HaveComplete(s)
       THEN /\ input' = [input EXCEPT ![s] = SubSeq(@, 2, Len(@))]
            /\ state' = [state EXCEPT ![s] = "connected"]
            /\ called' = [called EXCEPT ![s] = @ + 1]
            /\ Shutdown(s)
       ELSE UNCHANGED <<tcp, state, wire, input, called>>
  /\ UNCHANGED <<netvars, qp, output, nfault>>

\* handleClose: the peer has closed its half; what was not written is lost.
HandleClose(s) ==
  /\ pc[s] = "loop" /\ tcp[s] \in {"connected", "disconnecting"}
  /\ wire[s] # <<>> /\ Head(wire[s]) = "eof"
  /\ tcp' = [tcp EXCEPT ![s] = "disconnected"]
  /\ output' = [output EXCEPT ![s] = <<>>]
  /\ UNCHANGED <<netvars, state, qp, wire, input, pc, called, nfault>>

HasEof(s) == \E n \in DOMAIN wire[s] : wire[s][n] = "eof"

\* With the RdmaConnector goes a connection nobody registered.
ReleaseUnregistered(s) ==
  qp' = [qp EXCEPT ![s] = IF @ = "up" THEN @ ELSE "none"]

\* The queued connectDestroyed drops the last reference and closes the socket.
ConnectDestroyed(s) ==
  /\ tcp[s] = "disconnected" /\ tcp' = [tcp EXCEPT ![s] = "destroyed"]
  /\ wire' = IF HasEof(Other(s))
                  \/ tcp[Other(s)] \in {"disconnected", "destroyed"}
               THEN wire
               ELSE [wire EXCEPT ![Other(s)] = Append(@, "eof")]
  /\ ReleaseUnregistered(s)
  /\ UNCHANGED <<netvars, state, input, output, pc, called, nfault>>

-----------------------------------------------------------------------------
SideNext(s) ==
  \/ HandleRead(s) \/ HandleWrite(s) \/ HandshakeInit(s) \/ NewRdmaConnection(s)
  \/ SendComplete(s) \/ HandshakeDone(s) \/ HandleClose(s)
  \/ ConnectDestroyed(s)

HsNext ==
  \/ Listen \/ StartInLoop \/ KernelAnswer \/ ConnectorHandleWrite \/ Accept
  \/ \E s \in Side : SideNext(s)

\* Both loops run, TCP delivers, and the retry timer fires.  Nothing forces
\* the server to start, the first connect() or a failure.
HsFairness ==
  /\ WF_hsVars(connector = "disconnected" /\ StartInLoop)
  /\ WF_hsVars(KernelAnswer)
  /\ WF_hsVars(ConnectorHandleWrite) /\ WF_hsVars(Accept)
  /\ \A s \in Side :
       WF_hsVars(HandleWrite(s)) /\ WF_hsVars(SideNext(s))

HsSpec == HsInit /\ [][HsNext]_hsVars

HsFairSpec == HsSpec /\ HsFairness

-----------------------------------------------------------------------------
(* Properties. *)

\* connectedCallback_ is held back because the peer side may not yet be
\* ready to receive: when it is called, once, the peer's receive queue is
\* filled, its queue pair is up and its loop watches the completion channel.
\* And handshakeQp's assertion: the message it waits for,
\* kHandshakeCompleteMsg, is what follows the peer's RdmaExchangeInfo, however
\* the bytes were cut into reads.
PeerReady ==
  \A s \in Side :
    /\ called[s] > 0 => called[s] = 1 /\ qp[Other(s)] = "up"
    /\ pc[s] = "message" /\ state[s] = "rts" /\ input[s] # <<>> =>
         Head(input[s]) = "k"

\* A side that is done first closes its half at once, and that never cuts the
\* slower side off: without a failure nobody sees the end of the stream
\* before its own handshake is over.
NoEarlyClose ==
  nfault = 0 => \A s \in Side :
    tcp[s] \in {"disconnected", "destroyed"} => state[s] = "connected"

\* Both sides get their connection, once the server listens and the client
\* has asked, unless a call of the kernel or of the NIC failed.
BothConnected ==
  (listening /\ connector # "idle")
    ~> (nfault > 0 \/ \A s \in Side : called[s] = 1)

\* "Once successfully established, the TcpConnection will shutdown.  It will
\* also shutdown the TcpConnection if error occours": on both sides, whichever
\* of them failed, and be it at once in create, no TCP connection is left over.
TcpEnds ==
  \A s \in Side :
    (tcp[s] \in {"connected", "disconnecting"}) ~> (tcp[s] = "destroyed")
=============================================================================
