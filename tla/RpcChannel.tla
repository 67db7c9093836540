----------------------------- MODULE RpcChannel -----------------------------
(***************************************************************************)
(* What an RDMA exchange promises to the code above it: requests are       *)
(* served one at a time in the order they were sent, every response is the *)
(* response to the oldest request that got one, and it is handed over      *)
(* exactly once.  No buffers, no NIC, no completions.                      *)
(***************************************************************************)
EXTENDS Naturals, Sequences

CONSTANT Window    \* requests that may be outstanding

VARIABLES sent,       \* number of the last request sent
          requests,   \* sent and not yet served
          replies,    \* served and not yet handed over
          delivered   \* handed over, in order

vars == <<sent, requests, replies, delivered>>

Init == sent = 0 /\ requests = <<>> /\ replies = <<>> /\ delivered = <<>>

Issue ==
  /\ Len(requests) + Len(replies) < Window
  /\ sent' = sent + 1
  /\ requests' = Append(requests, sent + 1)
  /\ UNCHANGED <<replies, delivered>>

Serve ==
  /\ requests # <<>>
  /\ requests' = Tail(requests)
  /\ replies' = Append(replies, Head(requests))
  /\ UNCHANGED <<sent, delivered>>

\* The server has no segment to answer with.
Ignore ==
  /\ requests # <<>>
  /\ requests' = Tail(requests)
  /\ UNCHANGED <<sent, replies, delivered>>

HandOver ==
  /\ replies # <<>>
  /\ replies' = Tail(replies)
  /\ delivered' = Append(delivered, Head(replies))
  /\ UNCHANGED <<sent, requests>>

Next == Issue \/ Serve \/ Ignore \/ HandOver

Spec == Init /\ [][Next]_vars
=============================================================================
