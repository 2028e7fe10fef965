------------------------------ MODULE FdkSession ------------------------------
(***************************************************************************)
(* Memory requests of several connections at once: the clients' calls      *)
(* (executeFunction in lib/packet.c under memoryReadBuffer and             *)
(* memoryWriteDWord of src_memvr/client.c), the messages, the worker of    *)
(* each connection (handleIncomingConnection in src_fdkd/fdkd.c), and the  *)
(* memory they share, which libmem.c moves byte by byte.  Connections are  *)
(* reset, clients end in the middle of a call, hosts fall silent and the   *)
(* server exits at any point.                                              *)
(*                                                                         *)
(* Messages are whole (PacketStream) and well formed (FdkExchange).  A     *)
(* client that ends and starts again is another connection.                *)
(***************************************************************************)
EXTENDS Naturals, Sequences

CONSTANTS Conns,    \* connections
          Calls,    \* memory calls, as in FdkRpc
          Words,    \* contents the device gives the memory by itself
          MaxCalls  \* bound: calls made on a connection, a function of it

ASSUME FdkSessionAssumption ==
  /\ Calls # {} /\ \A c \in Calls : Len(c.bytes) \in Nat
  /\ \A v, w \in Words : DOMAIN v = DOMAIN w
  /\ MaxCalls \in [Conns -> Nat]

VARIABLES mem,      \* the memory cells
          call,     \* client: its current or last call
          outcome,  \* client: "idle", "pending", "ok", "refused" or "failed"
          data,     \* client: what its last successful read returned
          link,     \* "up", "closed" by the client, "reset" or "silent"
          request,  \* messages from the client
          reply,    \* messages from the worker
          worker,   \* "read", "access", "reply" or "gone"
          job,      \* the call in the worker's packet buffer
          moved,    \* the bytes of it moved so far
          made,     \* calls made on the connection
          served    \* requests its worker has taken

vars == <<mem, call, outcome, data, link, request, reply, worker, job, moved, made, served>>

clientVars == <<call, outcome, data, made>>
workerVars == <<worker, job, moved, served>>

\* Type invariant.
TypeOK ==
  /\ \A w \in Words : DOMAIN mem = DOMAIN w
  /\ call \in [Conns -> Calls] /\ job \in [Conns -> Calls]
  /\ outcome \in [Conns -> {"idle", "pending", "ok", "refused", "failed"}]
  /\ link \in [Conns -> {"up", "closed", "reset", "silent"}]
  /\ worker \in [Conns -> {"read", "access", "reply", "gone"}]
  /\ \A k \in Conns :
       /\ Len(moved[k]) <= Len(job[k].bytes)
       /\ made[k] \in 0..MaxCalls[k] /\ served[k] \in 0..MaxCalls[k]
       /\ \A i \in 1..Len(request[k]) : request[k][i] \in Calls

Init ==
  /\ mem \in Words
  /\ call = [k \in Conns |-> CHOOSE c \in Calls : TRUE] /\ job = call  \* not a call yet
  /\ outcome = [k \in Conns |-> "idle"] /\ data = [k \in Conns |-> <<>>]
  /\ link = [k \in Conns |-> "up"] /\ worker = [k \in Conns |-> "read"]
  /\ request = [k \in Conns |-> <<>>] /\ reply = [k \in Conns |-> <<>>]
  /\ moved = [k \in Conns |-> <<>>]
  /\ made = [k \in Conns |-> 0] /\ served = [k \in Conns |-> 0]

-----------------------------------------------------------------------------
(* The client: one call at a time.                                          *)

Call(k, c) ==
  /\ outcome[k] \in {"idle", "ok", "refused"} /\ link[k] \in {"up", "silent"}
  /\ made[k] < MaxCalls[k]
  /\ call' = [call EXCEPT ![k] = c] /\ outcome' = [outcome EXCEPT ![k] = "pending"]
  /\ made' = [made EXCEPT ![k] = @ + 1]
  /\ request' = [request EXCEPT ![k] = Append(@, c)]
  /\ UNCHANGED <<mem, data, link, reply, workerVars>>

\* The answer has the operation of the call, or the call fails.
Receive(k) ==
  /\ outcome[k] = "pending" /\ link[k] # "silent" /\ reply[k] # <<>>
  /\ LET r == Head(reply[k])
     IN  IF r.write # call[k].write
         THEN outcome' = [outcome EXCEPT ![k] = "failed"] /\ UNCHANGED data
         ELSE /\ outcome' = [outcome EXCEPT ![k] = IF r.ok THEN "ok" ELSE "refused"]
              /\ data' = IF r.ok /\ ~r.write THEN [data EXCEPT ![k] = r.bytes] ELSE data
  /\ reply' = [reply EXCEPT ![k] = Tail(@)]
  /\ UNCHANGED <<mem, call, made, link, request, workerVars>>

\* readPacket ends with 0 or -1.  There is no timeout: a silent host is waited
\* for without end.
ReceiveFails(k) ==
  /\ outcome[k] = "pending" /\ link[k] = "reset"
  /\ outcome' = [outcome EXCEPT ![k] = "failed"]
  /\ UNCHANGED <<mem, call, data, made, link, request, reply, workerVars>>

\* The client's process ends, whatever it was doing; what it sent is delivered.
Abandon(k) ==
  /\ link[k] = "up"
  /\ link' = [link EXCEPT ![k] = "closed"]
  /\ outcome' = [outcome EXCEPT ![k] = IF @ = "pending" THEN "failed" ELSE @]
  /\ UNCHANGED <<mem, call, data, made, request, reply, workerVars>>

-----------------------------------------------------------------------------
(* The worker: read a request, carry it out, reply.                         *)

\* Mutant: the request stays in the connection.
WorkerReadsTwice(k) ==
  /\ worker[k] = "read" /\ link[k] \in {"up", "closed"} /\ request[k] # <<>>
  /\ served[k] < MaxCalls[k]
  /\ job' = [job EXCEPT ![k] = Head(request[k])]
  /\ moved' = [moved EXCEPT ![k] = <<>>]
  /\ served' = [served EXCEPT ![k] = @ + 1]
  /\ worker' = [worker EXCEPT ![k] = "access"]
  /\ UNCHANGED <<mem, clientVars, link, request, reply>>

WorkerReads(k) ==
  /\ worker[k] = "read" /\ link[k] \in {"up", "closed"} /\ request[k] # <<>>
  /\ job' = [job EXCEPT ![k] = Head(request[k])]
  /\ request' = [request EXCEPT ![k] = Tail(@)]
  /\ moved' = [moved EXCEPT ![k] = <<>>]
  /\ served' = [served EXCEPT ![k] = @ + 1]
  /\ worker' = [worker EXCEPT ![k] = "access"]
  /\ UNCHANGED <<mem, clientVars, link, reply>>

\* The end of the stream, or an error.
WorkerEnds(k) ==
  /\ worker[k] = "read"
  /\ link[k] = "reset" \/ (link[k] = "closed" /\ request[k] = <<>>)
  /\ worker' = [worker EXCEPT ![k] = "gone"] /\ link' = [link EXCEPT ![k] = "reset"]
  /\ UNCHANGED <<mem, clientVars, request, reply, job, moved, served>>

\* memReadBuffer and memWriteBuffer, one turn of their loops: offset i - 1 of
\* the request, whose cell is the i-th from addr.
MoveByte(k) ==
  LET i == Len(moved[k]) + 1
      a == job[k].addr + i
  IN  /\ worker[k] = "access" /\ i <= Len(job[k].bytes)
      /\ mem' = IF job[k].write THEN [mem EXCEPT ![a] = job[k].bytes[i]] ELSE mem
      /\ moved' = [moved EXCEPT ![k] = Append(@, mem'[a])]
      /\ UNCHANGED <<clientVars, link, request, reply, worker, job, served>>

\* The loop is over, or the range cannot be mapped and pread or pwrite stops
\* early: then a read is answered with FFh in every byte, and a write may have
\* left its first bytes in memory.
AccessEnds(k) ==
  /\ worker[k] = "access"
  /\ worker' = [worker EXCEPT ![k] = "reply"]
  /\ UNCHANGED <<mem, clientVars, link, request, reply, job, moved, served>>

Answer(k) == [write |-> job[k].write, ok |-> Len(moved[k]) = Len(job[k].bytes),
              bytes |-> IF job[k].write THEN <<>> ELSE moved[k]]

\* The worker finds out that the client is not there any more.
ReplyFails(k) ==
  /\ link[k] \in {"closed", "reset"}
  /\ worker' = [worker EXCEPT ![k] = "gone"] /\ link' = [link EXCEPT ![k] = "reset"]
  /\ UNCHANGED reply

\* Mutant: a refused request is not answered.
WorkerRepliesIfOk(k) ==
  /\ worker[k] = "reply"
  /\ \/ /\ link[k] # "reset"
        /\ worker' = [worker EXCEPT ![k] = "read"]
        /\ reply' = IF link[k] # "closed" /\ Answer(k).ok
                    THEN [reply EXCEPT ![k] = Append(@, Answer(k))] ELSE reply
        /\ UNCHANGED link
     \/ ReplyFails(k)
  /\ UNCHANGED <<mem, clientVars, request, job, moved, served>>

\* The reply is sent; into a connection the client has closed that goes well
\* or fails, into one that is reset it fails and ends the worker.
WorkerReplies(k) ==
  /\ worker[k] = "reply"
  /\ \/ /\ link[k] # "reset"
        /\ worker' = [worker EXCEPT ![k] = "read"]
        /\ reply' = IF link[k] # "closed" THEN [reply EXCEPT ![k] = Append(@, Answer(k))] ELSE reply
        /\ UNCHANGED link
     \/ ReplyFails(k)
  /\ UNCHANGED <<mem, clientVars, request, job, moved, served>>

-----------------------------------------------------------------------------
(* The environment.                                                         *)

\* What was on its way is lost, or was already at the client.
Reset(k) ==
  /\ link[k] = "up"
  /\ link' = [link EXCEPT ![k] = "reset"]
  /\ request' = [request EXCEPT ![k] = <<>>]
  /\ reply' \in {reply, [reply EXCEPT ![k] = <<>>]}
  /\ UNCHANGED <<mem, clientVars, workerVars>>

\* A cable is pulled, a host loses power: nobody is told.
Silence(k) ==
  /\ link[k] = "up"
  /\ link' = [link EXCEPT ![k] = "silent"]
  /\ UNCHANGED <<mem, clientVars, request, reply, workerVars>>

\* The server's process ends, with every worker where it is.
ServerExits ==
  /\ \E k \in Conns : worker[k] # "gone"
  /\ worker' = [k \in Conns |-> "gone"]
  /\ link' = [k \in Conns |-> IF link[k] = "silent" THEN "silent" ELSE "reset"]
  /\ request' = [k \in Conns |-> <<>>]
  /\ UNCHANGED <<mem, clientVars, reply, job, moved, served>>

\* A device register changes by itself.
Hardware ==
  /\ mem' \in Words
  /\ UNCHANGED <<clientVars, link, request, reply, workerVars>>

Client(k) == Receive(k) \/ ReceiveFails(k)
Worker(k) == WorkerReads(k) \/ WorkerEnds(k) \/ MoveByte(k) \/ AccessEnds(k) \/ WorkerReplies(k)

Next ==
  \/ \E k \in Conns, c \in Calls : Call(k, c)
  \/ \E k \in Conns : Client(k) \/ Worker(k)
  \/ \E k \in Conns : Abandon(k) \/ Reset(k) \/ Silence(k)
  \/ ServerExits \/ Hardware

\* A waiting client and a worker are threads the kernel runs.
Fairness == \A k \in Conns : WF_vars(Client(k)) /\ WF_vars(Worker(k))

Spec == Init /\ [][Next]_vars /\ Fairness

-----------------------------------------------------------------------------
(* Properties.                                                              *)

\* Request and reply alternate: on a connection that is up, a pending call is
\* in exactly one place, and there is nothing anywhere for one that is not.
Lockstep ==
  \A k \in Conns : link[k] = "up" =>
    Len(request[k]) + Len(reply[k]) + (IF worker[k] \in {"access", "reply"} THEN 1 ELSE 0)
      = IF outcome[k] = "pending" THEN 1 ELSE 0

\* Every call keeps the promises of FdkRpc: its bytes are moved at most once,
\* a success has moved all of them, an answer is the answer to this call, and
\* nothing of a call happens after it returned.
Rpc == INSTANCE FdkRpc WITH
         moved <- [k \in Conns |-> IF served[k] = made[k] THEN moved[k] ELSE <<>>]
ImplementsRpc == Rpc!Spec

\* A call returns, unless the other host has fallen silent.
CallReturns ==
  \A k \in Conns : outcome[k] = "pending" ~> (outcome[k] # "pending" \/ link[k] = "silent")

=============================================================================
