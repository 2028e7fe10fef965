------------------------------- MODULE FdkdMain -------------------------------
(***************************************************************************)
(* The life of the server process (src_fdkd/fdkd.c): the accept loop of    *)
(* main, the signal handler that sets `terminate', one detached worker per *)
(* connection (handleIncomingConnection), and the file descriptors they    *)
(* share.  What a worker does with a request is FdkExchange; here a        *)
(* request only makes it answer and go on, or answer and close.            *)
(*                                                                         *)
(* accept4, the listen queue, signal delivery and the descriptor table are *)
(* the kernel's: a signal runs its handler wherever main is, and makes     *)
(* accept4 return EINTR only when main is already inside it.               *)
(***************************************************************************)
EXTENDS Naturals, Sequences, FiniteSets

CONSTANTS Conns,       \* the connections clients open, each once
          FdLimit,     \* descriptors the process may have open
          MaxSignals   \* bound: SIGTERM, SIGINT or SIGHUP that arrive

ASSUME FdkdMainAssumption == FdLimit \in Nat \ {0} /\ MaxSignals \in Nat /\ "none" \notin Conns

VARIABLES mpc,        \* where main is in its loop
          terminate,  \* the flag the signal handler sets
          cfd,        \* the connection main holds between accept and pthread_create
          queue,      \* connections completed by the kernel, not accepted yet
          worker,     \* where the worker of each connection is
          inbox,      \* what its client has sent and the worker has not read
          left,       \* the clients that closed their end
          fds,        \* open descriptors: the listener, sockets, /dev/mem
          signals,    \* signals delivered so far
          missed,     \* history: the first signal came between check and accept
          late        \* history: connections accepted after the first signal

vars == <<mpc, terminate, cfd, queue, worker, inbox, left, fds, signals, missed, late>>

NoConn   == "none"
Listener == <<"sfd", NoConn>>
Sock(c)  == <<"cfd", c>>
Mem(c)   == <<"memfd", c>>

FDK_LISTEN_BACKLOG == 5

\* Programs of main and of a worker, as the places where they can be observed.
MainPlaces   == {"check", "calling", "accept", "alloc", "create", "exit", "done"}
WorkerPlaces == {"unborn", "start", "read", "handle", "reply", "replyAndClose",
                 "closeMem", "closeSock", "gone"}

\* Type invariant.
TypeOK ==
  /\ mpc \in MainPlaces /\ terminate \in BOOLEAN
  /\ cfd \in Conns \cup {NoConn} /\ queue \in Seq(Conns)
  /\ worker \in [Conns -> WorkerPlaces]
  /\ inbox \in [Conns -> {"empty", "request", "disconnect", "malformed"}]
  /\ left \subseteq Conns
  /\ fds \subseteq {Listener} \cup {Sock(c) : c \in Conns} \cup {Mem(c) : c \in Conns}
  /\ signals \in 0..MaxSignals /\ missed \in BOOLEAN /\ late \in Nat

\* installSignalHandlers has run and the listening socket is open.
Init ==
  /\ mpc = "check" /\ terminate = FALSE /\ cfd = NoConn /\ queue = <<>>
  /\ worker = [c \in Conns |-> "unborn"] /\ inbox = [c \in Conns |-> "empty"]
  /\ left = {} /\ fds = {Listener} /\ signals = 0 /\ missed = FALSE /\ late = 0

Running == mpc # "done"
FdFree  == Cardinality(fds) < FdLimit

MainGoes(from, to) == mpc = from /\ mpc' = to
WorkerGoes(c, from, to) ==
  Running /\ worker[c] = from /\ worker' = [worker EXCEPT ![c] = to]

-----------------------------------------------------------------------------
(* main: while (!terminate) accept, allocate, create the worker.            *)

\* Mutant: the flag is not tested before the next accept.
CheckTerminateIgnored ==
  /\ MainGoes("check", "calling")
  /\ UNCHANGED <<terminate, cfd, queue, worker, inbox, left, fds, signals, missed, late>>

CheckTerminate ==
  /\ mpc = "check" /\ mpc' = (IF terminate THEN "exit" ELSE "calling")
  /\ UNCHANGED <<terminate, cfd, queue, worker, inbox, left, fds, signals, missed, late>>

\* The instructions between the check and the kernel.
EnterAccept ==
  /\ MainGoes("calling", "accept")
  /\ UNCHANGED <<terminate, cfd, queue, worker, inbox, left, fds, signals, missed, late>>

\* EMFILE: the loop tries again at once.
AcceptFails ==
  /\ MainGoes("accept", "check") /\ ~FdFree
  /\ UNCHANGED <<terminate, cfd, queue, worker, inbox, left, fds, signals, missed, late>>

Accept ==
  /\ MainGoes("accept", "alloc") /\ FdFree /\ queue # <<>>
  /\ cfd' = Head(queue) /\ queue' = Tail(queue)
  /\ fds' = fds \cup {Sock(Head(queue))}
  /\ late' = IF terminate THEN late + 1 ELSE late
  /\ UNCHANGED <<terminate, worker, inbox, left, signals, missed>>

\* calloc of the connection; without memory the socket is closed.
Allocate ==
  /\ MainGoes("alloc", "create")
  /\ UNCHANGED <<terminate, cfd, queue, worker, inbox, left, fds, signals, missed, late>>

AllocateFails ==
  /\ MainGoes("alloc", "check")
  /\ fds' = fds \ {Sock(cfd)} /\ cfd' = NoConn
  /\ UNCHANGED <<terminate, queue, worker, inbox, left, signals, missed, late>>

\* pthread_create: from here the worker owns the socket.
CreateWorker ==
  /\ MainGoes("create", "check")
  /\ worker' = [worker EXCEPT ![cfd] = "start"] /\ cfd' = NoConn
  /\ UNCHANGED <<terminate, queue, inbox, left, fds, signals, missed, late>>

\* Mutant: the socket of a connection without a thread is not closed.
CreateFailsLeak ==
  /\ MainGoes("create", "check")
  /\ cfd' = NoConn
  /\ UNCHANGED <<terminate, queue, worker, inbox, left, fds, signals, missed, late>>

CreateFails ==
  /\ MainGoes("create", "check")
  /\ fds' = fds \ {Sock(cfd)} /\ cfd' = NoConn
  /\ UNCHANGED <<terminate, queue, worker, inbox, left, signals, missed, late>>

\* Returning from main ends the process, its workers and its descriptors.
Exit ==
  /\ MainGoes("exit", "done")
  /\ fds' = {} /\ worker' = [c \in Conns |-> IF worker[c] = "unborn" THEN "unborn" ELSE "gone"]
  /\ queue' = <<>>
  /\ UNCHANGED <<terminate, cfd, inbox, left, signals, missed, late>>

\* Mutant: SA_RESTART, accept goes on waiting after the handler.
HandleSignalRestart ==
  /\ Running /\ signals < MaxSignals
  /\ signals' = signals + 1 /\ terminate' = TRUE
  /\ missed' = (missed \/ (~terminate /\ mpc = "calling"))
  /\ UNCHANGED <<mpc, cfd, queue, worker, inbox, left, fds, late>>

\* The handler sets the flag; inside accept4 the call returns with EINTR.
HandleSignal ==
  /\ Running /\ signals < MaxSignals
  /\ signals' = signals + 1 /\ terminate' = TRUE
  /\ missed' = (missed \/ (~terminate /\ mpc = "calling"))
  /\ mpc' = IF mpc = "accept" THEN "check" ELSE mpc
  /\ UNCHANGED <<cfd, queue, worker, inbox, left, fds, late>>

-----------------------------------------------------------------------------
(* A worker: handleIncomingConnection.                                      *)

Steady == <<mpc, terminate, cfd, queue, left, signals, missed, late>>

\* Mutant: the -1 of a failed open is kept as if it were a descriptor.
OpenMemDevUnchecked(c) ==
  /\ WorkerGoes(c, "start", "read")
  /\ \/ FdFree /\ fds' = fds \cup {Mem(c)}
     \/ fds' = fds \cup {Mem(NoConn)}
  /\ UNCHANGED <<Steady, inbox>>

\* /dev/mem may be missing or locked down, or there is no descriptor left.
OpenMemDev(c) ==
  /\ WorkerGoes(c, "start", "read")
  /\ \/ FdFree /\ fds' = fds \cup {Mem(c)}
     \/ fds' = fds
  /\ UNCHANGED <<Steady, inbox>>

\* Mutant: the end of the stream (0) is taken for a packet.
ReadPacketNoEof(c) ==
  /\ \/ inbox[c] \in {"request", "disconnect"} /\ WorkerGoes(c, "read", "handle")
     \/ inbox[c] = "malformed" /\ WorkerGoes(c, "read", "closeMem")
     \/ inbox[c] = "empty" /\ c \in left /\ WorkerGoes(c, "read", "handle")
  /\ UNCHANGED <<Steady, inbox, fds>>

\* readPacket returns a request, nothing (the client left), or an error.
ReadPacket(c) ==
  /\ \/ inbox[c] \in {"request", "disconnect"} /\ WorkerGoes(c, "read", "handle")
     \/ inbox[c] = "malformed" /\ WorkerGoes(c, "read", "closeMem")
     \/ inbox[c] = "empty" /\ c \in left /\ WorkerGoes(c, "read", "closeMem")
  /\ UNCHANGED <<Steady, inbox, fds>>

HandleRequest(c) ==
  /\ WorkerGoes(c, "handle", IF inbox[c] = "disconnect" THEN "replyAndClose" ELSE "reply")
  /\ inbox' = [inbox EXCEPT ![c] = "empty"]
  /\ UNCHANGED <<Steady, fds>>

\* The reply can fail once the client has left; SIGPIPE is ignored.
WritePacket(c) ==
  /\ \/ WorkerGoes(c, "reply", "read")
     \/ c \in left /\ WorkerGoes(c, "reply", "closeMem")
     \/ WorkerGoes(c, "replyAndClose", "closeMem")
  /\ UNCHANGED <<Steady, inbox, fds>>

CloseMemDev(c) ==
  /\ WorkerGoes(c, "closeMem", "closeSock")
  /\ fds' = fds \ {Mem(c)}
  /\ UNCHANGED <<Steady, inbox>>

\* deinitializeSocket and free: the thread ends.
CloseSocket(c) ==
  /\ WorkerGoes(c, "closeSock", "gone")
  /\ fds' = fds \ {Sock(c)}
  /\ UNCHANGED <<Steady, inbox>>

-----------------------------------------------------------------------------
(* Clients: connect, send, leave, in this order and at any time.            *)

Known(c) == worker[c] # "unborn" \/ cfd = c \/ \E i \in 1..Len(queue) : queue[i] = c

ClientConnects(c) ==
  /\ Running /\ ~Known(c) /\ c \notin left /\ Len(queue) < FDK_LISTEN_BACKLOG
  /\ queue' = Append(queue, c)
  /\ UNCHANGED <<mpc, terminate, cfd, worker, inbox, left, fds, signals, missed, late>>

ClientSends(c, what) ==
  /\ Running /\ Known(c) /\ c \notin left /\ inbox[c] = "empty" /\ worker[c] # "gone"
  /\ inbox' = [inbox EXCEPT ![c] = what]
  /\ UNCHANGED <<mpc, terminate, cfd, queue, worker, left, fds, signals, missed, late>>

ClientLeaves(c) ==
  /\ Running /\ Known(c) /\ c \notin left
  /\ left' = left \cup {c}
  /\ UNCHANGED <<mpc, terminate, cfd, queue, worker, inbox, fds, signals, missed, late>>

-----------------------------------------------------------------------------

Main == \/ CheckTerminate \/ EnterAccept \/ AcceptFails \/ Accept
        \/ Allocate \/ AllocateFails \/ CreateWorker \/ CreateFails \/ Exit

Worker(c) == \/ OpenMemDev(c) \/ ReadPacket(c) \/ HandleRequest(c) \/ WritePacket(c)
             \/ CloseMemDev(c) \/ CloseSocket(c)

Next ==
  \/ Main
  \/ HandleSignal
  \/ \E c \in Conns : Worker(c)
  \/ \E c \in Conns : ClientConnects(c) \/ ClientLeaves(c)
  \/ \E c \in Conns, what \in {"request", "disconnect", "malformed"} : ClientSends(c, what)

\* The kernel schedules main and every worker; clients and signals owe nothing.
Fairness == WF_vars(Main) /\ \A c \in Conns : WF_vars(Worker(c))

Spec == Init /\ [][Next]_vars /\ Fairness

-----------------------------------------------------------------------------
(* Properties.                                                              *)

Serving(c) == worker[c] \notin {"unborn", "gone"}

\* While the process runs, the open sockets are those somebody will close:
\* the connection main is about to hand over, or one with a live worker; a
\* worker that still needs its socket has it.  No path of main or of a worker
\* leaks a descriptor or closes one twice.
DescriptorsAreOwned ==
  Running =>
    /\ Listener \in fds
    /\ \A c \in Conns : Sock(c) \in fds <=> (Serving(c) \/ cfd = c)
    /\ \A c \in Conns : Mem(c) \in fds =>
         Serving(c) /\ worker[c] \notin {"start", "closeSock"}
    /\ cfd # NoConn => worker[cfd] = "unborn" /\ mpc \in {"alloc", "create"}

\* After the first signal at most one more connection is accepted: the one
\* main was already waiting for.
AtMostOneAfterSignal == late <= 1

\* A first signal that finds main anywhere but between the check and accept
\* ends the process.
StopsUnlessMissed == terminate /\ ~missed ~> mpc = "done"

\* A signal ends the process (the comment in installSignalHandlers).
StopsWhenSignalled == terminate ~> mpc = "done"

\* A connection whose client has left is let go with its descriptors, whatever
\* its worker was doing and whatever other clients do.
LeftIsReleased ==
  \A c \in Conns : (c \in left /\ Serving(c)) ~> (Sock(c) \notin fds /\ Mem(c) \notin fds)

=============================================================================
