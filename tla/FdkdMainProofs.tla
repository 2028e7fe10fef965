---------------------------- MODULE FdkdMainProofs ----------------------------
(* Descriptor ownership in the server process, for every number of           *)
(* connections and every size of the descriptor table.                       *)
EXTENDS FdkdMain, TLAPS

\* main holds a connection exactly between accept and the hand-over.
MainHolds ==
  /\ cfd # NoConn => mpc \in {"alloc", "create"} /\ worker[cfd] = "unborn"
  /\ mpc \in {"alloc", "create"} => cfd # NoConn

\* A queued connection is new: it is queued once, not held and not served.
QueueIsNew ==
  /\ \A i \in 1..Len(queue) : worker[queue[i]] = "unborn" /\ queue[i] # cfd
  /\ \A i, j \in 1..Len(queue) : queue[i] = queue[j] => i = j

\* Every open descriptor has the owner that will close it.
Owned ==
  Running =>
    /\ Listener \in fds
    /\ \A c \in Conns : Sock(c) \in fds <=> (Serving(c) \/ cfd = c)
    /\ \A c \in Conns : Mem(c) \in fds => Serving(c) /\ worker[c] \notin {"start", "closeSock"}

\* The inductive invariant.
IInv == TypeOK /\ MainHolds /\ (Running => QueueIsNew) /\ Owned

-----------------------------------------------------------------------------

\* The process starts with the listening socket only.
LEMMA InitIInv == Init => IInv
<1> SUFFICES ASSUME Init PROVE IInv
  OBVIOUS
<1>1. TypeOK
  <2>1. worker \in [Conns -> WorkerPlaces] /\ mpc \in MainPlaces /\ queue \in Seq(Conns)
    BY DEF Init, WorkerPlaces, MainPlaces
  <2>2. inbox \in [Conns -> {"empty", "request", "disconnect", "malformed"}]
    BY DEF Init
  <2>3. signals \in 0..MaxSignals /\ late \in Nat
    BY FdkdMainAssumption DEF Init
  <2> QED BY <2>1, <2>2, <2>3 DEF Init, TypeOK
<1>2. MainHolds /\ QueueIsNew
  BY DEF Init, MainHolds, QueueIsNew, NoConn
<1>3. Owned
  BY FdkdMainAssumption DEF Init, Owned, Listener, Sock, Mem, Serving, NoConn
<1> QED BY <1>1, <1>2, <1>3 DEF IInv

\* Steps of main and of the signal handler.
LEMMA MainIInv == IInv /\ (Main \/ HandleSignal) => IInv'
<1> SUFFICES ASSUME IInv, Main \/ HandleSignal PROVE IInv'
  OBVIOUS
<1> USE FdkdMainAssumption DEF IInv, MainGoes, Running, NoConn
<1>1. CASE CheckTerminate
  BY <1>1 DEF CheckTerminate, TypeOK, MainPlaces, MainHolds, QueueIsNew, Owned, Serving
<1>2. CASE EnterAccept
  BY <1>2 DEF EnterAccept, TypeOK, MainPlaces, MainHolds, QueueIsNew, Owned, Serving
<1>3. CASE AcceptFails
  BY <1>3 DEF AcceptFails, TypeOK, MainPlaces, MainHolds, QueueIsNew, Owned, Serving
<1>4. CASE Accept
  <2> DEFINE c == Head(queue)
  <2>1. /\ queue \in Seq(Conns) /\ Len(queue) \in Nat \ {0} /\ c = queue[1] /\ c \in Conns
        /\ Tail(queue) \in Seq(Conns) /\ Len(Tail(queue)) = Len(queue) - 1
        /\ \A i \in 1..Len(Tail(queue)) : Tail(queue)[i] = queue[i + 1]
    BY <1>4 DEF Accept, TypeOK
  <2>2. worker[c] = "unborn" /\ cfd = "none"
    BY <1>4, <2>1 DEF Accept, QueueIsNew, MainHolds
  <2>3. TypeOK'
    BY <1>4, <2>1 DEF Accept, TypeOK, MainPlaces
  <2>4. MainHolds' /\ QueueIsNew'
    BY <1>4, <2>1, <2>2 DEF Accept, MainHolds, QueueIsNew
  <2>5. Owned'
    BY <1>4, <2>1, <2>2 DEF Accept, Owned, Serving, Sock, Mem, Listener
  <2> QED BY <2>3, <2>4, <2>5
<1>5. CASE Allocate
  BY <1>5 DEF Allocate, TypeOK, MainPlaces, MainHolds, QueueIsNew, Owned, Serving
<1>6. CASE AllocateFails
  <2>1. TypeOK' /\ MainHolds' /\ QueueIsNew'
    BY <1>6 DEF AllocateFails, TypeOK, MainPlaces, MainHolds, QueueIsNew
  <2>2. Owned'
    BY <1>6 DEF AllocateFails, TypeOK, MainHolds, Owned, Serving, Sock, Mem, Listener
  <2> QED BY <2>1, <2>2
<1>7. CASE CreateWorker
  <2>1. cfd \in Conns /\ worker[cfd] = "unborn"
    BY <1>7 DEF CreateWorker, TypeOK, MainHolds
  <2>2. TypeOK' /\ MainHolds' /\ QueueIsNew'
    BY <1>7, <2>1 DEF CreateWorker, TypeOK, MainPlaces, WorkerPlaces, MainHolds, QueueIsNew
  <2>3. Owned'
    BY <1>7, <2>1 DEF CreateWorker, TypeOK, Owned, Serving
  <2> QED BY <2>2, <2>3
<1>8. CASE CreateFails
  <2>1. TypeOK' /\ MainHolds' /\ QueueIsNew'
    BY <1>8 DEF CreateFails, TypeOK, MainPlaces, MainHolds, QueueIsNew
  <2>2. Owned'
    BY <1>8 DEF CreateFails, TypeOK, MainHolds, Owned, Serving, Sock, Mem, Listener
  <2> QED BY <2>1, <2>2
<1>9. CASE Exit
  BY <1>9 DEF Exit, TypeOK, MainPlaces, WorkerPlaces, MainHolds, Owned
<1>10. CASE HandleSignal
  <2>1. TypeOK'
    BY <1>10 DEF HandleSignal, TypeOK, MainPlaces
  <2>2. MainHolds' /\ QueueIsNew' /\ Owned'
    BY <1>10 DEF HandleSignal, MainHolds, QueueIsNew, Owned, Serving
  <2> QED BY <2>1, <2>2
<1> QED
  BY <1>1, <1>2, <1>3, <1>4, <1>5, <1>6, <1>7, <1>8, <1>9, <1>10 DEF Main

\* Steps of a worker.
LEMMA WorkerIInv == ASSUME IInv, NEW c \in Conns, Worker(c) PROVE IInv'
<1> USE FdkdMainAssumption DEF IInv, WorkerGoes, Running, NoConn, Steady
<1>0. /\ MainHolds /\ worker[c] # "unborn" => cfd # c
  BY DEF MainHolds
<1>1. CASE OpenMemDev(c)
  <2>1. TypeOK' /\ MainHolds' /\ QueueIsNew'
    BY <1>0, <1>1 DEF OpenMemDev, TypeOK, WorkerPlaces, MainHolds, QueueIsNew, Mem
  <2>2. Owned'
    BY <1>0, <1>1 DEF OpenMemDev, TypeOK, Owned, Serving, Mem, Sock, Listener
  <2> QED BY <2>1, <2>2
<1>2. CASE ReadPacket(c)
  <2>1. TypeOK' /\ MainHolds' /\ QueueIsNew'
    BY <1>0, <1>2 DEF ReadPacket, TypeOK, WorkerPlaces, MainHolds, QueueIsNew
  <2>2. Owned'
    BY <1>0, <1>2 DEF ReadPacket, TypeOK, Owned, Serving
  <2> QED BY <2>1, <2>2
<1>3. CASE HandleRequest(c)
  <2>1. TypeOK' /\ MainHolds' /\ QueueIsNew'
    BY <1>0, <1>3 DEF HandleRequest, TypeOK, WorkerPlaces, MainHolds, QueueIsNew
  <2>2. Owned'
    BY <1>0, <1>3 DEF HandleRequest, TypeOK, Owned, Serving
  <2> QED BY <2>1, <2>2
<1>4. CASE WritePacket(c)
  <2>1. TypeOK' /\ MainHolds' /\ QueueIsNew'
    BY <1>0, <1>4 DEF WritePacket, TypeOK, WorkerPlaces, MainHolds, QueueIsNew
  <2>2. Owned'
    BY <1>0, <1>4 DEF WritePacket, TypeOK, Owned, Serving
  <2> QED BY <2>1, <2>2
<1>5. CASE CloseMemDev(c)
  <2>1. TypeOK' /\ MainHolds' /\ QueueIsNew'
    BY <1>0, <1>5 DEF CloseMemDev, TypeOK, WorkerPlaces, MainHolds, QueueIsNew
  <2>2. Owned'
    BY <1>0, <1>5 DEF CloseMemDev, TypeOK, Owned, Serving, Mem, Sock, Listener
  <2> QED BY <2>1, <2>2
<1>6. CASE CloseSocket(c)
  <2>1. TypeOK' /\ MainHolds' /\ QueueIsNew'
    BY <1>0, <1>6 DEF CloseSocket, TypeOK, WorkerPlaces, MainHolds, QueueIsNew
  <2>2. Owned'
    BY <1>0, <1>6 DEF CloseSocket, TypeOK, Owned, Serving, Mem, Sock, Listener
  <2> QED BY <2>1, <2>2
<1> QED BY <1>1, <1>2, <1>3, <1>4, <1>5, <1>6 DEF Worker

\* Steps of the clients.
LEMMA ClientIInv ==
  ASSUME IInv, NEW c \in Conns, NEW what \in {"request", "disconnect", "malformed"},
         ClientConnects(c) \/ ClientLeaves(c) \/ ClientSends(c, what)
  PROVE  IInv'
<1> USE DEF IInv, Running
<1>1. CASE ClientConnects(c)
  <2>1. /\ queue' = Append(queue, c) /\ queue \in Seq(Conns) /\ Len(queue') = Len(queue) + 1
        /\ \A i \in 1..Len(queue') : queue'[i] = IF i = Len(queue') THEN c ELSE queue[i]
    BY <1>1 DEF ClientConnects, TypeOK
  <2>2. worker[c] = "unborn" /\ cfd # c /\ \A i \in 1..Len(queue) : queue[i] # c
    BY <1>1 DEF ClientConnects, Known
  <2>3. QueueIsNew'
    BY <1>1, <2>1, <2>2 DEF ClientConnects, QueueIsNew
  <2>4. TypeOK' /\ MainHolds' /\ Owned'
    BY <1>1, <2>1 DEF ClientConnects, TypeOK, MainHolds, Owned, Serving
  <2> QED BY <2>3, <2>4
<1>2. CASE ClientLeaves(c)
  BY <1>2 DEF ClientLeaves, TypeOK, MainHolds, QueueIsNew, Owned, Serving
<1>3. CASE ClientSends(c, what)
  BY <1>3 DEF ClientSends, TypeOK, MainHolds, QueueIsNew, Owned, Serving
<1> QED BY <1>1, <1>2, <1>3

\* The inductive invariant holds in every state.
THEOREM Inductive == Spec => []IInv
<1>1. IInv /\ [Next]_vars => IInv'
  <2> SUFFICES ASSUME IInv, [Next]_vars PROVE IInv'
    OBVIOUS
  <2>1. CASE UNCHANGED vars
    BY <2>1 DEF vars, IInv, TypeOK, MainHolds, QueueIsNew, Owned, Serving, Running
  <2> QED BY <2>1, MainIInv, WorkerIInv, ClientIInv DEF Next
<1> QED BY <1>1, InitIInv, PTL DEF Spec

\* Type correctness of the server process.
THEOREM TypeCorrect == Spec => []TypeOK
BY Inductive, PTL DEF IInv

\* No path of main or of a worker leaks a descriptor, closes one that is not
\* its own, or uses a socket after it was handed over.
THEOREM DescriptorOwnership == Spec => []DescriptorsAreOwned
<1>1. IInv => DescriptorsAreOwned
  BY DEF IInv, MainHolds, Owned, DescriptorsAreOwned
<1> QED BY <1>1, Inductive, PTL

-----------------------------------------------------------------------------
(* What main still accepts after a signal.                                  *)

\* Once a connection was accepted after the signal, main is past accept and
\* on its way to the check that ends the loop.
OnItsWayOut ==
  /\ ~terminate => late = 0
  /\ late \in {0, 1}
  /\ late = 1 => mpc \in {"alloc", "create", "check", "exit", "done"}

\* Main takes the steps of its loop; the handler only moves it to the check.
LEMMA MainOnItsWayOut == OnItsWayOut /\ (Main \/ HandleSignal) => OnItsWayOut'
<1> SUFFICES ASSUME OnItsWayOut, Main \/ HandleSignal PROVE OnItsWayOut'
  OBVIOUS
<1> USE DEF OnItsWayOut, MainGoes
<1>1. CASE CheckTerminate
  BY <1>1 DEF CheckTerminate
<1>2. CASE EnterAccept \/ AcceptFails
  BY <1>2 DEF EnterAccept, AcceptFails
<1>3. CASE Accept
  <2>1. late = 0 /\ mpc' = "alloc" /\ terminate' = terminate
    BY <1>3 DEF Accept
  <2>2. CASE terminate
    BY <1>3, <2>1, <2>2 DEF Accept
  <2>3. CASE ~terminate
    BY <1>3, <2>1, <2>3 DEF Accept
  <2> QED BY <2>2, <2>3
<1>4. CASE Allocate \/ AllocateFails
  BY <1>4 DEF Allocate, AllocateFails
<1>5. CASE CreateWorker \/ CreateFails
  BY <1>5 DEF CreateWorker, CreateFails
<1>6. CASE Exit
  BY <1>6 DEF Exit
<1>7. CASE HandleSignal
  BY <1>7 DEF HandleSignal
<1> QED BY <1>1, <1>2, <1>3, <1>4, <1>5, <1>6, <1>7 DEF Main

\* After the first signal at most one more connection is accepted, however many
\* are queued and wherever the signal found main.
THEOREM OneMoreAtMost == Spec => []AtMostOneAfterSignal
<1>1. Init => OnItsWayOut
  BY DEF Init, OnItsWayOut
<1>2. OnItsWayOut /\ [Next]_vars => OnItsWayOut'
  <2> SUFFICES ASSUME OnItsWayOut, [Next]_vars PROVE OnItsWayOut'
    OBVIOUS
  <2>1. CASE Main \/ HandleSignal
    BY <2>1, MainOnItsWayOut
  <2>2. ASSUME NEW c \in Conns, Worker(c) PROVE OnItsWayOut'
    <3>1. UNCHANGED <<mpc, terminate, late>>
      BY <2>2 DEF Worker, OpenMemDev, ReadPacket, HandleRequest, WritePacket, CloseMemDev,
         CloseSocket, Steady
    <3> QED BY <3>1 DEF OnItsWayOut
  <2>3. ASSUME NEW c \in Conns, ClientConnects(c) \/ ClientLeaves(c) PROVE OnItsWayOut'
    BY <2>3 DEF ClientConnects, ClientLeaves, OnItsWayOut
  <2>4. ASSUME NEW c \in Conns, NEW what \in {"request", "disconnect", "malformed"},
               ClientSends(c, what)
        PROVE  OnItsWayOut'
    BY <2>4 DEF ClientSends, OnItsWayOut
  <2>5. CASE UNCHANGED vars
    BY <2>5 DEF vars, OnItsWayOut
  <2> QED BY <2>1, <2>2, <2>3, <2>4, <2>5 DEF Next
<1>3. OnItsWayOut => AtMostOneAfterSignal
  BY DEF OnItsWayOut, AtMostOneAfterSignal
<1> QED BY <1>1, <1>2, <1>3, PTL DEF Spec

===============================================================================
