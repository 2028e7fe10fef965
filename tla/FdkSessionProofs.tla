--------------------------- MODULE FdkSessionProofs ---------------------------
(* Request and reply alternate on every connection, and every call keeps the *)
(* promises of FdkRpc, whatever the number of connections and calls, the     *)
(* size of the memory and what clients, workers and the network do.          *)
EXTENDS FdkSession, TLAPS

IsSeq(s) == \E S : s \in Seq(S)

\* Appending to a sequence of anything makes it longer by one.
LEMMA AppendIsSeq ==
  ASSUME NEW s, NEW e, IsSeq(s)
  PROVE  IsSeq(Append(s, e)) /\ Len(s) \in Nat /\ Len(Append(s, e)) = Len(s) + 1
<1>1. PICK S : s \in Seq(S)
  BY DEF IsSeq
<1>2. s \in Seq(S \cup {e}) /\ e \in S \cup {e}
  BY <1>1
<1>3. Append(s, e) \in Seq(S \cup {e}) /\ Len(s) \in Nat /\ Len(Append(s, e)) = Len(s) + 1
  BY <1>2
<1> QED BY <1>3 DEF IsSeq

\* Taking the head away makes it shorter by one.
LEMMA TailIsSeq ==
  ASSUME NEW s, IsSeq(s), s # <<>>
  PROVE  IsSeq(Tail(s)) /\ Len(s) \in Nat /\ Len(Tail(s)) = Len(s) - 1 /\ Len(Tail(s)) \in Nat
<1>1. PICK S : s \in Seq(S)
  BY DEF IsSeq
<1>2. Tail(s) \in Seq(S) /\ Len(s) \in Nat /\ Len(Tail(s)) = Len(s) - 1 /\ Len(Tail(s)) \in Nat
  BY <1>1
<1> QED BY <1>2 DEF IsSeq

\* The empty sequence.
LEMMA EmptyIsSeq == IsSeq(<<>>) /\ Len(<<>>) = 0
<1>1. <<>> \in Seq({})
  OBVIOUS
<1> QED BY <1>1 DEF IsSeq

\* A length is a natural number.
LEMMA LenIsNat == ASSUME NEW s, IsSeq(s) PROVE Len(s) \in Nat
BY DEF IsSeq

\* What Lockstep and TypeOK leave open: messages are sequences, and no worker
\* has taken more requests than were made.
Messages ==
  /\ request \in [Conns -> Seq(Calls)]
  /\ \A k \in Conns : IsSeq(reply[k]) /\ IsSeq(moved[k])
  /\ DOMAIN reply = Conns /\ DOMAIN moved = Conns
  /\ made \in [Conns -> Nat] /\ served \in [Conns -> Nat]
  /\ \A k \in Conns : served[k] + Len(request[k]) <= made[k]

\* The inductive invariant.
IInv == TypeOK /\ Lockstep /\ Messages

\* Lockstep on one connection, case by case.
Unread(k, q, r) == Len(request[k]) = q /\ Len(reply[k]) = r
InStep(k) ==
  link[k] = "up" =>
    /\ worker[k] \in {"access", "reply"} => outcome[k] = "pending" /\ Unread(k, 0, 0)
    /\ worker[k] \notin {"access", "reply"} =>
         /\ outcome[k] = "pending" => Unread(k, 1, 0) \/ Unread(k, 0, 1)
         /\ outcome[k] # "pending" => Unread(k, 0, 0)
AllInStep == \A k \in Conns : InStep(k)

\* It is the same statement.
LEMMA InStepIsLockstep == Messages => (Lockstep <=> AllInStep)
<1> SUFFICES ASSUME Messages, NEW k \in Conns
             PROVE  InStep(k) <=> (link[k] = "up" =>
                      Len(request[k]) + Len(reply[k]) + (IF worker[k] \in {"access", "reply"} THEN 1 ELSE 0)
                        = IF outcome[k] = "pending" THEN 1 ELSE 0)
  BY DEF Lockstep, AllInStep
<1> DEFINE q == Len(request[k])
           r == Len(reply[k])
           busy == IF worker[k] \in {"access", "reply"} THEN 1 ELSE 0
           waiting == IF outcome[k] = "pending" THEN 1 ELSE 0
<1>1. q \in Nat /\ r \in Nat
  BY LenIsNat DEF Messages
<1>2. /\ worker[k] \in {"access", "reply"} => busy = 1
      /\ worker[k] \notin {"access", "reply"} => busy = 0
      /\ outcome[k] = "pending" => waiting = 1
      /\ outcome[k] # "pending" => waiting = 0
  OBVIOUS
<1>3. InStep(k) <=> (link[k] = "up" =>
        /\ worker[k] \in {"access", "reply"} => outcome[k] = "pending" /\ q = 0 /\ r = 0
        /\ worker[k] \notin {"access", "reply"} =>
             /\ outcome[k] = "pending" => (q = 1 /\ r = 0) \/ (q = 0 /\ r = 1)
             /\ outcome[k] # "pending" => q = 0 /\ r = 0)
  BY DEF InStep, Unread
<1> SUFFICES InStep(k) <=> (link[k] = "up" => q + r + busy = waiting)
  OBVIOUS
<1> HIDE DEF q, r, busy, waiting
<1> QED BY <1>1, <1>2, <1>3

\* So it is after a step.
LEMMA NextInStepIsLockstep == (Messages => (Lockstep <=> AllInStep))'
BY InStepIsLockstep, PTL

\* A step that leaves the other connections alone leaves them in step.
LEMMA OthersInStep ==
  ASSUME NEW k \in Conns, Lockstep, Messages, Messages', InStep(k)',
         \A j \in Conns \ {k} : /\ link'[j] = link[j] /\ request'[j] = request[j] /\ reply'[j] = reply[j]
                                /\ worker'[j] = worker[j] /\ outcome'[j] = outcome[j]
  PROVE  Lockstep'
<1>0. \A j \in Conns : InStep(j)
  BY InStepIsLockstep DEF AllInStep
<1>1. ASSUME NEW j \in Conns PROVE InStep(j)'
  <2>1. CASE j = k
    BY <2>1
  <2>2. CASE j # k
    BY <2>2, <1>0 DEF InStep, Unread
  <2> QED BY <2>1, <2>2
<1>2. AllInStep'
  BY <1>1 DEF AllInStep
<1> QED BY <1>2, NextInStepIsLockstep

-----------------------------------------------------------------------------

\* Nothing was called yet.
LEMMA InitIInv == Init => IInv
<1> SUFFICES ASSUME Init PROVE IInv
  OBVIOUS
<1>0. /\ IsSeq(<<>>) /\ Len(<<>>) = 0 /\ (CHOOSE c \in Calls : TRUE) \in Calls
      /\ \A k \in Conns : MaxCalls[k] \in Nat
      /\ \A c \in Calls : Len(c.bytes) \in Nat
  BY EmptyIsSeq, FdkSessionAssumption
<1>1. TypeOK
  BY <1>0, FdkSessionAssumption DEF Init, TypeOK
<1>2. Lockstep
  BY <1>0 DEF Init, Lockstep
<1>3. Messages
  BY <1>0 DEF Init, Messages
<1> QED BY <1>1, <1>2, <1>3 DEF IInv

\* A client's step.
LEMMA ClientIInv ==
  ASSUME IInv, NEW k \in Conns, Client(k) \/ \E c \in Calls : Call(k, c)
  PROVE  IInv'
<1> USE FdkSessionAssumption DEF IInv, workerVars
<1>0. InStep(k)
  BY InStepIsLockstep DEF AllInStep
<1>1. ASSUME NEW c \in Calls, Call(k, c) PROVE IInv'
  <2>1. /\ request[k] \in Seq(Calls) /\ Append(request[k], c) \in Seq(Calls)
        /\ Len(request[k]) \in Nat /\ Len(Append(request[k], c)) = Len(request[k]) + 1
    BY DEF Messages
  <2>2. request' \in [Conns -> Seq(Calls)]
    BY <1>1, <2>1 DEF Call, Messages
  <2>3. TypeOK'
    BY <1>1, <2>2 DEF Call, TypeOK
  <2>4. Messages'
    BY <1>1, <2>1, <2>2 DEF Call, Messages
  <2>5. Lockstep'
    <3>1. /\ outcome[k] # "pending" /\ outcome'[k] = "pending" /\ Len(request'[k]) = Len(request[k]) + 1
          /\ reply' = reply /\ worker' = worker /\ link' = link /\ Len(reply[k]) \in Nat
      BY <1>1, <2>1, LenIsNat DEF Call, TypeOK, Messages
    <3>2. InStep(k)'
      BY <2>1, <3>1, <1>0 DEF InStep, Unread
    <3> QED BY <1>1, <2>4, <3>2, OthersInStep DEF Call, TypeOK, Messages
  <2> QED BY <2>3, <2>4, <2>5
<1>2. CASE Receive(k)
  <2>1. /\ IsSeq(Tail(reply[k])) /\ Len(reply[k]) \in Nat /\ Len(Tail(reply[k])) = Len(reply[k]) - 1
    BY <1>2, TailIsSeq DEF Receive, Messages
  <2>2. TypeOK'
    BY <1>2 DEF Receive, TypeOK
  <2>3. Messages'
    BY <1>2, <2>1 DEF Receive, Messages
  <2>4. Lockstep'
    <3>1. /\ Len(reply'[k]) = Len(reply[k]) - 1 /\ request' = request /\ worker' = worker /\ link' = link
          /\ outcome[k] = "pending" /\ outcome'[k] # "pending" /\ Len(request[k]) \in Nat
      BY <1>2, <2>1 DEF Receive, TypeOK, Messages
    <3>2. InStep(k)'
      BY <2>1, <3>1, <1>0 DEF InStep, Unread
    <3> QED BY <1>2, <2>3, <3>2, OthersInStep DEF Receive, TypeOK, Messages
  <2> QED BY <2>2, <2>3, <2>4
<1>3. CASE ReceiveFails(k)
  <2>1. TypeOK' /\ Lockstep'
    BY <1>3 DEF ReceiveFails, TypeOK, Lockstep
  <2>2. Messages'
    BY <1>3 DEF ReceiveFails, Messages
  <2> QED BY <2>1, <2>2
<1> QED BY <1>1, <1>2, <1>3 DEF Client

\* A worker's step.
LEMMA WorkerIInv == ASSUME IInv, NEW k \in Conns, Worker(k) PROVE IInv'
<1> USE FdkSessionAssumption DEF IInv, clientVars
<1>0. /\ request[k] \in Seq(Calls) /\ Len(request[k]) \in Nat
      /\ IsSeq(reply[k]) /\ Len(reply[k]) \in Nat /\ IsSeq(moved[k]) /\ Len(moved[k]) \in Nat
  BY LenIsNat DEF Messages
<1>9. InStep(k)
  BY InStepIsLockstep DEF AllInStep
<1>1. CASE WorkerReads(k)
  <2>1. /\ Head(request[k]) \in Calls /\ Tail(request[k]) \in Seq(Calls)
        /\ Len(Tail(request[k])) = Len(request[k]) - 1
    BY <1>0, <1>1 DEF WorkerReads
  <2>2. request' \in [Conns -> Seq(Calls)] /\ IsSeq(<<>>) /\ Len(<<>>) = 0
    BY <1>1, <2>1, EmptyIsSeq DEF WorkerReads, Messages
  <2>3. Messages'
    BY <1>0, <1>1, <2>1, <2>2, SMTT(40) DEF WorkerReads, Messages
  <2>4. served[k] + 1 <= made[k] /\ made[k] <= MaxCalls[k]
    <3>1. Len(request[k]) >= 1
      BY <1>0, <1>1 DEF WorkerReads
    <3> QED BY <1>0, <3>1 DEF Messages, TypeOK
  <2>5. TypeOK'
    <3>1. /\ job' \in [Conns -> Calls] /\ worker' \in [Conns -> {"read", "access", "reply", "gone"}]
      BY <1>1, <2>1 DEF WorkerReads, TypeOK
    <3>2. ASSUME NEW j \in Conns
          PROVE  /\ Len(moved'[j]) <= Len(job'[j].bytes)
                 /\ made'[j] \in 0..MaxCalls[j] /\ served'[j] \in 0..MaxCalls[j]
                 /\ \A i \in 1..Len(request'[j]) : request'[j][i] \in Calls
      <4>1. CASE j = k
        BY <1>1, <2>1, <2>2, <2>4, <4>1 DEF WorkerReads, TypeOK, Messages
      <4>2. CASE j # k
        BY <1>1, <4>2 DEF WorkerReads, TypeOK, Messages
      <4> QED BY <4>1, <4>2
    <3> QED BY <1>1, <3>1, <3>2 DEF WorkerReads, TypeOK
  <2>6. Lockstep'
    <3>1. InStep(k)'
      BY <1>0, <1>9, <1>1, <2>1 DEF WorkerReads, InStep, Unread, TypeOK, Messages
    <3> QED BY <1>1, <2>3, <3>1, OthersInStep DEF WorkerReads, TypeOK, Messages
  <2> QED BY <2>3, <2>5, <2>6
<1>2. CASE WorkerEnds(k)
  <2>1. TypeOK' /\ Lockstep'
    BY <1>2 DEF WorkerEnds, TypeOK, Lockstep
  <2>2. Messages'
    BY <1>2 DEF WorkerEnds, Messages
  <2> QED BY <2>1, <2>2
<1>3. CASE MoveByte(k)
  <2>1. \A e : IsSeq(Append(moved[k], e)) /\ Len(Append(moved[k], e)) = Len(moved[k]) + 1
    BY <1>0, AppendIsSeq
  <2>2. DOMAIN mem' = DOMAIN mem
    BY <1>3 DEF MoveByte
  <2>3. TypeOK'
    BY <1>0, <1>3, <2>1, <2>2 DEF MoveByte, TypeOK, Messages
  <2>4. Lockstep'
    BY <1>3 DEF MoveByte, Lockstep
  <2>5. Messages'
    BY <1>3, <2>1 DEF MoveByte, Messages
  <2> QED BY <2>3, <2>4, <2>5
<1>4. CASE AccessEnds(k)
  <2>1. TypeOK' /\ Lockstep'
    BY <1>4 DEF AccessEnds, TypeOK, Lockstep
  <2>2. Messages'
    BY <1>4 DEF AccessEnds, Messages
  <2> QED BY <2>1, <2>2
<1>5. CASE WorkerReplies(k)
  <2>1. IsSeq(Append(reply[k], Answer(k))) /\ Len(Append(reply[k], Answer(k))) = Len(reply[k]) + 1
    BY <1>0, AppendIsSeq
  <2>2. TypeOK'
    BY <1>5 DEF WorkerReplies, ReplyFails, TypeOK
  <2>3. Messages'
    BY <1>5, <2>1 DEF WorkerReplies, ReplyFails, Messages
  <2>4. Lockstep'
    <3>1. request' = request /\ outcome' = outcome /\ worker[k] = "reply"
      BY <1>5 DEF WorkerReplies
    <3>2. ASSUME /\ link[k] # "reset" /\ link' = link /\ worker'[k] = "read"
                 /\ reply' = IF link[k] # "closed" THEN [reply EXCEPT ![k] = Append(@, Answer(k))] ELSE reply
          PROVE  InStep(k)'
      <4>1. link[k] = "up" => reply'[k] = Append(reply[k], Answer(k))
        BY <3>2 DEF Messages
      <4> QED BY <1>0, <1>9, <2>1, <3>1, <3>2, <4>1 DEF InStep, Unread
    <3>3. ASSUME link'[k] = "reset" PROVE InStep(k)'
      BY <3>3 DEF InStep
    <3>4. InStep(k)'
      BY <1>5, <3>2, <3>3 DEF WorkerReplies, ReplyFails, TypeOK
    <3> QED BY <1>5, <2>3, <3>4, OthersInStep DEF WorkerReplies, ReplyFails, TypeOK, Messages
  <2> QED BY <2>2, <2>3, <2>4
<1> QED BY <1>1, <1>2, <1>3, <1>4, <1>5 DEF Worker

\* A step of the environment.
LEMMA EnvironmentIInv ==
  ASSUME IInv, (\E k \in Conns : Abandon(k) \/ Reset(k) \/ Silence(k)) \/ ServerExits \/ Hardware
  PROVE  IInv'
<1> USE FdkSessionAssumption DEF IInv, clientVars, workerVars
<1>0. /\ IsSeq(<<>>) /\ Len(<<>>) = 0 /\ <<>> \in Seq(Calls)
      /\ \A k \in Conns : Len(request[k]) \in Nat
  BY EmptyIsSeq DEF Messages
<1>1. ASSUME NEW k \in Conns, Abandon(k) PROVE IInv'
  BY <1>1 DEF Abandon, TypeOK, Lockstep, Messages
<1>2. ASSUME NEW k \in Conns, Reset(k) PROVE IInv'
  <2>1. TypeOK'
    <3>1. request' \in [Conns -> Seq(Calls)]
      BY <1>0, <1>2 DEF Reset, Messages
    <3> QED BY <1>2, <3>1 DEF Reset, TypeOK
  <2>2. Messages'
    <3>1. /\ request' \in [Conns -> Seq(Calls)] /\ \A j \in Conns : Len(request'[j]) <= Len(request[j])
      BY <1>0, <1>2 DEF Reset, Messages
    <3>2. DOMAIN reply' = Conns /\ \A j \in Conns : reply'[j] \in {reply[j], <<>>}
      BY <1>2 DEF Reset, Messages
    <3>3. \A j \in Conns : IsSeq(reply'[j])
      BY <1>0, <3>2 DEF Messages
    <3>4. \A j \in Conns : served[j] + Len(request'[j]) <= made[j]
      BY <1>0, <3>1 DEF Messages
    <3> QED BY <1>2, <3>1, <3>2, <3>3, <3>4 DEF Reset, Messages
  <2>3. Lockstep'
    <3>1. InStep(k)'
      BY <1>2 DEF Reset, TypeOK, InStep
    <3> QED BY <1>2, <2>2, <3>1, OthersInStep DEF Reset, TypeOK, Messages
  <2> QED BY <2>1, <2>2, <2>3
<1>3. ASSUME NEW k \in Conns, Silence(k) PROVE IInv'
  BY <1>3 DEF Silence, TypeOK, Lockstep, Messages
<1>4. CASE ServerExits
  <2>1. TypeOK' /\ Lockstep'
    BY <1>0, <1>4 DEF ServerExits, TypeOK, Lockstep
  <2>2. Messages'
    BY <1>0, <1>4 DEF ServerExits, Messages
  <2> QED BY <2>1, <2>2
<1>5. CASE Hardware
  BY <1>5 DEF Hardware, TypeOK, Lockstep, Messages
<1> QED BY <1>1, <1>2, <1>3, <1>4, <1>5

\* The invariant is inductive.
THEOREM Inductive == Spec => []IInv
<1>1. Init => IInv
  BY InitIInv
<1>2. IInv /\ [Next]_vars => IInv'
  <2>1. ASSUME IInv, UNCHANGED vars PROVE IInv'
    BY <2>1 DEF IInv, vars, TypeOK, Lockstep, Messages
  <2> QED BY <2>1, ClientIInv, WorkerIInv, EnvironmentIInv DEF Next
<1> QED BY <1>1, <1>2, PTL DEF Spec

\* Types: no access moves more bytes than its request has, and no worker serves
\* more requests than were made.
THEOREM TypeCorrect == Spec => []TypeOK
<1>1. IInv => TypeOK
  BY DEF IInv
<1> QED BY <1>1, Inductive, PTL

\* On every connection that is up a pending call is in exactly one place, and
\* there is nothing for one that is not: an answer can only be the answer to the
\* call that waits (executeFunction, handleIncomingConnection).
THEOREM RequestsAlternate == Spec => []Lockstep
<1>1. IInv => Lockstep
  BY DEF IInv
<1> QED BY <1>1, Inductive, PTL

-----------------------------------------------------------------------------
(* Each call keeps the promises of FdkRpc.                                  *)

\* The worker is carrying out or answering a request.
Busy(k) == worker[k] \in {"access", "reply"}

\* The worker has taken the request of the current call.
Taken(k) == served[k] = made[k] /\ job[k] = call[k]

\* Whatever has become of the connection, a request on its way is the current
\* call's and was not taken, a job is the current call's, and an answer on its
\* way is the answer to it.  While the connection can be used for another call,
\* all of that is over once the call has returned.
Flight(k) ==
  /\ request[k] # <<>> =>
       /\ request[k] = <<call[k]>> /\ served[k] + 1 = made[k]
       /\ reply[k] = <<>> /\ ~Busy(k) /\ outcome[k] \in {"pending", "failed"}
  /\ Busy(k) => Taken(k) /\ reply[k] = <<>> /\ outcome[k] \in {"pending", "failed"}
  /\ reply[k] # <<>> => Taken(k) /\ reply[k] = <<Answer(k)>>
  /\ link[k] \in {"up", "silent"} /\ outcome[k] # "pending" =>
       served[k] = made[k] /\ request[k] = <<>> /\ reply[k] = <<>> /\ ~Busy(k)

AllFlight == \A k \in Conns : Flight(k)

\* One message in a queue.
LEMMA OneMessage ==
  ASSUME NEW m
  PROVE  Append(<<>>, m) = <<m>> /\ Head(<<m>>) = m /\ Tail(<<m>>) = <<>> /\ <<m>> # <<>>
OBVIOUS

\* A step that leaves a connection alone leaves its call where it was.
LEMMA OtherFlight ==
  ASSUME NEW j \in Conns, Flight(j),
         /\ link'[j] = link[j] /\ request'[j] = request[j] /\ reply'[j] = reply[j]
         /\ worker'[j] = worker[j] /\ job'[j] = job[j] /\ moved'[j] = moved[j]
         /\ served'[j] = served[j] /\ made'[j] = made[j]
         /\ call'[j] = call[j] /\ outcome'[j] = outcome[j]
  PROVE  Flight(j)'
BY DEF Flight, Busy, Taken, Answer

\* No step loses, repeats or swaps a call.
LEMMA FlightStep ==
  ASSUME IInv, IInv', AllFlight, [Next]_vars
  PROVE  AllFlight'
<1> USE DEF workerVars, clientVars
<1>0. /\ \A j \in Conns : Flight(j)
      /\ DOMAIN request = Conns /\ DOMAIN reply = Conns /\ DOMAIN moved = Conns
      /\ DOMAIN call = Conns /\ DOMAIN job = Conns /\ DOMAIN outcome = Conns
      /\ DOMAIN link = Conns /\ DOMAIN worker = Conns
      /\ DOMAIN made = Conns /\ DOMAIN served = Conns
      /\ \A j \in Conns : made[j] \in Nat /\ served[j] \in Nat
  BY DEF AllFlight, IInv, Messages, TypeOK
<1>1. ASSUME NEW k \in Conns, NEW c \in Calls, Call(k, c) PROVE AllFlight'
  <2>1. /\ served[k] = made[k] /\ request[k] = <<>> /\ reply[k] = <<>> /\ ~Busy(k)
    BY <1>0, <1>1 DEF Call, Flight
  <2>2. /\ request'[k] = <<c>> /\ reply'[k] = <<>> /\ call'[k] = c /\ outcome'[k] = "pending"
        /\ made'[k] = made[k] + 1 /\ served'[k] = served[k] /\ worker' = worker
    BY <1>0, <1>1, <2>1, OneMessage DEF Call
  <2>3. Flight(k)'
    BY <2>1, <2>2 DEF Flight, Busy
  <2>4. ASSUME NEW j \in Conns, j # k PROVE Flight(j)'
    BY <1>0, <1>1, <2>4, OtherFlight DEF Call
  <2> QED BY <2>3, <2>4 DEF AllFlight
<1>2. ASSUME NEW k \in Conns, Receive(k) PROVE AllFlight'
  <2>1. /\ Taken(k) /\ reply[k] = <<Answer(k)>> /\ request[k] = <<>> /\ ~Busy(k)
    BY <1>0, <1>2 DEF Receive, Flight
  <2>2. /\ reply'[k] = <<>> /\ request' = request /\ worker' = worker /\ served' = served /\ made' = made
    BY <1>0, <1>2, <2>1, OneMessage DEF Receive
  <2>3. Flight(k)'
    BY <2>1, <2>2 DEF Flight, Busy, Taken
  <2>4. ASSUME NEW j \in Conns, j # k PROVE Flight(j)'
    BY <1>0, <1>2, <2>4, OtherFlight DEF Receive
  <2> QED BY <2>3, <2>4 DEF AllFlight
<1>3. ASSUME NEW k \in Conns, ReceiveFails(k) PROVE AllFlight'
  <2>1. Flight(k)'
    BY <1>0, <1>3 DEF ReceiveFails, Flight, Busy, Taken, Answer
  <2>2. ASSUME NEW j \in Conns, j # k PROVE Flight(j)'
    BY <1>0, <1>3, <2>2, OtherFlight DEF ReceiveFails
  <2> QED BY <2>1, <2>2 DEF AllFlight
<1>4. ASSUME NEW k \in Conns, Abandon(k) PROVE AllFlight'
  <2>1. Flight(k)'
    BY <1>0, <1>4 DEF Abandon, Flight, Busy, Taken, Answer
  <2>2. ASSUME NEW j \in Conns, j # k PROVE Flight(j)'
    BY <1>0, <1>4, <2>2, OtherFlight DEF Abandon
  <2> QED BY <2>1, <2>2 DEF AllFlight
<1>5. ASSUME NEW k \in Conns, WorkerReads(k) PROVE AllFlight'
  <2>1. /\ request[k] = <<call[k]>> /\ served[k] + 1 = made[k] /\ reply[k] = <<>>
        /\ outcome[k] \in {"pending", "failed"}
        /\ link[k] \in {"up", "silent"} => outcome[k] = "pending"
    BY <1>0, <1>5 DEF WorkerReads, Flight
  <2>2. /\ request'[k] = <<>> /\ job'[k] = call[k] /\ served'[k] = made[k] /\ worker'[k] = "access"
        /\ reply' = reply /\ call' = call /\ made' = made /\ outcome' = outcome /\ link' = link
    BY <1>0, <1>5, <2>1, OneMessage DEF WorkerReads
  <2>3. Flight(k)'
    BY <2>1, <2>2 DEF Flight, Busy, Taken
  <2>4. ASSUME NEW j \in Conns, j # k PROVE Flight(j)'
    BY <1>0, <1>5, <2>4, OtherFlight DEF WorkerReads
  <2> QED BY <2>3, <2>4 DEF AllFlight
<1>6. ASSUME NEW k \in Conns, WorkerEnds(k) PROVE AllFlight'
  <2>1. Flight(k)'
    BY <1>0, <1>6 DEF WorkerEnds, Flight, Busy, Taken, Answer
  <2>2. ASSUME NEW j \in Conns, j # k PROVE Flight(j)'
    BY <1>0, <1>6, <2>2, OtherFlight DEF WorkerEnds
  <2> QED BY <2>1, <2>2 DEF AllFlight
<1>7. ASSUME NEW k \in Conns, MoveByte(k) PROVE AllFlight'
  <2>1. Flight(k)'
    BY <1>0, <1>7 DEF MoveByte, Flight, Busy, Taken
  <2>2. ASSUME NEW j \in Conns, j # k PROVE Flight(j)'
    BY <1>0, <1>7, <2>2, OtherFlight DEF MoveByte
  <2> QED BY <2>1, <2>2 DEF AllFlight
<1>8. ASSUME NEW k \in Conns, AccessEnds(k) PROVE AllFlight'
  <2>1. Flight(k)'
    BY <1>0, <1>8 DEF AccessEnds, Flight, Busy, Taken
  <2>2. ASSUME NEW j \in Conns, j # k PROVE Flight(j)'
    BY <1>0, <1>8, <2>2, OtherFlight DEF AccessEnds
  <2> QED BY <2>1, <2>2 DEF AllFlight
<1>9. ASSUME NEW k \in Conns, WorkerReplies(k) PROVE AllFlight'
  <2>1. /\ Taken(k) /\ reply[k] = <<>> /\ request[k] = <<>> /\ outcome[k] \in {"pending", "failed"}
        /\ link[k] \in {"up", "silent"} => outcome[k] = "pending"
    BY <1>0, <1>9 DEF WorkerReplies, Flight, Busy
  <2>2. /\ reply'[k] \in {<<>>, <<Answer(k)>>} /\ worker'[k] \in {"read", "gone"}
        /\ link'[k] \in {link[k], "reset"}
        /\ request' = request /\ call' = call /\ job' = job /\ made' = made /\ served' = served
        /\ outcome' = outcome /\ moved' = moved
    BY <1>0, <1>9, <2>1, OneMessage DEF WorkerReplies, ReplyFails
  <2>3. Answer(k)' = Answer(k)
    BY <2>2 DEF Answer
  <2>4. Flight(k)'
    BY <2>1, <2>2, <2>3 DEF Flight, Busy, Taken
  <2>5. ASSUME NEW j \in Conns, j # k PROVE Flight(j)'
    BY <1>0, <1>9, <2>5, OtherFlight DEF WorkerReplies, ReplyFails
  <2> QED BY <2>4, <2>5 DEF AllFlight
<1>10. ASSUME NEW k \in Conns, Reset(k) PROVE AllFlight'
  <2>1. /\ request'[k] = <<>> /\ reply'[k] \in {reply[k], <<>>} /\ link'[k] = "reset"
        /\ \A j \in Conns \ {k} : link'[j] = link[j] /\ request'[j] = request[j] /\ reply'[j] = reply[j]
    BY <1>0, <1>10 DEF Reset
  <2>2. Flight(k)'
    BY <1>0, <1>10, <2>1 DEF Reset, Flight, Busy, Taken, Answer
  <2>3. ASSUME NEW j \in Conns, j # k PROVE Flight(j)'
    BY <1>0, <1>10, <2>1, <2>3, OtherFlight DEF Reset
  <2> QED BY <2>2, <2>3 DEF AllFlight
<1>11. ASSUME NEW k \in Conns, Silence(k) PROVE AllFlight'
  <2>1. Flight(k)'
    BY <1>0, <1>11 DEF Silence, Flight, Busy, Taken, Answer
  <2>2. ASSUME NEW j \in Conns, j # k PROVE Flight(j)'
    BY <1>0, <1>11, <2>2, OtherFlight DEF Silence
  <2> QED BY <2>1, <2>2 DEF AllFlight
<1>12. CASE ServerExits
  <2>1. ASSUME NEW j \in Conns PROVE Flight(j)'
    <3>1. /\ request'[j] = <<>> /\ worker'[j] = "gone" /\ link'[j] \in {"reset", link[j]}
          /\ reply' = reply /\ call' = call /\ job' = job /\ made' = made /\ served' = served
          /\ outcome' = outcome /\ moved' = moved
      BY <1>12 DEF ServerExits
    <3> QED BY <1>0, <3>1 DEF Flight, Busy, Taken, Answer
  <2> QED BY <2>1 DEF AllFlight
<1>13. CASE Hardware \/ UNCHANGED vars
  BY <1>0, <1>13, OtherFlight DEF Hardware, vars, AllFlight
<1> QED BY <1>1, <1>2, <1>3, <1>4, <1>5, <1>6, <1>7, <1>8, <1>9, <1>10, <1>11, <1>12, <1>13
        DEF Next, Client, Worker

\* The bytes of the current call that were moved.
Moved == [k \in Conns |-> IF served[k] = made[k] THEN moved[k] ELSE <<>>]

\* A step that changes neither what a call has moved, nor the call, nor what
\* the client knows of it, is none of FdkRpc's.
LEMMA HiddenStep ==
  ASSUME UNCHANGED <<mem, call, outcome, data, moved, served, made>>
  PROVE  UNCHANGED Rpc!vars
BY DEF Rpc!vars

\* Every step is a step of FdkRpc or none.
LEMMA StepImplementsRpc ==
  ASSUME IInv, IInv', AllFlight, [Next]_vars
  PROVE  [Rpc!Next]_(Rpc!vars)
<1> USE DEF workerVars, clientVars
<1>0. /\ \A j \in Conns : Flight(j)
      /\ DOMAIN moved = Conns
      /\ outcome \in [Conns -> {"idle", "pending", "ok", "refused", "failed"}]
      /\ DOMAIN made = Conns /\ DOMAIN served = Conns
      /\ \A j \in Conns : made[j] \in Nat /\ served[j] \in Nat
  BY DEF AllFlight, IInv, Messages, TypeOK
<1>a. Moved = [k \in Conns |-> IF served[k] = made[k] THEN moved[k] ELSE <<>>]
  BY DEF Moved
<1>b. Moved' = [k \in Conns |-> IF served'[k] = made'[k] THEN moved'[k] ELSE <<>>]
  BY DEF Moved
<1>1. ASSUME NEW k \in Conns, NEW c \in Calls, Call(k, c) PROVE Rpc!Next
  <2>1. served[k] = made[k] /\ made' = [made EXCEPT ![k] = @ + 1] /\ served' = served /\ moved' = moved
    BY <1>0, <1>1 DEF Call, Flight
  <2>2. Moved' = [Moved EXCEPT ![k] = <<>>]
    <3>1. served'[k] # made'[k] /\ \A j \in Conns : j # k => made'[j] = made[j]
      BY <1>0, <2>1
    <3> QED BY <1>a, <1>b, <2>1, <3>1
  <2>3. Rpc!Begin(k, c)
    BY <1>1, <2>2 DEF Call, Rpc!Begin, Moved
  <2> QED BY <2>3 DEF Rpc!Next
<1>2. ASSUME NEW k \in Conns, Receive(k) PROVE Rpc!Next
  <2>1. /\ Taken(k) /\ reply[k] = <<Answer(k)>> /\ outcome[k] = "pending"
    BY <1>0, <1>2 DEF Receive, Flight
  <2>2. Head(reply[k]) = Answer(k)
    BY <2>1, OneMessage
  <2>3. /\ Answer(k).write = call[k].write
        /\ Answer(k).ok <=> Len(moved[k]) = Len(call[k].bytes)
        /\ ~call[k].write => Answer(k).bytes = moved[k]
    BY <2>1 DEF Answer, Taken
  <2>4. Moved[k] = moved[k]
    BY <2>1, <1>a DEF Taken
  <2>5. UNCHANGED <<mem, call, served, made, moved>> /\ UNCHANGED Moved
    BY <1>2 DEF Receive, Moved
  <2>6. CASE Answer(k).ok
    <3>1. /\ outcome' = [outcome EXCEPT ![k] = "ok"]
          /\ data' = IF call[k].write THEN data ELSE [data EXCEPT ![k] = moved[k]]
      BY <1>2, <2>2, <2>3, <2>6 DEF Receive
    <3>2. Rpc!Return(k)
      BY <2>1, <2>3, <2>4, <2>5, <2>6, <3>1 DEF Rpc!Return, Moved
    <3> QED BY <3>2 DEF Rpc!Next
  <2>7. CASE ~Answer(k).ok
    <3>1. outcome' = [outcome EXCEPT ![k] = "refused"] /\ data' = data
      BY <1>2, <2>2, <2>3, <2>7 DEF Receive
    <3>2. Len(moved[k]) < Len(call[k].bytes)
      <4>1. Len(moved[k]) <= Len(call[k].bytes) /\ Len(moved[k]) # Len(call[k].bytes)
        BY <2>1, <2>3, <2>7 DEF IInv, TypeOK, Taken
      <4>2. Len(moved[k]) \in Nat /\ Len(call[k].bytes) \in Nat
        BY LenIsNat, FdkSessionAssumption DEF IInv, TypeOK, Messages
      <4> QED BY <4>1, <4>2
    <3>3. Rpc!Refuse(k)
      BY <2>1, <2>4, <2>5, <3>1, <3>2 DEF Rpc!Refuse, Moved
    <3> QED BY <3>3 DEF Rpc!Next
  <2> QED BY <2>6, <2>7
<1>3. ASSUME NEW k \in Conns, ReceiveFails(k) PROVE Rpc!Next
  <2>1. Rpc!Fail(k)
    BY <1>3 DEF ReceiveFails, Rpc!Fail
  <2> QED BY <2>1 DEF Rpc!Next
<1>4. ASSUME NEW k \in Conns, Abandon(k) PROVE [Rpc!Next]_(Rpc!vars)
  <2>1. CASE outcome[k] = "pending"
    <3>1. Rpc!Fail(k)
      BY <1>4, <2>1 DEF Abandon, Rpc!Fail
    <3> QED BY <3>1 DEF Rpc!Next
  <2>2. CASE outcome[k] # "pending"
    <3>1. outcome' = outcome
      BY <1>0, <1>4, <2>2 DEF Abandon
    <3> QED BY <1>4, <3>1, HiddenStep DEF Abandon
  <2> QED BY <2>1, <2>2
<1>5. ASSUME NEW k \in Conns, WorkerReads(k) PROVE UNCHANGED Rpc!vars
  <2>1. request[k] = <<call[k]>> /\ served[k] + 1 = made[k]
    BY <1>0, <1>5 DEF WorkerReads, Flight
  <2>2. /\ served[k] # made[k] /\ moved'[k] = <<>> /\ made' = made
        /\ \A j \in Conns : j # k => served'[j] = served[j] /\ moved'[j] = moved[j]
    BY <1>0, <1>5, <2>1 DEF WorkerReads
  <2>3. Moved' = Moved
    BY <1>a, <1>b, <2>2
  <2> QED BY <1>5, <2>3 DEF WorkerReads, Rpc!vars, Moved
<1>6. ASSUME NEW k \in Conns, MoveByte(k) PROVE Rpc!Next
  <2>1. Taken(k) /\ outcome[k] \in {"pending", "failed"}
    BY <1>0, <1>6 DEF MoveByte, Flight, Busy
  <2>2. Moved[k] = moved[k] /\ job[k] = call[k]
    BY <2>1, <1>a DEF Taken
  <2>3. Moved' = [Moved EXCEPT ![k] = moved'[k]]
    <3>1. /\ served' = served /\ made' = made /\ served[k] = made[k]
          /\ \A j \in Conns : j # k => moved'[j] = moved[j]
      BY <1>0, <1>6, <2>1 DEF MoveByte, Taken
    <3> QED BY <1>a, <1>b, <3>1
  <2>4. moved'[k] = Append(moved[k], mem'[call[k].addr + (Len(moved[k]) + 1)])
    BY <1>0, <1>6, <2>2 DEF MoveByte
  <2>5. Rpc!Move(k)
    <3>1. /\ Len(Moved[k]) + 1 <= Len(call[k].bytes)
          /\ mem' = IF call[k].write
                     THEN [mem EXCEPT ![call[k].addr + (Len(Moved[k]) + 1)] = call[k].bytes[Len(Moved[k]) + 1]]
                     ELSE mem
          /\ UNCHANGED <<call, outcome, data>>
      BY <1>6, <2>2 DEF MoveByte
    <3>2. Moved' = [Moved EXCEPT ![k] = Append(Moved[k], mem'[call[k].addr + (Len(Moved[k]) + 1)])]
      BY <2>2, <2>3, <2>4
    <3> QED BY <2>1, <3>1, <3>2 DEF Rpc!Move, Moved
  <2> QED BY <2>5 DEF Rpc!Next
<1>7. ASSUME NEW k \in Conns, WorkerEnds(k) \/ AccessEnds(k) \/ WorkerReplies(k) \/ Reset(k) \/ Silence(k)
      PROVE  UNCHANGED Rpc!vars
  BY <1>7, HiddenStep DEF WorkerEnds, AccessEnds, WorkerReplies, Reset, Silence
<1>8. CASE ServerExits \/ UNCHANGED vars
  BY <1>8, HiddenStep DEF ServerExits, vars
<1>9. CASE Hardware
  <2>1. Rpc!Hardware
    BY <1>9 DEF Hardware, Rpc!Hardware
  <2> QED BY <2>1 DEF Rpc!Next
<1> QED BY <1>1, <1>2, <1>3, <1>4, <1>5, <1>6, <1>7, <1>8, <1>9 DEF Next, Client, Worker

\* Nothing is under way at the beginning.
LEMMA InitFlight == Init => AllFlight /\ Rpc!Init
<1> SUFFICES ASSUME Init PROVE AllFlight /\ Rpc!Init
  OBVIOUS
<1>1. AllFlight
  BY DEF Init, AllFlight, Flight, Busy
<1>2. (CHOOSE c \in Calls : TRUE) \in Calls
  BY FdkSessionAssumption
<1>3. Rpc!Init
  BY <1>2 DEF Init, Rpc!Init
<1> QED BY <1>1, <1>3

\* Wherever its call is, a connection holds exactly one trace of it.
THEOREM OneTrace == Spec => []AllFlight
<1>1. IInv /\ IInv' /\ AllFlight /\ [Next]_vars => AllFlight'
  BY FlightStep
<1> QED BY Inductive, InitFlight, <1>1, PTL DEF Spec

\* Every memory request keeps the promises of FdkRpc: its bytes are moved at
\* most once and in order, a success has moved all of them, the answer is the
\* answer to this call, and nothing of a call happens after it returned.
THEOREM Implements == Spec => ImplementsRpc
<1>1. IInv /\ IInv' /\ AllFlight /\ [Next]_vars => [Rpc!Next]_(Rpc!vars)
  BY StepImplementsRpc
<1> QED BY Inductive, OneTrace, InitFlight, <1>1, PTL DEF Spec, ImplementsRpc, Rpc!Spec

===============================================================================
