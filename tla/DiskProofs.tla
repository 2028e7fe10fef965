------------------------------ MODULE DiskProofs ------------------------------
(* What a reported write is worth, for any number of workers, any device and *)
(* any requests, and whatever the cache, the medium and the power do.        *)
EXTENDS Disk, TLAPS

Cell(w, i) == req[w].addr + i - 1

\* A worker's transfer: it stays on the device, what it has moved can be seen,
\* is not older than what was acknowledged when it began, and, if it was
\* written, is on the medium or will be known not to be.
Transfer(w) ==
  /\ pc[w] = "open" => moved[w] = <<>>
  /\ pc[w] \in {"fsync", "ok"} => Len(moved[w]) = req[w].len
  /\ \A i \in 1..Len(moved[w]) :
       /\ Cell(w, i) \in Cells
       /\ pc[w] \in {"xfer", "fsync", "ok"} =>
            floor[w][Cell(w, i)] <= moved[w][i] /\ moved[w][i] <= cache[Cell(w, i)]
       /\ req[w].write /\ pc[w] = "xfer" /\ ~failed[w] =>
            moved[w][i] <= disk[Cell(w, i)] \/ Cell(w, i) \in dirty
       /\ req[w].write /\ pc[w] = "fsync" /\ ~failed[w] =>
            moved[w][i] <= disk[Cell(w, i)] \/ Cell(w, i) \in todo[w]
       /\ req[w].write /\ pc[w] = "ok" => moved[w][i] <= disk[Cell(w, i)]

\* The medium is between what was acknowledged and what can be seen.
Between ==
  \A c \in Cells : /\ durable[c] <= disk[c] /\ disk[c] <= cache[c]
                   /\ \A w \in Workers : floor[w][c] <= disk[c]

\* The inductive invariant.
IInv == TypeOK /\ Between /\ \A w \in Workers : Transfer(w)

-----------------------------------------------------------------------------

LEMMA InitIInv == Init => IInv
<1> SUFFICES ASSUME Init PROVE IInv
  OBVIOUS
<1>1. (CHOOSE r \in Requests : TRUE) \in Requests /\ <<>> \in Seq(Nat) /\ Len(<<>>) = 0
  BY DiskAssumption
<1>2. \A r \in Requests : r.len \in Nat /\ r.addr \in Nat /\ r.write \in BOOLEAN
  BY DiskAssumption
<1>3. TypeOK
  <2>1. \A w \in Workers : moved[w] = <<>> /\ req[w] \in Requests
    BY <1>1 DEF Init
  <2>2. moved \in [Workers -> Seq(Nat)] /\ req \in [Workers -> Requests]
    BY <1>1 DEF Init
  <2>3. ASSUME NEW w \in Workers PROVE Len(moved[w]) <= req[w].len
    <3>1. Len(moved[w]) = 0
      BY <1>1, <2>1
    <3>2. req[w].len \in Nat
      BY <1>2, <2>1
    <3>3. \A n \in Nat : 0 <= n
      OBVIOUS
    <3> QED BY <3>1, <3>2, <3>3
  <2>4. Zero \in [Cells -> Nat]
    BY DEF Zero
  <2>5. calls \in 0..MaxCalls /\ crashes \in 0..MaxCrashes
    BY DiskAssumption DEF Init
  <2>6. /\ pc \in [Workers -> {"idle", "open", "xfer", "fsync", "ok", "refused"}]
        /\ todo \in [Workers -> SUBSET Cells] /\ failed \in [Workers -> BOOLEAN]
        /\ floor \in [Workers -> [Cells -> Nat]] /\ dirty \subseteq Cells
    BY <2>4 DEF Init
  <2>7. cache \in [Cells -> Nat] /\ disk \in [Cells -> Nat] /\ durable \in [Cells -> Nat]
    BY <2>4 DEF Init
  <2> QED BY <2>2, <2>3, <2>5, <2>6, <2>7 DEF TypeOK
<1>4. Between
  BY DEF Init, Between, Zero
<1>5. \A w \in Workers : Transfer(w)
  <2>1. \A w \in Workers : moved[w] = <<>> /\ pc[w] = "idle"
    BY DEF Init
  <2>2. \A i \in 1..0 : FALSE
    OBVIOUS
  <2> QED BY <1>1, <2>1, <2>2 DEF Transfer
<1> QED BY <1>3, <1>4, <1>5 DEF IInv

\* One more cell at the end of what a worker has moved.
LEMMA MovedIsSeq ==
  ASSUME TypeOK, NEW w \in Workers, NEW n \in Nat
  PROVE  /\ Append(moved[w], n) \in Seq(Nat) /\ Len(moved[w]) \in Nat
         /\ Len(Append(moved[w], n)) = Len(moved[w]) + 1
         /\ \A i \in 1..Len(moved[w]) : Append(moved[w], n)[i] = moved[w][i] /\ moved[w][i] \in Nat
         /\ Append(moved[w], n)[Len(moved[w]) + 1] = n
<1>1. moved[w] \in Seq(Nat)
  BY DEF TypeOK
<1> QED BY <1>1

\* Fields of a request.
LEMMA RequestFields ==
  \A r \in Requests : r.len \in Nat /\ r.addr \in Nat /\ r.write \in BOOLEAN
BY DiskAssumption

LEMMA BeginIInv == ASSUME IInv, NEW v \in Workers, NEW r \in Requests, Begin(v, r) PROVE IInv'
<1> USE RequestFields DEF IInv
<1>1. <<>> \in Seq(Nat) /\ Len(<<>>) = 0
  OBVIOUS
<1>2. TypeOK'
  BY <1>1, DiskAssumption DEF Begin, TypeOK
<1>3. Between'
  BY DEF Begin, TypeOK, Between
<1>4. ASSUME NEW w \in Workers PROVE Transfer(w)'
  <2>1. CASE w = v
    <3>1. moved'[w] = <<>> /\ pc'[w] \in {"open", "refused"}
      BY <2>1 DEF Begin, TypeOK
    <3> QED BY <1>1, <3>1 DEF Transfer
  <2>2. CASE w # v
    BY <2>2 DEF Begin, TypeOK, Transfer, Cell
  <2> QED BY <2>1, <2>2
<1> QED BY <1>2, <1>3, <1>4

LEMMA OpenIInv == ASSUME IInv, NEW v \in Workers, Open(v) PROVE IInv'
<1> USE DEF IInv
<1>1. TypeOK'
  BY DEF Open, TypeOK
<1>2. Between'
  BY DEF Open, Between
<1>3. ASSUME NEW w \in Workers PROVE Transfer(w)'
  <2>1. CASE w = v
    <3>1. moved'[w] = <<>> /\ pc'[w] \in {"xfer", "refused"}
      BY <2>1 DEF Open, TypeOK, Transfer
    <3> QED BY <3>1 DEF Transfer
  <2>2. CASE w # v
    BY <2>2 DEF Open, TypeOK, Transfer, Cell
  <2> QED BY <2>1, <2>2
<1> QED BY <1>1, <1>2, <1>3

LEMMA MoveCellIInv == ASSUME IInv, NEW v \in Workers, MoveCell(v) PROVE IInv'
<1> USE RequestFields DEF IInv
<1> DEFINE a == req[v].addr + Len(moved[v])
<1>1. /\ a \in Cells /\ cache[a] \in Nat /\ cache[a] + 1 \in Nat
      /\ Len(moved[v]) \in Nat /\ Len(moved[v]) < req[v].len /\ pc[v] = "xfer" /\ pc' = pc
      /\ req[v] \in Requests /\ req' = req
  BY SMTT(40) DEF MoveCell, More, TypeOK
<1>2. /\ cache' \in [Cells -> Nat] /\ dirty' \subseteq Cells /\ dirty \subseteq dirty'
      /\ \A c \in Cells : cache[c] <= cache'[c]
      /\ cache[a] <= cache'[a] /\ cache'[a] \in Nat
      /\ req[v].write => a \in dirty'
  BY <1>1, SMTT(40) DEF MoveCell, TypeOK
<1>3. moved' = [moved EXCEPT ![v] = Append(@, cache'[a])]
  BY DEF MoveCell
<1>4. /\ Append(moved[v], cache'[a]) \in Seq(Nat)
      /\ Len(Append(moved[v], cache'[a])) = Len(moved[v]) + 1
      /\ \A i \in 1..Len(moved[v]) : Append(moved[v], cache'[a])[i] = moved[v][i] /\ moved[v][i] \in Nat
      /\ Append(moved[v], cache'[a])[Len(moved[v]) + 1] = cache'[a]
  BY <1>2, MovedIsSeq
<1> HIDE DEF a
<1>5. TypeOK'
  <2>1. moved' \in [Workers -> Seq(Nat)]
    BY <1>3, <1>4 DEF TypeOK
  <2>2. ASSUME NEW w \in Workers PROVE Len(moved'[w]) <= req'[w].len
    <3>1. CASE w = v
      <4>1. Len(moved'[w]) = Len(moved[v]) + 1 /\ req'[w] = req[v] /\ req[v].len \in Nat
        BY <1>1, <1>3, <1>4, <3>1 DEF TypeOK
      <4> QED BY <1>1, <4>1
    <3>2. CASE w # v
      BY <1>1, <1>3, <3>2 DEF TypeOK
    <3> QED BY <3>1, <3>2
  <2> QED BY <1>1, <1>2, <2>1, <2>2 DEF MoveCell, TypeOK
<1>6. Between'
  BY <1>2 DEF MoveCell, TypeOK, Between
<1>7. ASSUME NEW w \in Workers PROVE Transfer(w)'
  <2>1. CASE w = v
    <3>1. moved'[w] = Append(moved[v], cache'[a]) /\ floor' = floor /\ disk' = disk /\ failed' = failed
      BY <1>3, <2>1 DEF MoveCell, TypeOK
    <3>2. ASSUME NEW i \in 1..Len(moved[v])
          PROVE  /\ Cell(w, i) \in Cells
                 /\ floor[w][Cell(w, i)] <= moved'[w][i] /\ moved'[w][i] <= cache'[Cell(w, i)]
                 /\ req[w].write /\ ~failed[w] =>
                      moved'[w][i] <= disk[Cell(w, i)] \/ Cell(w, i) \in dirty'
      <4>1. /\ moved'[w][i] = moved[w][i] /\ moved[w][i] \in Nat /\ Cell(w, i) \in Cells
            /\ floor[w][Cell(w, i)] <= moved[w][i] /\ moved[w][i] <= cache[Cell(w, i)]
            /\ req[w].write /\ ~failed[w] =>
                 moved[w][i] <= disk[Cell(w, i)] \/ Cell(w, i) \in dirty
        BY <1>1, <1>4, <2>1, <3>1 DEF Transfer
      <4>2. /\ cache[Cell(w, i)] \in Nat /\ cache'[Cell(w, i)] \in Nat
            /\ cache[Cell(w, i)] <= cache'[Cell(w, i)]
        BY <1>2, <4>1 DEF TypeOK
      <4> QED BY <1>2, <4>1, <4>2
    <3>3. ASSUME NEW i, i = Len(moved[v]) + 1
          PROVE  /\ Cell(w, i) \in Cells
                 /\ floor[w][Cell(w, i)] <= moved'[w][i] /\ moved'[w][i] <= cache'[Cell(w, i)]
                 /\ req[w].write => Cell(w, i) \in dirty'
      <4>1. Cell(w, i) = a
        BY <1>1, <2>1, <3>3 DEF Cell, a
      <4>2. floor[w][a] <= disk[a] /\ disk[a] <= cache[a] /\ floor[w][a] \in Nat /\ disk[a] \in Nat
        BY <1>1 DEF Between, TypeOK
      <4> QED BY <1>1, <1>2, <1>4, <2>1, <3>1, <3>3, <4>1, <4>2, SMTT(40)
    <3>4. \A i \in 1..Len(moved'[w]) : i \in 1..Len(moved[v]) \/ i = Len(moved[v]) + 1
      BY <1>1, <1>4, <3>1
    <3> QED BY <1>1, <2>1, <3>1, <3>2, <3>3, <3>4 DEF Transfer, Cell
  <2>2. CASE w # v
    <3>1. moved'[w] = moved[w] /\ floor' = floor /\ disk' = disk /\ failed' = failed /\ todo' = todo
      BY <1>3, <2>2 DEF MoveCell, TypeOK
    <3>2. \A i \in 1..Len(moved[w]) : moved[w][i] \in Nat
      BY DEF TypeOK
    <3>3. ASSUME NEW i \in 1..Len(moved[w]), pc[w] \in {"xfer", "fsync", "ok"}
          PROVE  moved[w][i] <= cache'[Cell(w, i)]
      <4>1. Cell(w, i) \in Cells /\ moved[w][i] <= cache[Cell(w, i)]
        BY <3>3 DEF Transfer
      <4>2. /\ cache[Cell(w, i)] \in Nat /\ cache'[Cell(w, i)] \in Nat
            /\ cache[Cell(w, i)] <= cache'[Cell(w, i)]
        BY <1>2, <4>1 DEF TypeOK
      <4> QED BY <3>2, <4>1, <4>2
    <3> QED BY <1>1, <1>2, <3>1, <3>3 DEF Transfer, Cell
  <2> QED BY <2>1, <2>2
<1> QED BY <1>5, <1>6, <1>7

LEMMA XferEndsIInv == ASSUME IInv, NEW v \in Workers, XferEnds(v) PROVE IInv'
<1> USE RequestFields DEF IInv
<1>1. /\ pc[v] = "xfer" /\ pc'[v] \in {"ok", "fsync", "refused"}
      /\ pc'[v] \in {"ok", "fsync"} => Len(moved[v]) = req[v].len
      /\ pc'[v] = "ok" => ~req[v].write
      /\ pc'[v] = "fsync" => todo'[v] = dirty
  BY DEF XferEnds, AfterXfer, TypeOK
<1>2. pc' \in [Workers -> {"idle", "open", "xfer", "fsync", "ok", "refused"}]
  BY DEF XferEnds, AfterXfer, TypeOK
<1>3. TypeOK'
  BY <1>2 DEF XferEnds, TypeOK
<1>4. Between'
  BY DEF XferEnds, Between
<1>5. ASSUME NEW w \in Workers PROVE Transfer(w)'
  <2>1. CASE w = v
    BY <1>1, <2>1 DEF XferEnds, Transfer, Cell
  <2>2. CASE w # v
    BY <2>2 DEF XferEnds, TypeOK, Transfer, Cell
  <2> QED BY <2>1, <2>2
<1> QED BY <1>3, <1>4, <1>5

LEMMA FsyncReturnsIInv == ASSUME IInv, NEW v \in Workers, FsyncReturns(v) PROVE IInv'
<1> USE RequestFields DEF IInv
<1>1. /\ pc[v] = "fsync" /\ pc'[v] \in {"ok", "refused"}
      /\ pc'[v] = "ok" => todo[v] = {} /\ ~failed[v]
  BY DEF FsyncReturns, Synced, TypeOK
<1>2. pc' \in [Workers -> {"idle", "open", "xfer", "fsync", "ok", "refused"}]
  BY DEF FsyncReturns, Synced, TypeOK
<1>3. TypeOK'
  BY <1>2 DEF FsyncReturns, TypeOK
<1>4. Between'
  BY DEF FsyncReturns, Between
<1>5. ASSUME NEW w \in Workers PROVE Transfer(w)'
  <2>1. CASE w = v
    BY <1>1, <2>1 DEF FsyncReturns, Transfer, Cell
  <2>2. CASE w # v
    BY <2>2 DEF FsyncReturns, TypeOK, Transfer, Cell
  <2> QED BY <2>1, <2>2
<1> QED BY <1>3, <1>4, <1>5

\* What a reply adds to what was acknowledged is on the medium.
LEMMA ReplyAcknowledges ==
  ASSUME IInv, NEW v \in Workers, Reply(v), NEW c \in Cells
  PROVE  durable'[c] \in Nat /\ durable'[c] <= disk[c] /\ durable[c] <= durable'[c]
<1> USE RequestFields DEF IInv
<1> DEFINE i == c - req[v].addr + 1
<1>1. durable'[c] = IF pc[v] = "ok" /\ req[v].write /\ i \in DOMAIN moved[v]
                    THEN Newer(durable[c], moved[v][i]) ELSE durable[c]
  BY DEF Reply
<1>2. durable[c] \in Nat /\ disk[c] \in Nat /\ durable[c] <= disk[c]
  BY DEF TypeOK, Between
<1>3. ASSUME pc[v] = "ok", req[v].write, i \in DOMAIN moved[v]
      PROVE  moved[v][i] \in Nat /\ moved[v][i] <= disk[c]
  <2>1. moved[v] \in Seq(Nat) /\ req[v] \in Requests /\ c \in Int
    BY DEF TypeOK, Cells
  <2>2. i \in 1..Len(moved[v]) /\ moved[v][i] \in Nat
    BY <1>3, <2>1, SMTT(40)
  <2>3. Cell(v, i) = c
    BY <2>1 DEF Cell
  <2> QED BY <1>3, <2>2, <2>3 DEF Transfer
<1> HIDE DEF i
<1> QED BY <1>1, <1>2, <1>3 DEF Newer

LEMMA ReplyIInv == ASSUME IInv, NEW v \in Workers, Reply(v) PROVE IInv'
<1> USE DEF IInv
<1>1. \A c \in Cells : durable'[c] \in Nat /\ durable'[c] <= disk[c] /\ durable[c] <= durable'[c]
  BY ReplyAcknowledges
<1>2. DOMAIN durable' = Cells /\ durable' \in [Cells -> Nat]
  BY <1>1 DEF Reply
<1>3. TypeOK'
  BY <1>2 DEF Reply, TypeOK
<1>4. Between'
  BY <1>1 DEF Reply, Between
<1>5. ASSUME NEW w \in Workers PROVE Transfer(w)'
  <2>1. CASE w = v
    <3>1. pc'[w] = "idle"
      BY <2>1 DEF Reply, TypeOK
    <3> QED BY <3>1 DEF Reply, Transfer, Cell
  <2>2. CASE w # v
    BY <2>2 DEF Reply, TypeOK, Transfer, Cell
  <2> QED BY <2>1, <2>2
<1> QED BY <1>3, <1>4, <1>5

LEMMA WriteBackIInv == ASSUME IInv, NEW c \in Cells, WriteBack(c) PROVE IInv'
<1> USE RequestFields DEF IInv
<1>1. TypeOK'
  BY DEF WriteBack, TypeOK, IsOpen
<1>2. \A d \in Cells : disk[d] <= disk'[d] /\ disk'[d] <= cache[d] /\ disk'[d] \in Nat
  <2>1. \A d \in Cells : disk'[d] = disk[d] \/ disk'[d] = cache[d]
    BY DEF WriteBack, TypeOK
  <2>2. \A d \in Cells : disk[d] \in Nat /\ cache[d] \in Nat /\ disk[d] <= cache[d]
    BY DEF TypeOK, Between
  <2> QED BY <2>1, <2>2
<1>3. Between'
  <2>1. durable' = durable /\ floor' = floor /\ cache' = cache
    BY DEF WriteBack
  <2>2. ASSUME NEW d \in Cells, NEW n \in Nat, n <= disk[d] PROVE n <= disk'[d]
    BY <1>2, <2>2 DEF TypeOK
  <2> QED BY <1>2, <2>1, <2>2 DEF TypeOK, Between
<1>4. ASSUME NEW w \in Workers PROVE Transfer(w)'
  <2>1. /\ moved' = moved /\ pc' = pc /\ req' = req /\ floor' = floor /\ cache' = cache
        /\ dirty' = dirty \ {c} /\ todo'[w] = todo[w] \ {c}
        /\ pc[w] \in {"xfer", "fsync"} /\ ~failed'[w] => ~failed[w] /\ disk'[c] = cache[c]
    BY DEF WriteBack, TypeOK, IsOpen
  <2>2. ASSUME NEW i \in 1..Len(moved[w])
        PROVE  moved[w][i] \in Nat /\ Cell(w, i) \in Cells
    BY SMTT(40) DEF TypeOK, Transfer
  <2>3. ASSUME NEW i \in 1..Len(moved[w]), moved[w][i] <= disk[Cell(w, i)]
        PROVE  moved[w][i] <= disk'[Cell(w, i)]
    BY <1>2, <2>2, <2>3, SMTT(40) DEF TypeOK
  <2>4. ASSUME NEW i \in 1..Len(moved[w]), pc[w] \in {"xfer", "fsync"}, ~failed'[w], Cell(w, i) = c
        PROVE  moved[w][i] <= disk'[Cell(w, i)]
    BY <2>1, <2>4 DEF Transfer
  <2>5. \A i : Cell(w, i)' = Cell(w, i)
    BY <2>1 DEF Cell
  <2>6. ASSUME NEW i \in 1..Len(moved[w]), req[w].write, pc[w] = "xfer", ~failed'[w]
        PROVE  moved[w][i] <= disk'[Cell(w, i)] \/ Cell(w, i) \in dirty'
    BY <2>1, <2>3, <2>4, <2>6 DEF Transfer
  <2>7. ASSUME NEW i \in 1..Len(moved[w]), req[w].write, pc[w] = "fsync", ~failed'[w]
        PROVE  moved[w][i] <= disk'[Cell(w, i)] \/ Cell(w, i) \in todo'[w]
    BY <2>1, <2>3, <2>4, <2>7 DEF Transfer
  <2>8. ASSUME NEW i \in 1..Len(moved[w]), req[w].write, pc[w] = "ok"
        PROVE  moved[w][i] <= disk'[Cell(w, i)]
    BY <2>3, <2>8 DEF Transfer
  <2> QED BY <2>1, <2>2, <2>5, <2>6, <2>7, <2>8 DEF Transfer
<1> QED BY <1>1, <1>3, <1>4

LEMMA CrashIInv == ASSUME IInv, ServerEnds \/ PowerFails PROVE IInv'
<1> USE DEF IInv, WorkersGone
<1>1. TypeOK'
  BY DiskAssumption DEF ServerEnds, PowerFails, TypeOK
<1>2. Between'
  BY DEF ServerEnds, PowerFails, TypeOK, Between
<1>3. ASSUME NEW w \in Workers PROVE Transfer(w)'
  <2>1. pc'[w] = "idle" /\ moved' = moved /\ req' = req
    BY DEF ServerEnds, PowerFails
  <2> QED BY <2>1 DEF Transfer, Cell
<1> QED BY <1>1, <1>2, <1>3

\* The invariant is inductive.
THEOREM Inductive == Spec => []IInv
<1>1. Init => IInv
  BY InitIInv
<1>2. IInv /\ [Next]_vars => IInv'
  <2> SUFFICES ASSUME IInv, [Next]_vars PROVE IInv'
    OBVIOUS
  <2>1. CASE UNCHANGED vars
    BY <2>1 DEF IInv, vars, workerVars, TypeOK, Between, Transfer, Cell
  <2>2. CASE Next
    BY <2>2, BeginIInv, OpenIInv, MoveCellIInv, XferEndsIInv, FsyncReturnsIInv, ReplyIInv,
       WriteBackIInv, CrashIInv DEF Next
  <2> QED BY <2>1, <2>2
<1> QED BY <1>1, <1>2, PTL DEF Spec

\* Types: among them, that no transfer moves more than its request asks for.
THEOREM TypeCorrect == Spec => []TypeOK
<1>1. IInv => TypeOK
  BY DEF IInv
<1> QED BY <1>1, Inductive, PTL

\* A write that was reported as done is on the medium, or a newer one is, in
\* every state, the one after a power failure included (diskWrite).
THEOREM Durability == Spec => []AcknowledgedIsOnDisk
<1>1. IInv => AcknowledgedIsOnDisk
  BY DEF IInv, Between, AcknowledgedIsOnDisk
<1> QED BY <1>1, Inductive, PTL

\* A read that succeeds is complete and not older than what was acknowledged
\* before it began (diskRead).
THEOREM Freshness == Spec => []ReadsSeeAcknowledged
<1>1. IInv => ReadsSeeAcknowledged
  <2> SUFFICES ASSUME IInv, NEW w \in Workers, pc[w] = "ok", NEW i \in 1..Len(moved[w])
               PROVE  /\ Len(moved[w]) = req[w].len
                      /\ moved[w][i] >= floor[w][req[w].addr + i - 1]
    BY DEF ReadsSeeAcknowledged, IInv, Transfer
  <2>1. moved[w][i] \in Nat /\ floor[w][Cell(w, i)] \in Nat
    BY DEF IInv, TypeOK, Transfer
  <2> QED BY <2>1 DEF IInv, Transfer, Cell
<1> QED BY <1>1, Inductive, PTL

-----------------------------------------------------------------------------

\* Disk implements DurableDisk: a cell that is written is a Write, a reply that
\* acknowledges is an Acknowledge, a power failure a Crash; nothing else shows.
THEOREM Implements == Spec => ImplementsDurable
<1>1. Init => Durable!Init
  BY DEF Init, Durable!Init, Zero
<1>2. IInv /\ [Next]_vars => [Durable!Next]_<<durable, cache>>
  <2> SUFFICES ASSUME IInv, [Next]_vars PROVE [Durable!Next]_<<durable, cache>>
    OBVIOUS
  <2> USE DEF Durable!Next
  <2>1. ASSUME NEW v \in Workers, MoveCell(v) PROVE [Durable!Next]_<<durable, cache>>
    <3>1. CASE req[v].write
      BY <2>1, <3>1 DEF MoveCell, Durable!Write
    <3>2. CASE ~req[v].write
      BY <2>1, <3>2 DEF MoveCell
    <3> QED BY <3>1, <3>2
  <2>2. ASSUME NEW v \in Workers, Reply(v) PROVE Durable!Acknowledge
    <3>1. IInv'
      BY <2>2, ReplyIInv
    <3>2. \A c \in Cells : durable[c] <= durable'[c]
      BY <2>2, ReplyAcknowledges
    <3> QED BY <3>1, <3>2, <2>2 DEF Reply, IInv, Between, TypeOK, Durable!Acknowledge
  <2>3. CASE PowerFails
    BY <2>3 DEF PowerFails, WorkersGone, IInv, Between, TypeOK, Durable!Crash
  <2>4. ASSUME NEW c \in Cells, WriteBack(c) PROVE UNCHANGED <<durable, cache>>
    BY <2>4 DEF WriteBack
  <2>5. ASSUME NEW v \in Workers,
               (\E r \in Requests : Begin(v, r)) \/ Open(v) \/ XferEnds(v) \/ FsyncReturns(v)
        PROVE  UNCHANGED <<durable, cache>>
    BY <2>5 DEF Begin, Open, XferEnds, FsyncReturns
  <2>6. CASE ServerEnds
    BY <2>6 DEF ServerEnds, WorkersGone
  <2>7. CASE UNCHANGED vars
    BY <2>7 DEF vars
  <2> QED BY <2>1, <2>2, <2>3, <2>4, <2>5, <2>6, <2>7 DEF Next
<1> QED BY <1>1, <1>2, Inductive, PTL DEF Spec, ImplementsDurable, Durable!Spec

=============================================================================
