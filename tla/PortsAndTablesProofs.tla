------------------------- MODULE PortsAndTablesProofs -------------------------
(***************************************************************************)
(* Accesses through index and data ports reach the cells they address, for *)
(* every number of workers, every size of a bank and of a function, as     *)
(* long as no two accesses under way share an index port.  And the pure    *)
(* parts of the programs compute what they should, for every input: the    *)
(* listing of PCI devices and the addresses a client makes of it, the      *)
(* memory map, the names, the arguments and the page arithmetic.           *)
(***************************************************************************)
EXTENDS IndexedPorts, Tables, FiniteSetTheorems, WellFoundedInduction, TLAPS

Cells == {"cmos", "pci"} \X Nat

\* What the loops keep true whoever else runs.
InRange ==
  /\ touched \in [Workers -> Seq(Cells)]
  /\ \A w \in Workers :
       /\ pc[w] \in {"index", "data"} /\ req[w].space = "cmos" =>
            req[w].addr + req[w].len <= CmosSize
       /\ pc[w] = "data" => InReach(req[w], Len(touched[w]))
       /\ req[w].space = "pci" /\ touched[w] # <<>> =>
            (req[w].addr % RegCount) + Len(touched[w]) <= RegCount
       /\ result[w] = "ok" => Len(touched[w]) = req[w].len

IInv == TypeOK /\ InRange

\* No index port is used by two accesses under way.
Apart ==
  \A v, w \in Workers :
    v # w /\ pc[v] # "idle" /\ pc[w] # "idle" => Uses(req[v]) \cap Uses(req[w]) = {}

\* Between its two steps a worker finds the index it wrote.
Selected ==
  \A w \in Workers : pc[w] = "data" =>
    index[Pair(req[w].space, Offset(w))] = IndexValue(req[w].space, Offset(w))

\* The inductive invariant of accesses that leave each other's ports alone.
XInv == IInv /\ Apart /\ Selected /\ CellsAsAddressed

-----------------------------------------------------------------------------
(* Arithmetic of the index values.                                          *)

\* An offset in the second bank, reduced to its bank.
LEMMA SecondBank ==
  ASSUME NEW a \in Nat, NEW b \in Nat \ {0}, a >= b, a < 2 * b
  PROVE  a % b = a - b
<1>1. /\ a = b * (a \div b) + (a % b) /\ 0 <= a % b /\ a % b < b
      /\ a \div b \in Int /\ a % b \in Int
  OBVIOUS
<1>2. a \div b = 1
  <2>1. CASE a \div b <= 0
    BY <1>1, <2>1, SMTT(30)
  <2>2. CASE a \div b >= 2
    BY <1>1, <2>2, SMTT(30)
  <2> QED BY <1>1, <2>1, <2>2
<1> QED BY <1>1, <1>2

\* As long as the remainder has room, a step stays in the same block.
LEMMA SameBlock ==
  ASSUME NEW a \in Nat, NEW b \in Nat \ {0}, NEW i \in Nat, (a % b) + i < b
  PROVE  (a + i) \div b = a \div b
<1> DEFINE q == (a + i) \div b
           p == a \div b
           r == a % b
           s == (a + i) % b
<1>1. a = b * p + r /\ p \in Int /\ r \in Int /\ 0 <= r /\ r < b
  OBVIOUS
<1>2. a + i = b * q + s /\ q \in Int /\ s \in Int /\ 0 <= s /\ s < b
  OBVIOUS
<1>3. r + i < b
  OBVIOUS
<1> HIDE DEF q, p, r, s
<1>4. b * p - b * q < b /\ b * q - b * p < b
  BY <1>1, <1>2, <1>3, SMTT(30)
<1>5. p - q \in Int /\ b * (p - q) = b * p - b * q
  BY <1>1, <1>2, SMTT(30)
<1>6. CASE p - q >= 1
  <2>1. b * (p - q) >= b
    BY <1>5, <1>6, SMTT(30)
  <2> QED BY <1>1, <1>2, <1>4, <1>5, <2>1
<1>7. CASE p - q <= -1
  <2>1. b * (p - q) <= -b
    BY <1>5, <1>7, SMTT(30)
  <2> QED BY <1>1, <1>2, <1>4, <1>5, <2>1
<1> QED BY <1>1, <1>2, <1>6, <1>7 DEF p, q

\* The index value and the lane, or the bank, give the offset back.
LEMMA IndexNamesCell ==
  ASSUME NEW s \in {"cmos", "pci"}, NEW off \in Nat,
         s = "cmos" => off < CmosSize,
         index[Pair(s, off)] = IndexValue(s, off)
  PROVE  CellBehind(Pair(s, off), off % 4) = Cell(s, off)
<1>0. BankSize \in Nat \ {0}
  BY IndexedPortsAssumption
<1>1. CASE s = "pci"
  BY <1>1 DEF Pair, IndexValue, CellBehind, Cell
<1>2. CASE s = "cmos" /\ off < BankSize
  <2>1. off % BankSize = off
    BY <1>0, <1>2
  <2> QED BY <1>2, <2>1 DEF Pair, IndexValue, CellBehind, Cell
<1>3. CASE s = "cmos" /\ off >= BankSize
  <2>1. off < 2 * BankSize
    BY <1>3 DEF CmosSize
  <2>2. off % BankSize = off - BankSize
    BY <1>0, <1>3, <2>1, SecondBank
  <2>3. (off - BankSize) + BankSize = off
    BY <1>0
  <2>4. Pair(s, off) = "ext" /\ IndexValue(s, off) = off - BankSize
    BY <1>0, <1>3, <2>2 DEF Pair, IndexValue
  <2> QED BY <1>3, <2>3, <2>4 DEF CellBehind, Cell
<1> QED BY <1>0, <1>1, <1>2, <1>3

\* Facts about an access that is under way.
LEMMA RequestFacts ==
  ASSUME TypeOK, InRange, NEW w \in Workers
  PROVE  /\ req[w] \in Requests
         /\ req[w].space \in {"cmos", "pci"} /\ req[w].addr \in Nat /\ req[w].len \in Nat
         /\ touched[w] \in Seq(Cells) /\ Len(touched[w]) \in Nat /\ Len(touched[w]) <= req[w].len
         /\ Offset(w) \in Nat /\ Offset(w) = req[w].addr + Len(touched[w])
<1>1. req[w] \in [space : {"cmos", "pci"}, addr : Nat, len : Nat] /\ req[w] \in Requests
  BY IndexedPortsAssumption DEF TypeOK
<1>2. touched[w] \in Seq(Cells) /\ Len(touched[w]) <= req[w].len
  BY DEF TypeOK, InRange
<1>3. Len(touched[w]) \in Nat
  BY <1>2
<1> QED BY <1>1, <1>2, <1>3 DEF Offset

\* The byte in reach goes through a port the access uses.
LEMMA PairIsUsed ==
  ASSUME NEW r \in [space : {"cmos", "pci"}, addr : Nat, len : Nat], NEW n \in Nat, InReach(r, n)
  PROVE  Pair(r.space, r.addr + n) \in Uses(r)
<1>1. n < r.len /\ n \in 0..r.len
  BY DEF InReach
<1> QED BY <1>1 DEF Uses

-----------------------------------------------------------------------------
(* The invariant of the loops.                                              *)

\* No worker has an access yet.
LEMMA InitIInv == Init => IInv
<1> SUFFICES ASSUME Init PROVE IInv
  OBVIOUS
<1>1. (CHOOSE r \in Requests : TRUE) \in Requests
  BY IndexedPortsAssumption
<1>2. <<>> \in Seq(Cells) /\ <<>> \in Seq({"cmos", "pci"} \X Nat) /\ Len(<<>>) = 0
  OBVIOUS
<1>3. \A w \in Workers : req[w] \in Requests /\ req[w].len \in Nat
  BY <1>1, IndexedPortsAssumption DEF Init
<1>4. TypeOK
  BY <1>1, <1>2, <1>3 DEF Init, TypeOK
<1>5. InRange
  BY <1>2 DEF Init, InRange
<1> QED BY <1>4, <1>5 DEF IInv

\* The step of one worker, whoever else is under way.
LEMMA WorkerIInv ==
  ASSUME IInv, NEW w \in Workers,
         \/ \E r \in Requests : Begin(w, r)
         \/ WriteIndex(w) \/ AccessData(w) \/ Finish(w) \/ Answer(w)
  PROVE  IInv'
<1> USE DEF IInv
<1>0. /\ req[w] \in Requests
      /\ req[w].space \in {"cmos", "pci"} /\ req[w].addr \in Nat /\ req[w].len \in Nat
      /\ touched[w] \in Seq(Cells) /\ Len(touched[w]) \in Nat /\ Len(touched[w]) <= req[w].len
      /\ Offset(w) \in Nat
  BY RequestFacts
<1>1. ASSUME NEW r \in Requests, Begin(w, r) PROVE IInv'
  <2>1. <<>> \in Seq(Cells) /\ <<>> \in Seq({"cmos", "pci"} \X Nat) /\ Len(<<>>) = 0
    OBVIOUS
  <2>2. r.len \in Nat /\ r.space \in {"cmos", "pci"}
    BY IndexedPortsAssumption
  <2>3. /\ touched'[w] = <<>> /\ req'[w] = r
        /\ \A v \in Workers \ {w} : touched'[v] = touched[v] /\ req'[v] = req[v]
    BY <1>1 DEF Begin, TypeOK, InRange
  <2>4. ASSUME NEW v \in Workers
        PROVE  touched'[v] \in Seq({"cmos", "pci"} \X Nat) /\ Len(touched'[v]) <= req'[v].len
    <3>1. CASE v = w
      <4>1. touched'[v] = <<>> /\ req'[v].len = r.len
        BY <2>3, <3>1
      <4>2. Len(touched'[v]) = 0
        BY <2>1, <4>1
      <4>3. Len(touched'[v]) <= req'[v].len
        BY <2>2, <4>1, <4>2
      <4> QED BY <2>1, <4>1, <4>3
    <3>2. CASE v # w
      BY <2>3, <3>2 DEF TypeOK
    <3> QED BY <3>1, <3>2
  <2>5. /\ index' = index /\ req' \in [Workers -> Requests]
        /\ pc' \in [Workers -> {"idle", "index", "data", "done"}]
        /\ result' \in [Workers -> {"none", "ok", "failed"}]
    BY <1>1 DEF Begin, TypeOK
  <2>6. TypeOK'
    BY <2>4, <2>5 DEF TypeOK
  <2>7. touched' \in [Workers -> Seq(Cells)]
    BY <1>1, <2>1 DEF Begin, InRange
  <2> QED BY <1>1, <2>1, <2>2, <2>6, <2>7 DEF Begin, TypeOK, InRange
<1>2. CASE WriteIndex(w)
  <2>1. IndexValue(req[w].space, Offset(w)) \in Nat
    <3>1. Offset(w) % BankSize \in Nat
      BY <1>0, IndexedPortsAssumption
    <3>2. Offset(w) - (Offset(w) % 4) \in Nat
      BY <1>0, SMTT(40)
    <3> QED BY <3>1, <3>2 DEF IndexValue
  <2>2. TypeOK'
    BY <1>2, <2>1 DEF WriteIndex, TypeOK
  <2> QED BY <1>2, <2>2 DEF WriteIndex, TypeOK, InRange
<1>3. CASE AccessData(w)
  <2> DEFINE c == CellBehind(Pair(req[w].space, Offset(w)), Offset(w) % 4)
  <2>1. Pair(req[w].space, Offset(w)) \in Pairs
    BY DEF Pair, Pairs
  <2>2. index[Pair(req[w].space, Offset(w))] \in Nat
    BY <2>1 DEF TypeOK
  <2>3. c \in {"cmos", "pci"} \X Nat
    BY <1>0, <2>2, IndexedPortsAssumption, SMTT(40) DEF CellBehind
  <2> HIDE DEF c
  <2>4. /\ Append(touched[w], c) \in Seq(Cells)
        /\ Len(Append(touched[w], c)) = Len(touched[w]) + 1 /\ Append(touched[w], c) # <<>>
    BY <1>0, <2>3 DEF Cells
  <2>5. InReach(req[w], Len(touched[w]))
    BY <1>3 DEF AccessData, InRange
  <2>6. /\ Len(touched[w]) + 1 <= req[w].len
        /\ req[w].space = "pci" => (req[w].addr % RegCount) + (Len(touched[w]) + 1) <= RegCount
    BY <1>0, <2>5, IndexedPortsAssumption, SMTT(40) DEF InReach
  <2>7. CASE touched' = [touched EXCEPT ![w] = Append(touched[w], c)]
             /\ pc' = [pc EXCEPT ![w] = "index"] /\ UNCHANGED <<result, index, req>>
    <3>1. touched' \in [Workers -> Seq(Cells)]
      BY <2>4, <2>7 DEF InRange
    <3>2. /\ touched'[w] = Append(touched[w], c)
          /\ \A v \in Workers \ {w} : touched'[v] = touched[v]
      BY <2>7 DEF InRange
    <3>3. TypeOK'
      BY <2>4, <2>6, <2>7, <3>1, <3>2 DEF TypeOK, Cells
    <3>4. pc[w] = "data" /\ pc'[w] = "index" /\ \A v \in Workers \ {w} : pc'[v] = pc[v]
      BY <1>3, <2>7 DEF AccessData, TypeOK
    <3>5. result[w] # "ok" \/ Len(touched[w]) = req[w].len
      BY DEF InRange
    <3>6. result[w] # "ok"
      BY <1>0, <2>6, <3>5
    <3>7. InRange'
      BY <1>0, <2>4, <2>6, <2>7, <3>1, <3>2, <3>4, <3>6 DEF InRange
    <3> QED BY <3>3, <3>7
  <2>8. CASE pc' = [pc EXCEPT ![w] = "done"] /\ result' = [result EXCEPT ![w] = "failed"]
             /\ UNCHANGED <<touched, index, req>>
    BY <2>8 DEF TypeOK, InRange
  <2> QED BY <1>3, <2>7, <2>8 DEF AccessData, c
<1>4. CASE Finish(w)
  BY <1>0, <1>4 DEF Finish, TypeOK, InRange
<1>5. CASE Answer(w)
  BY <1>5 DEF Answer, TypeOK, InRange
<1> QED BY <1>1, <1>2, <1>3, <1>4, <1>5

-----------------------------------------------------------------------------
(* Accesses that leave each other's index ports alone.                      *)

\* Nobody is under way and nothing has been touched.
LEMMA InitXInv == Init => XInv
<1> SUFFICES ASSUME Init PROVE XInv
  OBVIOUS
<1>1. IInv
  BY InitIInv
<1>2. Len(<<>>) = 0
  OBVIOUS
<1> QED BY <1>1, <1>2 DEF Init, XInv, Apart, Selected, CellsAsAddressed

\* The step of one worker: another one's index is moved by nobody but itself.
LEMMA WorkerXInv ==
  ASSUME Exclusive, XInv, NEW w \in Workers,
         \/ \E r \in Requests : Begin(w, r)
         \/ WriteIndex(w) \/ AccessData(w) \/ Finish(w) \/ Answer(w)
  PROVE  XInv'
<1> USE DEF XInv
<1>0. IInv'
  BY WorkerIInv
<1>1. ASSUME NEW r \in Requests, Begin(w, r) PROVE XInv'
  <2>1. /\ touched'[w] = <<>> /\ req'[w] = r /\ pc[w] = "idle" /\ pc'[w] \in {"index", "done"}
        /\ \A v \in Workers \ {w} :
             touched'[v] = touched[v] /\ req'[v] = req[v] /\ pc'[v] = pc[v]
        /\ index' = index
    BY <1>1 DEF Begin, IInv, TypeOK, InRange
  <2>2. \A v \in Workers \ {w} : pc[v] # "idle" => Uses(req[v]) \cap Uses(r) = {}
    BY <1>1 DEF Begin
  <2>3. Apart'
    <3> SUFFICES ASSUME NEW u \in Workers, NEW v \in Workers, u # v, pc'[u] # "idle", pc'[v] # "idle"
                 PROVE  Uses(req'[u]) \cap Uses(req'[v]) = {}
      BY DEF Apart, Uses
    <3> HIDE DEF XInv
    <3>1. CASE u = w
      <4>1. req'[u] = r /\ req'[v] = req[v] /\ pc[v] # "idle" /\ v \in Workers \ {w}
        BY <2>1, <3>1
      <4>2. Uses(req[v]) \cap Uses(r) = {}
        BY <2>2, <4>1
      <4> QED BY <4>1, <4>2
    <3>2. CASE v = w
      <4>1. req'[v] = r /\ req'[u] = req[u] /\ pc[u] # "idle" /\ u \in Workers \ {w}
        BY <2>1, <3>2
      <4>2. Uses(req[u]) \cap Uses(r) = {}
        BY <2>2, <4>1
      <4> QED BY <4>1, <4>2
    <3>3. CASE u # w /\ v # w
      <4>1. req'[u] = req[u] /\ pc[u] # "idle" /\ req'[v] = req[v] /\ pc[v] # "idle"
        BY <2>1, <3>3
      <4>2. Uses(req[u]) \cap Uses(req[v]) = {}
        BY <4>1 DEF XInv, Apart
      <4> QED BY <4>1, <4>2
    <3> QED BY <3>1, <3>2, <3>3
  <2>4. Selected'
    BY <2>1 DEF Selected, Offset
  <2>5. Len(<<>>) = 0
    OBVIOUS
  <2>6. CellsAsAddressed'
    BY <2>1, <2>5 DEF CellsAsAddressed
  <2> QED BY <1>0, <2>3, <2>4, <2>6
<1>2. CASE WriteIndex(w)
  <2>1. /\ pc[w] = "index" /\ pc'[w] \in {"data", "done"} /\ UNCHANGED <<req, touched>>
        /\ \A v \in Workers \ {w} : pc'[v] = pc[v]
    BY <1>2 DEF WriteIndex, IInv, TypeOK
  <2>2. Apart'
    BY <2>1 DEF Apart, Uses
  <2>3. CellsAsAddressed'
    BY <2>1 DEF CellsAsAddressed
  <2>4. ASSUME NEW v \in Workers, pc'[v] = "data"
        PROVE  index'[Pair(req[v].space, Offset(v))] = IndexValue(req[v].space, Offset(v))
    <3> DEFINE p == Pair(req[w].space, Offset(w))
               q == Pair(req[v].space, Offset(v))
    <3>1. p \in Pairs /\ q \in Pairs
      BY DEF Pair, Pairs
    <3>2. CASE v = w
      BY <1>2, <2>1, <2>4, <3>1, <3>2 DEF WriteIndex, IInv, TypeOK
    <3>3. CASE v # w
      <4>1. pc[v] = "data"
        BY <2>1, <2>4, <3>3
      <4>2. InReach(req[v], Len(touched[v])) /\ InReach(req[w], Len(touched[w]))
        BY <1>2, <4>1 DEF WriteIndex, IInv, InRange
      <4>3. /\ req[v] \in [space : {"cmos", "pci"}, addr : Nat, len : Nat] /\ Len(touched[v]) \in Nat
            /\ req[w] \in [space : {"cmos", "pci"}, addr : Nat, len : Nat] /\ Len(touched[w]) \in Nat
        BY RequestFacts, IndexedPortsAssumption DEF IInv
      <4>4. q \in Uses(req[v]) /\ p \in Uses(req[w])
        BY <4>2, <4>3, PairIsUsed DEF Offset
      <4>5. p # q
        BY <2>1, <3>3, <4>1, <4>4 DEF Apart
      <4>6. index'[q] = index[q]
        BY <1>2, <3>1, <4>5 DEF WriteIndex, IInv, TypeOK
      <4> QED BY <4>1, <4>6 DEF Selected
    <3> QED BY <3>2, <3>3
  <2>5. Selected'
    BY <2>1, <2>4 DEF Selected, Offset
  <2> QED BY <1>0, <2>2, <2>3, <2>5
<1>3. CASE AccessData(w)
  <2>1. /\ pc[w] = "data" /\ pc'[w] \in {"index", "done"} /\ UNCHANGED <<req, index>>
        /\ \A v \in Workers \ {w} : pc'[v] = pc[v] /\ touched'[v] = touched[v]
    BY <1>3 DEF AccessData, IInv, TypeOK, InRange
  <2>2. Apart'
    BY <2>1 DEF Apart, Uses
  <2>3. Selected'
    BY <2>1 DEF Selected, Offset
  <2>4. /\ req[w].space \in {"cmos", "pci"} /\ req[w].addr \in Nat /\ req[w].len \in Nat
        /\ touched[w] \in Seq(Cells) /\ Len(touched[w]) \in Nat
        /\ Offset(w) \in Nat /\ Offset(w) = req[w].addr + Len(touched[w])
    BY RequestFacts DEF IInv
  <2> DEFINE c == CellBehind(Pair(req[w].space, Offset(w)), Offset(w) % 4)
  <2>5. c = Cell(req[w].space, Offset(w))
    <3>1. index[Pair(req[w].space, Offset(w))] = IndexValue(req[w].space, Offset(w))
      BY <2>1 DEF Selected
    <3>2. Len(touched[w]) < req[w].len
      BY <2>1 DEF IInv, InRange, InReach
    <3>3. req[w].space = "cmos" => req[w].addr + req[w].len <= CmosSize
      BY <2>1 DEF IInv, InRange
    <3>4. CmosSize \in Nat
      BY IndexedPortsAssumption DEF CmosSize
    <3>5. req[w].space = "cmos" => Offset(w) < CmosSize
      BY <2>4, <3>2, <3>3, <3>4
    <3> QED BY <2>4, <3>1, <3>5, IndexNamesCell
  <2>6. touched'[w] = Append(touched[w], c) \/ touched'[w] = touched[w]
    BY <1>3 DEF AccessData, IInv, InRange
  <2> HIDE DEF c
  <2>7. ASSUME NEW i \in 1..Len(touched'[w])
        PROVE  touched'[w][i] = Cell(req[w].space, req[w].addr + i - 1)
    <3>1. CASE touched'[w] = touched[w]
      BY <2>7, <3>1 DEF CellsAsAddressed
    <3>2. CASE touched'[w] = Append(touched[w], c)
      <4>1. c \in Cells
        BY <2>4, <2>5 DEF Cell, Cells
      <4>2. Len(Append(touched[w], c)) = Len(touched[w]) + 1
        BY <2>4, <4>1
      <4>3. CASE i = Len(touched[w]) + 1
        <5>1. Append(touched[w], c)[i] = c
          BY <2>4, <4>1, <4>3
        <5>2. req[w].addr + i - 1 = Offset(w)
          BY <2>4, <4>3
        <5> QED BY <2>5, <3>2, <5>1, <5>2
      <4>4. CASE i # Len(touched[w]) + 1
        <5>1. i \in 1..Len(touched[w])
          BY <2>4, <2>7, <3>2, <4>2, <4>4
        <5>2. Append(touched[w], c)[i] = touched[w][i]
          BY <2>4, <4>1, <5>1
        <5> QED BY <3>2, <5>1, <5>2 DEF CellsAsAddressed
      <4> QED BY <4>3, <4>4
    <3> QED BY <2>6, <3>1, <3>2
  <2>8. CellsAsAddressed'
    BY <2>1, <2>7 DEF CellsAsAddressed, Cell
  <2> QED BY <1>0, <2>2, <2>3, <2>8
<1>4. CASE Finish(w) \/ Answer(w)
  <2>1. /\ pc[w] # "idle" /\ pc'[w] \in {"done", "idle"} /\ UNCHANGED <<req, touched, index>>
        /\ \A v \in Workers \ {w} : pc'[v] = pc[v]
    BY <1>4 DEF Finish, Answer, IInv, TypeOK
  <2>2. Apart'
    BY <2>1 DEF Apart, Uses
  <2>3. Selected'
    BY <2>1 DEF Selected, Offset
  <2>4. CellsAsAddressed'
    BY <2>1 DEF CellsAsAddressed
  <2> QED BY <1>0, <2>2, <2>3, <2>4
<1> QED BY <1>1, <1>2, <1>3, <1>4

\* Bytes at the offsets of one function are in that function.
LEMMA InFunction == XInv => StaysInFunction
<1> SUFFICES ASSUME XInv PROVE StaysInFunction
  OBVIOUS
<1> USE DEF XInv, IInv
<1>1. ASSUME NEW w \in Workers, NEW i \in 1..Len(touched[w]), touched[w][i][1] = "pci"
      PROVE  touched[w][i][2] \div RegCount = req[w].addr \div RegCount
  <2>1. /\ req[w].space \in {"cmos", "pci"} /\ req[w].addr \in Nat
        /\ touched[w] \in Seq(Cells) /\ Len(touched[w]) \in Nat
    BY RequestFacts
  <2>2. touched[w][i] = Cell(req[w].space, req[w].addr + i - 1)
    BY DEF CellsAsAddressed
  <2>3. req[w].space = "pci" /\ touched[w][i][2] = req[w].addr + i - 1
    BY <1>1, <2>2 DEF Cell
  <2>4. touched[w] # <<>>
    BY <2>1
  <2>5. (req[w].addr % RegCount) + Len(touched[w]) <= RegCount
    BY <2>3, <2>4 DEF InRange
  <2>6. RegCount \in Nat \ {0} /\ i - 1 \in Nat /\ req[w].addr % RegCount \in Nat
    BY <2>1, IndexedPortsAssumption
  <2>7. (req[w].addr % RegCount) + (i - 1) < RegCount
    BY <2>1, <2>5, <2>6
  <2>8. (req[w].addr + (i - 1)) \div RegCount = req[w].addr \div RegCount
    BY <2>1, <2>6, <2>7, SameBlock
  <2>9. req[w].addr + i - 1 = req[w].addr + (i - 1)
    BY <2>1
  <2> QED BY <2>3, <2>8, <2>9
<1> QED BY <1>1 DEF StaysInFunction, InRange

-----------------------------------------------------------------------------
(* The theorems.                                                            *)

\* Types, and that no access touches more bytes than it was asked for, with
\* clients that share index ports too.
THEOREM TypeCorrect == Spec => []TypeOK
<1>1. Init => IInv
  BY InitIInv
<1>2. IInv /\ [Next]_vars => IInv'
  <2> SUFFICES ASSUME IInv, [Next]_vars PROVE IInv'
    OBVIOUS
  <2>1. CASE Next
    BY <2>1, WorkerIInv DEF Next
  <2>2. CASE UNCHANGED vars
    BY <2>2 DEF vars, IInv, TypeOK, InRange
  <2> QED BY <2>1, <2>2
<1> QED BY <1>1, <1>2, PTL DEF Spec, IInv

\* Without clients that share an index port, the invariant is inductive.
THEOREM ExclusiveInductive ==
  ASSUME Exclusive
  PROVE  Spec => []XInv
<1>1. Init => XInv
  BY InitXInv
<1>2. XInv /\ [Next]_vars => XInv'
  <2> SUFFICES ASSUME XInv, [Next]_vars PROVE XInv'
    OBVIOUS
  <2>1. CASE Next
    BY <2>1, WorkerXInv DEF Next
  <2>2. CASE UNCHANGED vars
    <3>1. IInv'
      BY <2>2 DEF vars, XInv, IInv, TypeOK, InRange
    <3>2. Apart'
      BY <2>2 DEF vars, XInv, Apart, Uses
    <3>3. Selected' /\ CellsAsAddressed'
      BY <2>2 DEF vars, XInv, Selected, Offset, CellsAsAddressed
    <3> QED BY <3>1, <3>2, <3>3 DEF XInv
  <2> QED BY <2>1, <2>2
<1> QED BY <1>1, <1>2, PTL DEF Spec

\* Every byte goes to or comes from the cell its offset names.
THEOREM CellsReached ==
  ASSUME Exclusive
  PROVE  Spec => []CellsAsAddressed
BY ExclusiveInductive, PTL DEF XInv

\* No PCI access leaves its function, and a success has reached every byte.
THEOREM FunctionKept ==
  ASSUME Exclusive
  PROVE  Spec => []StaysInFunction
BY ExclusiveInductive, InFunction, PTL

-----------------------------------------------------------------------------
(* Induction, as a fact about sets of numbers.                              *)

\* A set of natural numbers has a least element.
LEMMA Least ==
  ASSUME NEW I \in SUBSET Nat, I # {}
  PROVE  \E m \in I : \A i \in I : m <= i
<1> DEFINE R == {uv \in Nat \X Nat : uv[1] < uv[2]}
<1>1. IsWellFoundedOn(R, Nat)
  BY NatLessThanWellFounded DEF OpToRel
<1>2. PICK m \in I : \A i \in I : ~(<<i, m>> \in R)
  <2> HIDE DEF R
  <2> QED BY <1>1, WFMin
<1>3. \A i \in I : ~(i < m)
  BY <1>2
<1> QED BY <1>3

\* What holds of 0, and of n when it holds of n - 1, holds up to N.
LEMMA UpTo ==
  ASSUME NEW N \in Nat, NEW P, 0 \in P, \A n \in 1..N : n - 1 \in P => n \in P
  PROVE  \A n \in 0..N : n \in P
<1> DEFINE Bad == {n \in 0..N : n \notin P}
<1> SUFFICES ASSUME Bad # {} PROVE FALSE
  OBVIOUS
<1>1. PICK m \in Bad : \A i \in Bad : m <= i
  <2>1. Bad \in SUBSET Nat
    OBVIOUS
  <2> HIDE DEF Bad
  <2> QED BY <2>1, Least
<1>2. m \in 1..N
  BY <1>1
<1>3. m - 1 \in 0..N /\ m - 1 \notin Bad
  BY <1>1, <1>2
<1> QED BY <1>1, <1>2, <1>3

\* f is what the recursion from s0 by the steps g makes of 0..N.
IsRecursive(f, N, s0, g) == f = [n \in 0..N |-> IF n = 0 THEN s0 ELSE g[n][f[n - 1]]]

\* There is such a function.
LEMMA Recursion ==
  ASSUME NEW N \in Nat, NEW s0, NEW g
  PROVE  \E f : IsRecursive(f, N, s0, g)
<1> DEFINE Good(k) == \E f : IsRecursive(f, k, s0, g)
           P == {k \in 0..N : Good(k)}
<1>1. 0 \in P
  <2> DEFINE f == [n \in 0..0 |-> s0]
  <2>1. IsRecursive(f, 0, s0, g)
    BY DEF IsRecursive
  <2> HIDE DEF f
  <2>2. Good(0)
    BY <2>1
  <2> HIDE DEF Good
  <2> QED BY <2>2
<1>2. ASSUME NEW k \in 1..N, k - 1 \in P PROVE k \in P
  <2>1. PICK f : f = [n \in 0..(k - 1) |-> IF n = 0 THEN s0 ELSE g[n][f[n - 1]]]
    BY <1>2 DEF IsRecursive
  <2> DEFINE h == [n \in 0..k |-> IF n = k THEN g[k][f[k - 1]] ELSE f[n]]
  <2>2. ASSUME NEW n \in 0..k PROVE h[n] = IF n = 0 THEN s0 ELSE g[n][h[n - 1]]
    <3>1. CASE n = 0
      <4>1. 0 \in 0..(k - 1) /\ 0 # k
        OBVIOUS
      <4>2. f[0] = s0
        BY <2>1, <4>1
      <4> QED BY <3>1, <4>1, <4>2
    <3>2. CASE n = k
      <4>1. h[n] = g[k][f[k - 1]]
        BY <3>2
      <4>2. k - 1 \in 0..k /\ k - 1 # k /\ n # 0
        BY <3>2
      <4>3. h[k - 1] = f[k - 1]
        BY <4>2
      <4> HIDE DEF h
      <4> QED BY <3>2, <4>1, <4>2, <4>3
    <3>3. CASE n # 0 /\ n # k
      <4>1. n \in 0..(k - 1) /\ n - 1 \in 0..(k - 1)
        BY <3>3
      <4>2. f[n] = g[n][f[n - 1]]
        BY <2>1, <3>3, <4>1
      <4>3. h[n] = f[n] /\ h[n - 1] = f[n - 1]
        BY <3>3, <4>1
      <4> QED BY <3>3, <4>2, <4>3
    <3> QED BY <3>1, <3>2, <3>3
  <2>3. h = [n \in 0..k |-> h[n]]
    OBVIOUS
  <2> HIDE DEF h
  <2>4. IsRecursive(h, k, s0, g)
    BY <2>2, <2>3 DEF IsRecursive
  <2>5. Good(k)
    BY <2>4
  <2> HIDE DEF Good
  <2> QED BY <2>5
<1>3. N \in P
  <2> HIDE DEF P
  <2> QED BY <1>1, <1>2, UpTo
<1> QED BY <1>3

-----------------------------------------------------------------------------
(* Listings.                                                                *)

\* The places before n among good ones.
LEMMA GoodIsFinite ==
  ASSUME NEW N \in Nat, NEW good \in SUBSET (1..N), NEW n \in Nat
  PROVE  /\ IsFiniteSet(good) /\ Cardinality(good) \in Nat
         /\ IsFiniteSet(good \cap 1..n) /\ Cardinality(good \cap 1..n) \in Nat
<1>1. IsFiniteSet(1..N)
  BY FS_Interval
<1>2. IsFiniteSet(good)
  BY <1>1, FS_Subset
<1>3. IsFiniteSet(good \cap 1..n)
  BY <1>2, FS_Subset
<1> QED BY <1>2, <1>3, FS_CardinalityType

\* Nothing is dropped when there is room.
LEMMA AllAreKept ==
  ASSUME NEW N \in Nat, NEW good \in SUBSET (1..N), NEW max \in Nat, Cardinality(good) <= max
  PROVE  FirstOf(good, max) = good
<1> SUFFICES ASSUME NEW i \in good PROVE Cardinality({j \in good : j < i}) < max
  BY DEF FirstOf
<1> DEFINE B == {j \in good : j < i}
<1>1. IsFiniteSet(good) /\ Cardinality(good) \in Nat
  BY GoodIsFinite
<1>2. B \in SUBSET (good \ {i})
  OBVIOUS
<1>3. IsFiniteSet(good \ {i}) /\ Cardinality(good \ {i}) = Cardinality(good) - 1
  BY <1>1, FS_RemoveElement
<1>4. IsFiniteSet(B) /\ Cardinality(B) <= Cardinality(good) - 1
  <2> DEFINE G == good \ {i}
  <2>1. B \in SUBSET G /\ IsFiniteSet(G) /\ Cardinality(G) = Cardinality(good) - 1
    BY <1>2, <1>3
  <2> HIDE DEF B, G
  <2>2. IsFiniteSet(B) /\ Cardinality(B) <= Cardinality(G)
    BY <2>1, FS_Subset
  <2> QED BY <2>1, <2>2
<1>5. Cardinality(B) \in Nat
  <2> HIDE DEF B
  <2> QED BY <1>4, FS_CardinalityType
<1> QED BY <1>1, <1>4, <1>5

\* As many are kept as there are, or as there is room for.
LEMMA HowManyAreKept ==
  ASSUME NEW N \in Nat, NEW good \in SUBSET (1..N), NEW max \in Nat
  PROVE  /\ FirstOf(good, max) \in SUBSET good
         /\ Cardinality(FirstOf(good, max)) = IF Cardinality(good) < max THEN Cardinality(good) ELSE max
<1> DEFINE K == FirstOf(good, max)
           C(n) == Cardinality(good \cap 1..n)
           D(n) == Cardinality(K \cap 1..n)
           P == {n \in 0..N : D(n) = IF C(n) < max THEN C(n) ELSE max}
<1>1. K \in SUBSET good /\ K \in SUBSET (1..N)
  BY DEF FirstOf
<1>2. 0 \in P
  <2>1. good \cap 1..0 = {} /\ K \cap 1..0 = {}
    OBVIOUS
  <2>2. C(0) = 0 /\ D(0) = 0
    BY <2>1, FS_EmptySet
  <2> HIDE DEF C, D
  <2> QED BY <2>2
<1>3. ASSUME NEW n \in 1..N, n - 1 \in P PROVE n \in P
  <2>1. /\ IsFiniteSet(good \cap 1..(n - 1)) /\ C(n - 1) \in Nat
        /\ IsFiniteSet(K \cap 1..(n - 1)) /\ D(n - 1) \in Nat
    <3>1. n - 1 \in Nat
      OBVIOUS
    <3> HIDE DEF K
    <3> QED BY <1>1, <3>1, GoodIsFinite
  <2>2. CASE n \notin good
    <3>1. good \cap 1..n = good \cap 1..(n - 1) /\ K \cap 1..n = K \cap 1..(n - 1)
      <4> HIDE DEF K
      <4> QED BY <1>1, <2>2
    <3>2. C(n) = C(n - 1) /\ D(n) = D(n - 1)
      BY <3>1
    <3> HIDE DEF C, D
    <3> QED BY <1>3, <3>2
  <2>3. CASE n \in good
    <3>1. good \cap 1..n = (good \cap 1..(n - 1)) \cup {n} /\ n \notin good \cap 1..(n - 1)
      BY <2>3
    <3>2. C(n) = C(n - 1) + 1
      BY <2>1, <3>1, FS_AddElement
    <3>3. {j \in good : j < n} = good \cap 1..(n - 1)
      <4>1. \A j \in good : j \in Nat /\ (j < n <=> j \in 1..(n - 1))
        OBVIOUS
      <4> QED BY <4>1
    <3>4. n \in K <=> C(n - 1) < max
      BY <2>3, <3>3 DEF FirstOf
    <3>5. CASE n \in K
      <4>1. K \cap 1..n = (K \cap 1..(n - 1)) \cup {n} /\ n \notin K \cap 1..(n - 1)
        <5> HIDE DEF K
        <5> QED BY <3>5
      <4>2. D(n) = D(n - 1) + 1
        <5> HIDE DEF K
        <5> QED BY <2>1, <4>1, FS_AddElement
      <4> HIDE DEF C, D, K
      <4> QED BY <1>3, <2>1, <3>2, <3>4, <3>5, <4>2
    <3>6. CASE n \notin K
      <4>1. K \cap 1..n = K \cap 1..(n - 1)
        <5> HIDE DEF K
        <5> QED BY <1>1, <3>6
      <4>2. D(n) = D(n - 1)
        BY <4>1
      <4> HIDE DEF C, D, K
      <4> QED BY <1>3, <2>1, <3>2, <3>4, <3>6, <4>2
    <3> QED BY <3>5, <3>6
  <2> QED BY <2>2, <2>3
<1>4. N \in P
  <2> HIDE DEF P
  <2> QED BY <1>2, <1>3, UpTo
<1>5. good \cap 1..N = good /\ K \cap 1..N = K
  <2> HIDE DEF K
  <2> QED BY <1>1
<1>6. C(N) = Cardinality(good) /\ D(N) = Cardinality(K)
  BY <1>5
<1>7. D(N) = IF C(N) < max THEN C(N) ELSE max
  <2> HIDE DEF C, D
  <2> QED BY <1>4
<1> HIDE DEF C, D
<1> QED BY <1>1, <1>6, <1>7

\* An ordering lists every place once.
LEMMA SortedIs ==
  ASSUME NEW S, IsFiniteSet(S), NEW key, NEW q \in Sorted(S, key)
  PROVE  /\ q \in [1..Cardinality(S) -> S] /\ q \in Seq(S) /\ Len(q) = Cardinality(S)
         /\ \A i, j \in DOMAIN q : q[i] = q[j] => i = j
         /\ \A s \in S : \E i \in DOMAIN q : q[i] = s
         /\ \A i, j \in DOMAIN q : i < j => key[q[i]] <= key[q[j]]
<1> DEFINE n == Cardinality(S)
<1>1. n \in Nat
  BY FS_CardinalityType
<1>2. /\ q \in [1..n -> S] /\ \A i, j \in 1..n : i # j => q[i] # q[j]
      /\ \A i, j \in DOMAIN q : i < j => key[q[i]] <= key[q[j]]
  BY DEF Sorted, SetToSeqs
<1>3. IsFiniteSet(1..n) /\ Cardinality(1..n) = n
  BY <1>1, FS_Interval
<1>4. q \in Injection(1..n, S)
  BY <1>2 DEF Injection, IsInjective
<1>5. q \in Surjection(1..n, S)
  BY <1>3, <1>4, FS_Injection
<1>6. \A s \in S : \E i \in DOMAIN q : q[i] = s
  BY <1>2, <1>5 DEF Surjection
<1> HIDE DEF n
<1>7. q \in Seq(S) /\ Len(q) = n
  BY <1>1, <1>2
<1> QED BY <1>2, <1>6, <1>7 DEF n

\* There is always one.
LEMMA SortedExists ==
  ASSUME NEW S, IsFiniteSet(S), NEW key, \A s \in S : key[s] \in Nat
  PROVE  Sorted(S, key) # {}
<1> DEFINE P == {n \in 0..Cardinality(S) : \A T \in SUBSET S : Cardinality(T) = n => Sorted(T, key) # {}}
<1>0. Cardinality(S) \in Nat /\ \A T \in SUBSET S : IsFiniteSet(T)
  BY FS_CardinalityType, FS_Subset
<1>1. 0 \in P
  <2> SUFFICES ASSUME NEW T \in SUBSET S, Cardinality(T) = 0 PROVE Sorted(T, key) # {}
    BY <1>0
  <2>1. T = {}
    BY <1>0, FS_EmptySet
  <2>2. <<>> \in Sorted(T, key)
    BY <2>1 DEF Sorted, SetToSeqs
  <2> QED BY <2>2
<1>2. ASSUME NEW n \in 1..Cardinality(S), n - 1 \in P PROVE n \in P
  <2> SUFFICES ASSUME NEW T \in SUBSET S, Cardinality(T) = n PROVE Sorted(T, key) # {}
    BY <1>0
  <2>1. PICK t \in T : TRUE
    BY <1>0, <1>2, FS_EmptySet
  <2> DEFINE I == {key[s] : s \in T}
  <2>2. I \in SUBSET Nat /\ I # {}
    BY <2>1
  <2>3. PICK k \in I : \A i \in I : k <= i
    <3> HIDE DEF I
    <3> QED BY <2>2, Least
  <2>4. PICK m \in T : k = key[m]
    BY <2>3
  <2>5. \A s \in T : key[m] <= key[s]
    BY <2>3, <2>4
  <2>6. IsFiniteSet(T \ {m}) /\ Cardinality(T \ {m}) = n - 1 /\ T \ {m} \in SUBSET S
    BY <1>0, FS_RemoveElement
  <2>7. PICK q : q \in Sorted(T \ {m}, key)
    BY <1>2, <2>6
  <2>8. /\ q \in [1..(n - 1) -> T \ {m}] /\ \A i, j \in 1..(n - 1) : q[i] = q[j] => i = j
        /\ \A i, j \in 1..(n - 1) : i < j => key[q[i]] <= key[q[j]]
    <3>1. PICK R : R = T \ {m}
      OBVIOUS
    <3>2. IsFiniteSet(R) /\ Cardinality(R) = n - 1 /\ q \in Sorted(R, key)
      BY <2>6, <2>7, <3>1
    <3> HIDE DEF I
    <3>3. /\ q \in [1..Cardinality(R) -> R]
          /\ \A i, j \in DOMAIN q : q[i] = q[j] => i = j
          /\ \A i, j \in DOMAIN q : i < j => key[q[i]] <= key[q[j]]
      BY <3>2, SortedIs
    <3>4. q \in [1..(n - 1) -> R] /\ DOMAIN q = 1..(n - 1)
      BY <3>2, <3>3
    <3> QED BY <3>1, <3>3, <3>4
  <2> DEFINE r == [i \in 1..n |-> IF i = 1 THEN m ELSE q[i - 1]]
  <2> HIDE DEF I
  <2>9. r \in [1..n -> T]
    BY <2>8
  <2>10. ASSUME NEW i \in 1..n, NEW j \in 1..n, i < j PROVE r[i] # r[j] /\ key[r[i]] <= key[r[j]]
    <3>1. r[j] = q[j - 1] /\ j - 1 \in 1..(n - 1)
      BY <2>10
    <3>2. CASE i = 1
      BY <2>5, <2>8, <3>1, <3>2
    <3>3. CASE i # 1
      <4>1. r[i] = q[i - 1] /\ i - 1 \in 1..(n - 1) /\ i - 1 < j - 1 /\ i - 1 # j - 1
        BY <2>10, <3>3
      <4> HIDE DEF r
      <4> QED BY <2>8, <3>1, <4>1
    <3> QED BY <3>2, <3>3
  <2> HIDE DEF r
  <2>11. \A i, j \in 1..n : i # j => r[i] # r[j]
    <3> SUFFICES ASSUME NEW i \in 1..n, NEW j \in 1..n, i # j PROVE r[i] # r[j]
      OBVIOUS
    <3>1. i < j \/ j < i
      OBVIOUS
    <3> QED BY <2>10, <3>1
  <2>12. DOMAIN r = 1..n
    BY <2>9
  <2>13. r \in Sorted(T, key)
    BY <2>9, <2>10, <2>11, <2>12 DEF Sorted, SetToSeqs
  <2> QED BY <2>13
<1>3. Cardinality(S) \in P
  <2> HIDE DEF P
  <2> QED BY <1>0, <1>1, <1>2, UpTo
<1> QED BY <1>3

-----------------------------------------------------------------------------
(* The memory map.                                                          *)

\* The length of a record.
LEMMA LengthIs ==
  ASSUME NEW e \in E820Entry, e.start <= e.end
  PROVE  LengthOf(e) = IF e.end - e.start = AddressSpace - 1 THEN 0 ELSE e.end - e.start + 1
<1>1. PICK s \in 0..(AddressSpace - 1) : e.start = s
  BY DEF E820Entry
<1>2. PICK t \in 0..(AddressSpace - 1) : e.end = t
  BY DEF E820Entry
<1>3. s <= t /\ LengthOf(e) = (t - s + 1) % AddressSpace
  BY <1>1, <1>2 DEF LengthOf
<1>4. AddressSpace \in Nat \ {0}
  BY E820Assumption
<1>5. CASE t - s = AddressSpace - 1
  <2>1. t - s + 1 = AddressSpace
    BY <1>3, <1>4, <1>5
  <2>2. AddressSpace % AddressSpace = 0
    BY <1>4
  <2> QED BY <1>1, <1>2, <1>3, <1>5, <2>1, <2>2
<1>6. CASE t - s # AddressSpace - 1
  <2>1. t - s + 1 \in 0..(AddressSpace - 1)
    BY <1>3, <1>4, <1>6
  <2>2. \A x \in 0..(AddressSpace - 1) : x % AddressSpace = x
    BY <1>4
  <2> QED BY <1>1, <1>2, <1>3, <1>6, <2>1, <2>2
<1> QED BY <1>5, <1>6

\* Whatever order qsort leaves records of one start in, the map covers what the
\* firmware's entries cover.
LEMMA MapIs ==
  ASSUME NEW in \in E820Inputs, NEW out \in E820ReadMap(in.dir, in.max)
  PROVE  CoversEntries(in, out)
<1> DEFINE dir == in.dir
           good == Ranges(in)
           kept == FirstOf(good, in.max)
           key == [i \in DOMAIN dir |-> dir[i].start]
           n == Cardinality(kept)
<1>1. dir \in Seq(E820Entry) /\ in.max \in Nat /\ Len(dir) \in Nat /\ DOMAIN dir = 1..Len(dir)
  BY TablesAssumption
<1>2. good = {i \in DOMAIN dir : IsRange(dir[i])} /\ good \in SUBSET (1..Len(dir))
  BY <1>1 DEF Ranges, IsRange
<1>3. PICK q \in Sorted(kept, key) : out = [k \in DOMAIN q |-> E820Record(dir[q[k]])]
  BY <1>2 DEF E820ReadMap
<1>4. kept \in SUBSET good /\ IsFiniteSet(kept) /\ n \in Nat
  <2>1. kept \in SUBSET good
    BY DEF FirstOf
  <2>2. IsFiniteSet(good)
    <3> HIDE DEF good
    <3> QED BY <1>1, <1>2, GoodIsFinite
  <2>3. IsFiniteSet(kept)
    <3> HIDE DEF good, kept
    <3> QED BY <2>1, <2>2, FS_Subset
  <2> QED BY <2>1, <2>3, FS_CardinalityType
<1>5. /\ q \in [1..n -> kept] /\ \A s \in kept : \E i \in 1..n : q[i] = s
      /\ \A i, j \in 1..n : i < j => key[q[i]] <= key[q[j]]
  <2> HIDE DEF kept, key
  <2> QED BY <1>4, SortedIs
<1>6. DOMAIN out = 1..n /\ Len(out) = n
  BY <1>3, <1>4, <1>5
<1>7. ASSUME NEW i \in 1..n
      PROVE  /\ q[i] \in good /\ dir[q[i]] \in E820Entry /\ dir[q[i]].start <= dir[q[i]].end
             /\ out[i].baseAddr = dir[q[i]].start /\ out[i].length = LengthOf(dir[q[i]])
             /\ key[q[i]] = out[i].baseAddr
  <2>1. q[i] \in good /\ q[i] \in DOMAIN dir
    BY <1>2, <1>4, <1>5
  <2>2. out[i] = E820Record(dir[q[i]])
    BY <1>3, <1>5
  <2> QED BY <1>1, <2>1, <2>2 DEF E820Record, Ranges
<1> HIDE DEF dir, good, kept, key, n
<1>8. \A i \in 1..(Len(out) - 1) : out[i].baseAddr <= out[i + 1].baseAddr
  <2> SUFFICES ASSUME NEW i \in 1..(n - 1) PROVE out[i].baseAddr <= out[i + 1].baseAddr
    BY <1>6
  <2>1. i \in 1..n /\ i + 1 \in 1..n /\ i < i + 1
    BY <1>4
  <2> QED BY <1>5, <1>7, <2>1
<1>9. ASSUME NEW x \in 0..(AddressSpace - 1), InRecord(out, x) PROVE InEntry(in, x)
  <2>1. PICK i \in 1..n : out[i].baseAddr <= x /\ x - out[i].baseAddr < out[i].length
    BY <1>6, <1>9 DEF InRecord
  <2> DEFINE e == dir[q[i]]
  <2>2. e \in E820Entry /\ e.start <= e.end /\ q[i] \in good
    BY <1>7
  <2>3. e.start <= x /\ x - e.start < LengthOf(e)
    BY <1>7, <2>1
  <2>4. x <= e.end
    <3> HIDE DEF e
    <3>1. PICK s \in 0..(AddressSpace - 1) : e.start = s
      BY <2>2 DEF E820Entry
    <3>2. PICK t \in 0..(AddressSpace - 1) : e.end = t
      BY <2>2 DEF E820Entry
    <3> QED BY <2>2, <2>3, <3>1, <3>2, LengthIs, E820Assumption
  <2> QED BY <2>2, <2>3, <2>4 DEF InEntry, good, dir
<1>10. ASSUME Cardinality(good) <= in.max,
              \A i \in good : dir[i].end - dir[i].start # AddressSpace - 1,
              NEW x \in 0..(AddressSpace - 1), InEntry(in, x)
       PROVE  InRecord(out, x)
  <2>1. kept = good
    BY <1>1, <1>2, <1>10, AllAreKept DEF kept
  <2>2. PICK j \in good : dir[j].start <= x /\ x <= dir[j].end
    BY <1>10 DEF InEntry, good, dir
  <2>3. PICK i \in 1..n : q[i] = j
    BY <1>5, <2>1
  <2> DEFINE e == dir[j]
  <2>4. e \in E820Entry /\ e.start <= e.end /\ e.start <= x /\ x <= e.end /\ e.end - e.start # AddressSpace - 1
    BY <1>7, <1>10, <2>2, <2>3
  <2>5. out[i].baseAddr = e.start /\ out[i].length = LengthOf(e)
    BY <1>7, <2>3
  <2>6. x - e.start < LengthOf(e)
    <3> HIDE DEF e
    <3>1. PICK s \in 0..(AddressSpace - 1) : e.start = s
      BY <2>4 DEF E820Entry
    <3>2. PICK t \in 0..(AddressSpace - 1) : e.end = t
      BY <2>4 DEF E820Entry
    <3> QED BY <2>4, <3>1, <3>2, LengthIs, E820Assumption
  <2> QED BY <1>6, <2>4, <2>5, <2>6 DEF InRecord
<1> QED BY <1>8, <1>9, <1>10 DEF CoversEntries, good, dir

\* There is always a map to return.
LEMMA MapExists == \A in \in E820Inputs : E820ReadMap(in.dir, in.max) # {}
<1> SUFFICES ASSUME NEW in \in E820Inputs PROVE E820ReadMap(in.dir, in.max) # {}
  OBVIOUS
<1> DEFINE good == {i \in DOMAIN in.dir : IsRange(in.dir[i])}
           kept == FirstOf(good, in.max)
           key == [i \in DOMAIN in.dir |-> in.dir[i].start]
<1>1. in.dir \in Seq(E820Entry) /\ Len(in.dir) \in Nat /\ DOMAIN in.dir = 1..Len(in.dir)
  BY TablesAssumption
<1>2. \A i \in DOMAIN in.dir : key[i] \in Nat
  <2>1. \A e \in E820Entry : e.start \in Nat
    BY E820Assumption DEF E820Entry
  <2>2. \A i \in DOMAIN in.dir : in.dir[i] \in E820Entry
    BY <1>1
  <2> QED BY <2>1, <2>2
<1>3. good \in SUBSET (1..Len(in.dir)) /\ kept \in SUBSET good
  BY <1>1 DEF FirstOf
<1>4. IsFiniteSet(kept)
  <2> HIDE DEF good, kept
  <2>1. IsFiniteSet(good)
    BY <1>1, <1>3, GoodIsFinite
  <2> QED BY <1>3, <2>1, FS_Subset
<1>5. Sorted(kept, key) # {}
  <2>1. \A s \in kept : key[s] \in Nat
    BY <1>2, <1>3
  <2> HIDE DEF kept, key
  <2> QED BY <1>4, <2>1, SortedExists
<1> HIDE DEF key
<1> QED BY <1>5 DEF E820ReadMap, key

-----------------------------------------------------------------------------
(* The address of a PCI function.                                           *)

\* What sscanf takes from the name of a directory entry.
IsName(e) == e.seg \in Nat /\ e.bus \in Nat /\ e.dev \in Nat /\ e.fun \in Nat

\* The bus of a record, a u16, has room for both.
LEMMA SegmentAndBus ==
  \A s \in 0..127, b \in 0..255 : (s * 256 + b) % 65536 = s * 256 + b
OBVIOUS

\* Whichever of the listed devices is picked in cfdk, the file the server opens
\* for the address cfdk asks for is that of this very device: packing the
\* segment into the high byte of the bus and the function into an address loses
\* nothing of a device the listing lets through.
THEOREM PickedIsOpened ==
  ASSUME NEW e, IsName(e), Fits(e)
  PROVE  PciSysfsConfigPath(CalculatePciAddress(PciRecord(e))) = NameOf(e)
<1> DEFINE s == e.seg
           b == e.bus
           d == e.dev
           f == e.fun
           a == s * 16777216 + b * 65536 + d * 2048 + f * 256
<1>1. s \in 0..127 /\ b \in 0..255 /\ d \in 0..31 /\ f \in 0..7
  BY DEF IsName, Fits, PCI_SEG_MASK, PCI_BUS_MASK, PCI_DEV_MASK, PCI_FUNC_MASK
<1>2. /\ PciRecord(e).bus = (s * 256 + b) % 65536 /\ PciRecord(e).dev = d /\ PciRecord(e).fun = f
  BY DEF PciRecord
<1>3. NameOf(e) = [seg |-> s, bus |-> b, dev |-> d, fun |-> f]
  BY DEF NameOf
<1> HIDE DEF s, b, d, f
<1>4. CalculatePciAddress(PciRecord(e)) = a
  <2>1. (s * 256 + b) % 65536 = s * 256 + b
    BY <1>1, SegmentAndBus
  <2>2. (s * 256 + b) % 32768 = s * 256 + b
    BY <1>1
  <2>3. d % 32 = d /\ f % 8 = f
    BY <1>1
  <2> QED BY <1>1, <1>2, <2>1, <2>2, <2>3 DEF CalculatePciAddress
<1>5. /\ (a \div 16777216) % 128 = s
      /\ (a \div 65536) % 256 = b
      /\ (a \div 2048) % 32 = d
      /\ (a \div 256) % 8 = f
  <2>1. a \div 16777216 = s /\ s % 128 = s
    BY <1>1
  <2>2. a \div 65536 = s * 256 + b /\ (s * 256 + b) % 256 = b
    BY <1>1
  <2>3. a \div 2048 = s * 8192 + b * 32 + d /\ (s * 8192 + b * 32 + d) % 32 = d
    BY <1>1
  <2>4. a \div 256 = s * 65536 + b * 256 + d * 8 + f /\ (s * 65536 + b * 256 + d * 8 + f) % 8 = f
    BY <1>1
  <2> QED BY <2>1, <2>2, <2>3, <2>4
<1> HIDE DEF a
<1> QED BY <1>3, <1>4, <1>5 DEF PciSysfsConfigPath

\* The key of a device: nothing of it is cut off.
LEMMA KeyOfDevice ==
  ASSUME NEW x, IsName(x), Fits(x)
  PROVE  /\ x.seg \in 0..127 /\ x.bus \in 0..255 /\ x.dev \in 0..31 /\ x.fun \in 0..7
         /\ PciKey(PciRecord(x)) = (x.seg * 256 + x.bus) * 256 + x.dev * 8 + x.fun
<1>1. x.seg \in 0..127 /\ x.bus \in 0..255 /\ x.dev \in 0..31 /\ x.fun \in 0..7
  BY DEF IsName, Fits, PCI_SEG_MASK, PCI_BUS_MASK, PCI_DEV_MASK, PCI_FUNC_MASK
<1>2. (x.seg * 256 + x.bus) % 65536 = x.seg * 256 + x.bus
  <2>1. PICK s \in 0..127, b \in 0..255 : x.seg = s /\ x.bus = b
    BY <1>1
  <2>2. (s * 256 + b) % 65536 = s * 256 + b
    BY SegmentAndBus
  <2> QED BY <2>1, <2>2
<1> QED BY <1>1, <1>2 DEF PciKey, PciRecord

\* What pciComparePciDev takes for no greater is before in the order of segment,
\* bus, device and function, or the same device.
LEMMA KeysOrder ==
  ASSUME NEW e, IsName(e), Fits(e), NEW g, IsName(g), Fits(g),
         PciKey(PciRecord(e)) <= PciKey(PciRecord(g))
  PROVE  Before(NameOf(e), NameOf(g)) \/ NameOf(e) = NameOf(g)
<1>0. /\ e.seg \in 0..127 /\ e.bus \in 0..255 /\ e.dev \in 0..31 /\ e.fun \in 0..7
      /\ PciKey(PciRecord(e)) = (e.seg * 256 + e.bus) * 256 + e.dev * 8 + e.fun
      /\ g.seg \in 0..127 /\ g.bus \in 0..255 /\ g.dev \in 0..31 /\ g.fun \in 0..7
      /\ PciKey(PciRecord(g)) = (g.seg * 256 + g.bus) * 256 + g.dev * 8 + g.fun
  BY KeyOfDevice
<1>1. PICK s \in 0..127, b \in 0..255, d \in 0..31, f \in 0..7 :
        e.seg = s /\ e.bus = b /\ e.dev = d /\ e.fun = f
  BY <1>0
<1>2. PICK t \in 0..127, c \in 0..255, h \in 0..31, k \in 0..7 :
        g.seg = t /\ g.bus = c /\ g.dev = h /\ g.fun = k
  BY <1>0
<1>3. /\ PciKey(PciRecord(e)) = (s * 256 + b) * 256 + d * 8 + f
      /\ PciKey(PciRecord(g)) = (t * 256 + c) * 256 + h * 8 + k
  BY <1>0, <1>1, <1>2
<1>4. (s * 256 + b) * 256 + d * 8 + f <= (t * 256 + c) * 256 + h * 8 + k
  BY <1>3
<1>5. \/ s < t \/ (s = t /\ b < c) \/ (s = t /\ b = c /\ d < h) \/ (s = t /\ b = c /\ d = h /\ f < k)
      \/ (s = t /\ b = c /\ d = h /\ f = k)
  BY <1>4
<1>6. /\ NameOf(e) = [seg |-> s, bus |-> b, dev |-> d, fun |-> f]
      /\ NameOf(g) = [seg |-> t, bus |-> c, dev |-> h, fun |-> k]
  BY <1>1, <1>2 DEF NameOf
<1> QED BY <1>5, <1>6 DEF Before

\* The order of the listing tells any two devices apart: pciComparePciDev finds
\* two entries equal only when they name the same function.
THEOREM KeysTellDevices ==
  ASSUME NEW e, IsName(e), Fits(e), NEW g, IsName(g), Fits(g),
         PciKey(PciRecord(e)) = PciKey(PciRecord(g))
  PROVE  NameOf(e) = NameOf(g)
<1>1. PciKey(PciRecord(e)) \in Nat
  <2>1. /\ e.seg \in 0..127 /\ e.bus \in 0..255 /\ e.dev \in 0..31 /\ e.fun \in 0..7
        /\ PciKey(PciRecord(e)) = (e.seg * 256 + e.bus) * 256 + e.dev * 8 + e.fun
    BY KeyOfDevice
  <2>2. PICK s \in 0..127, b \in 0..255, d \in 0..31, f \in 0..7 :
          e.seg = s /\ e.bus = b /\ e.dev = d /\ e.fun = f
    BY <2>1
  <2> QED BY <2>1, <2>2
<1>2. PciKey(PciRecord(e)) <= PciKey(PciRecord(g)) /\ PciKey(PciRecord(g)) <= PciKey(PciRecord(e))
  BY <1>1
<1>3. /\ Before(NameOf(e), NameOf(g)) \/ NameOf(e) = NameOf(g)
      /\ Before(NameOf(g), NameOf(e)) \/ NameOf(g) = NameOf(e)
  BY <1>2, KeysOrder, Zenon
<1>4. NameOf(e).seg \in Nat /\ NameOf(e).bus \in Nat /\ NameOf(e).dev \in Nat /\ NameOf(e).fun \in Nat
  BY DEF NameOf, IsName
<1>5. NameOf(g).seg \in Nat /\ NameOf(g).bus \in Nat /\ NameOf(g).dev \in Nat /\ NameOf(g).fun \in Nat
  BY DEF NameOf, IsName
<1> QED BY <1>3, <1>4, <1>5 DEF Before

\* What pciListSysfs keeps, and what pciListLegacy finds, are the places of the
\* devices that should be shown, and there are as many as there are devices.
LEMMA PlacesAreShown ==
  ASSUME NEW in \in PciInputs
  PROVE  /\ in.dir \in Seq(PciEntry) /\ in.max \in Nat /\ Len(in.dir) \in Nat /\ DOMAIN in.dir = 1..Len(in.dir)
         /\ Shown(in) \in SUBSET (1..Len(in.dir))
         /\ \A i \in Shown(in) : IsName(in.dir[i]) /\ Fits(in.dir[i])
         /\ \A i, j \in Shown(in) : NameOf(in.dir[i]) = NameOf(in.dir[j]) => i = j
         /\ Cardinality(Present(in)) = Cardinality(Shown(in))
         /\ ~in.legacy => {i \in DOMAIN in.dir : Fits(in.dir[i]) /\ in.dir[i].ok} = Shown(in)
         /\ in.legacy => {i \in DOMAIN in.dir : /\ Fits(in.dir[i]) /\ in.dir[i].ok /\ in.dir[i].seg = 0
                                                /\ KeysOf(in.dir)[i] < in.reach} = Shown(in)
<1> DEFINE S == Shown(in)
           f == [i \in S |-> NameOf(in.dir[i])]
<1>1. /\ in.dir \in Seq(PciEntry) /\ in.max \in Nat /\ Len(in.dir) \in Nat /\ DOMAIN in.dir = 1..Len(in.dir)
      /\ in.legacy \in BOOLEAN /\ in.reach \in Nat
      /\ \A i, j \in DOMAIN in.dir : NameOf(in.dir[i]) = NameOf(in.dir[j]) => i = j
  BY TablesAssumption
<1>2. \A i \in DOMAIN in.dir : in.dir[i] \in PciEntry
  BY <1>1
<1>3. \A e \in PciEntry : IsName(e) /\ e.ok \in BOOLEAN
  BY DEF PciEntry, IsName
<1>4. \A e \in PciEntry : Fits(e) <=> e.seg < 128 /\ e.bus < 256 /\ e.dev < 32 /\ e.fun < 8
  BY DEF PciEntry, Fits, PCI_SEG_MASK, PCI_BUS_MASK, PCI_DEV_MASK, PCI_FUNC_MASK
<1>5. S \in SUBSET (1..Len(in.dir)) /\ \A i \in S : IsName(in.dir[i]) /\ Fits(in.dir[i])
  BY <1>1, <1>2, <1>3, <1>4 DEF Shown
<1>6. Cardinality(Present(in)) = Cardinality(S)
  <2>1. Present(in) = {f[i] : i \in S}
    BY DEF Present
  <2> DEFINE T == Present(in)
  <2>2. f \in Bijection(S, T)
    <3>1. f \in [S -> T] /\ \A t \in T : \E i \in S : f[i] = t
      BY <2>1
    <3>2. \A i, j \in S : f[i] = f[j] => i = j
      BY <1>1, <1>5
    <3> HIDE DEF f, S, T
    <3> QED BY <3>1, <3>2 DEF Bijection, Injection, Surjection, IsInjective
  <2>3. IsFiniteSet(S)
    <3> HIDE DEF S
    <3> QED BY <1>1, <1>5, GoodIsFinite
  <2> HIDE DEF f, S, T
  <2>4. ExistsBijection(S, T)
    BY <2>2 DEF ExistsBijection
  <2>5. Cardinality(T) = Cardinality(S)
    BY <2>3, <2>4, FS_Bijection
  <2> QED BY <2>5 DEF T
<1>7. ~in.legacy => {i \in DOMAIN in.dir : Fits(in.dir[i]) /\ in.dir[i].ok} = S
  BY <1>2, <1>4 DEF Shown
<1>8. in.legacy => {i \in DOMAIN in.dir : /\ Fits(in.dir[i]) /\ in.dir[i].ok /\ in.dir[i].seg = 0
                                          /\ KeysOf(in.dir)[i] < in.reach} = S
  <2> SUFFICES ASSUME in.legacy, NEW i \in DOMAIN in.dir
               PROVE  Fits(in.dir[i]) /\ in.dir[i].ok /\ in.dir[i].seg = 0 /\ KeysOf(in.dir)[i] < in.reach
                      <=> i \in S
    BY <1>1, <1>5
  <2> DEFINE e == in.dir[i]
  <2>1. e \in PciEntry /\ KeysOf(in.dir)[i] = PciKey(PciRecord(e))
    BY <1>2 DEF KeysOf
  <2>2. i \in S <=> /\ e.ok /\ Fits(e) /\ e.seg = 0
                    /\ (e.bus * 32 + e.dev) * 8 + e.fun < in.reach
    BY <1>2, <1>4 DEF Shown
  <2> HIDE DEF e
  <2>3. Fits(e) /\ e.seg = 0 => PciKey(PciRecord(e)) = (e.bus * 32 + e.dev) * 8 + e.fun
    <3> SUFFICES ASSUME Fits(e), e.seg = 0 PROVE PciKey(PciRecord(e)) = (e.bus * 32 + e.dev) * 8 + e.fun
      OBVIOUS
    <3>1. PICK b \in 0..255, d \in 0..31, g \in 0..7 : e.bus = b /\ e.dev = d /\ e.fun = g
      <4>1. IsName(e)
        BY <2>1, <1>3
      <4>2. e.bus \in 0..255 /\ e.dev \in 0..31 /\ e.fun \in 0..7
        BY <4>1, KeyOfDevice
      <4> QED BY <4>2
    <3>2. PciRecord(e).bus = (0 * 256 + b) % 65536 /\ PciRecord(e).dev = d /\ PciRecord(e).fun = g
      BY <3>1 DEF PciRecord
    <3>3. (0 * 256 + b) % 65536 = b
      BY SegmentAndBus
    <3> QED BY <3>1, <3>2, <3>3 DEF PciKey
  <2> QED BY <2>1, <2>2, <2>3 DEF e
<1> QED BY <1>1, <1>5, <1>6, <1>7, <1>8

\* Records of m shown places in the order of their keys are such a listing.
LEMMA RecordsAreDevices ==
  ASSUME NEW in \in PciInputs, NEW m \in Nat, NEW p \in [1..m -> Shown(in)],
         \A i, j \in 1..m : i < j => p[i] # p[j] /\ KeysOf(in.dir)[p[i]] <= KeysOf(in.dir)[p[j]],
         m = IF Cardinality(Shown(in)) < in.max THEN Cardinality(Shown(in)) ELSE in.max
  PROVE  ListsDevices(in, RecordsOf(in.dir, p))
<1> DEFINE out == RecordsOf(in.dir, p)
<1>1. DOMAIN out = 1..m /\ Len(out) = m
  BY DEF RecordsOf
<1>2. ASSUME NEW i \in 1..m
      PROVE  /\ out[i] = PciRecord(in.dir[p[i]]) /\ out[i].ids = NameOf(in.dir[p[i]])
             /\ p[i] \in Shown(in) /\ KeysOf(in.dir)[p[i]] = PciKey(PciRecord(in.dir[p[i]]))
  <2>1. p[i] \in Shown(in) /\ p[i] \in DOMAIN in.dir
    BY PlacesAreShown
  <2>2. out[i] = PciRecord(in.dir[p[i]])
    BY DEF RecordsOf
  <2>3. PciRecord(in.dir[p[i]]).ids = NameOf(in.dir[p[i]])
    BY DEF PciRecord
  <2>4. KeysOf(in.dir)[p[i]] = PciKey(PciRecord(in.dir[p[i]]))
    BY <2>1 DEF KeysOf
  <2> HIDE DEF out
  <2> QED BY <2>1, <2>2, <2>3, <2>4
<1> HIDE DEF out
<1>3. ASSUME NEW i \in 1..m
      PROVE  out[i].ids \in Present(in) /\ PciSysfsConfigPath(CalculatePciAddress(out[i])) = out[i].ids
  <2>1. p[i] \in Shown(in) /\ IsName(in.dir[p[i]]) /\ Fits(in.dir[p[i]])
    BY <1>2, PlacesAreShown
  <2>2. out[i].ids \in Present(in)
    BY <1>2, <2>1 DEF Present
  <2>3. PciSysfsConfigPath(CalculatePciAddress(PciRecord(in.dir[p[i]]))) = NameOf(in.dir[p[i]])
    BY <2>1, PickedIsOpened
  <2> QED BY <1>2, <2>2, <2>3
<1>4. ASSUME NEW i \in 1..m, NEW j \in 1..m, i < j PROVE Before(out[i].ids, out[j].ids)
  <2> DEFINE e == in.dir[p[i]]
             g == in.dir[p[j]]
  <2>1. IsName(e) /\ Fits(e) /\ IsName(g) /\ Fits(g)
    BY <1>2, PlacesAreShown
  <2>2. NameOf(e) # NameOf(g) /\ PciKey(PciRecord(e)) <= PciKey(PciRecord(g))
    BY <1>2, <1>4, PlacesAreShown
  <2>3. out[i].ids = NameOf(e) /\ out[j].ids = NameOf(g)
    BY <1>2
  <2> HIDE DEF e, g
  <2> QED BY <2>1, <2>2, <2>3, KeysOrder
<1>5. Cardinality(Present(in)) = Cardinality(Shown(in))
  BY PlacesAreShown
<1> QED BY <1>1, <1>3, <1>4, <1>5 DEF ListsDevices, out

\* The listing from sysfs, in whatever order readdir gives the entries.
LEMMA SysfsIs ==
  ASSUME NEW in \in PciInputs, ~in.legacy, NEW out \in PciListSysfs(in.dir, in.max)
  PROVE  ListsDevices(in, out)
<1> DEFINE S == Shown(in)
           kept == FirstOf(S, in.max)
           n == Cardinality(kept)
<1>1. /\ in.max \in Nat /\ Len(in.dir) \in Nat /\ S \in SUBSET (1..Len(in.dir))
      /\ {i \in DOMAIN in.dir : Fits(in.dir[i]) /\ in.dir[i].ok} = S
  BY PlacesAreShown
<1>2. PICK q \in Sorted(kept, KeysOf(in.dir)) : out = RecordsOf(in.dir, q)
  BY <1>1 DEF PciListSysfs
<1> HIDE DEF S, kept
<1>3. /\ kept \in SUBSET S /\ IsFiniteSet(S)
      /\ n = IF Cardinality(S) < in.max THEN Cardinality(S) ELSE in.max
  <2>1. IsFiniteSet(S)
    BY <1>1, GoodIsFinite
  <2>2. PICK max \in Nat, N \in Nat : max = in.max /\ N = Len(in.dir)
    BY <1>1
  <2>3. S \in SUBSET (1..N) /\ kept = FirstOf(S, max)
    BY <1>1, <2>2 DEF kept
  <2>4. kept \in SUBSET S /\ Cardinality(kept) = IF Cardinality(S) < max THEN Cardinality(S) ELSE max
    BY <2>3, HowManyAreKept, Zenon
  <2> QED BY <2>1, <2>2, <2>4
<1>4. IsFiniteSet(kept) /\ n \in Nat
  BY <1>3, FS_Subset, FS_CardinalityType
<1>5. /\ q \in [1..n -> kept] /\ \A i, j \in 1..n : q[i] = q[j] => i = j
      /\ \A i, j \in 1..n : i < j => KeysOf(in.dir)[q[i]] <= KeysOf(in.dir)[q[j]]
  BY <1>4, SortedIs
<1> HIDE DEF n
<1>6. q \in [1..n -> S] /\ \A i, j \in 1..n : i < j => q[i] # q[j] /\ KeysOf(in.dir)[q[i]] <= KeysOf(in.dir)[q[j]]
  BY <1>3, <1>4, <1>5
<1> QED BY <1>2, <1>3, <1>4, <1>6, RecordsAreDevices DEF S

\* The listing through the ports is the first of the devices found.
LEMMA LegacyIs ==
  ASSUME NEW in \in PciInputs, in.legacy, NEW out \in PciListLegacy(in.dir, in.max, in.reach)
  PROVE  ListsDevices(in, out)
<1> DEFINE S == Shown(in)
           n == Cardinality(S)
           m == IF n < in.max THEN n ELSE in.max
<1>1. /\ in.max \in Nat /\ Len(in.dir) \in Nat /\ S \in SUBSET (1..Len(in.dir))
      /\ {i \in DOMAIN in.dir : /\ Fits(in.dir[i]) /\ in.dir[i].ok /\ in.dir[i].seg = 0
                                /\ KeysOf(in.dir)[i] < in.reach} = S
  BY PlacesAreShown
<1>2. PICK q \in Sorted(S, KeysOf(in.dir)) :
        out = RecordsOf(in.dir, SubSeq(q, 1, IF Len(q) < in.max THEN Len(q) ELSE in.max))
  BY <1>1 DEF PciListLegacy
<1> HIDE DEF S
<1>3. IsFiniteSet(S) /\ n \in Nat
  BY <1>1, GoodIsFinite
<1>4. /\ q \in [1..n -> S] /\ q \in Seq(S) /\ Len(q) = n /\ \A i, j \in 1..n : q[i] = q[j] => i = j
      /\ \A i, j \in 1..n : i < j => KeysOf(in.dir)[q[i]] <= KeysOf(in.dir)[q[j]]
  BY <1>3, SortedIs
<1>5. m \in Nat /\ m <= n
  BY <1>1, <1>3
<1> DEFINE p == SubSeq(q, 1, m)
<1>6. out = RecordsOf(in.dir, p)
  BY <1>2, <1>4
<1> HIDE DEF n, m
<1>7. p \in [1..m -> S] /\ \A i \in 1..m : p[i] = q[i] /\ i \in 1..n
  <2>1. \A i \in 1..m : i \in 1..n
    BY <1>3, <1>5
  <2>2. p = [i \in 1..m |-> q[i]]
    BY <1>3, <1>4, <1>5
  <2> QED BY <1>4, <2>1, <2>2
<1> HIDE DEF p
<1>8. \A i, j \in 1..m : i < j => p[i] # p[j] /\ KeysOf(in.dir)[p[i]] <= KeysOf(in.dir)[p[j]]
  <2> SUFFICES ASSUME NEW i \in 1..m, NEW j \in 1..m, i < j
               PROVE  p[i] # p[j] /\ KeysOf(in.dir)[p[i]] <= KeysOf(in.dir)[p[j]]
    OBVIOUS
  <2>1. p[i] = q[i] /\ p[j] = q[j] /\ i \in 1..n /\ j \in 1..n /\ i # j
    BY <1>7
  <2> QED BY <1>4, <2>1
<1> QED BY <1>5, <1>6, <1>7, <1>8, RecordsAreDevices DEF S, m, n

\* There is always a listing.
LEMMA ListingExists ==
  ASSUME NEW in \in PciInputs
  PROVE  PciListSysfs(in.dir, in.max) # {} /\ PciListLegacy(in.dir, in.max, in.reach) # {}
<1> DEFINE dir == in.dir
           F == {i \in DOMAIN dir : Fits(dir[i]) /\ dir[i].ok}
           L == {i \in DOMAIN dir : Fits(dir[i]) /\ dir[i].ok /\ dir[i].seg = 0 /\ KeysOf(dir)[i] < in.reach}
           K == FirstOf(F, in.max)
<1>1. dir \in Seq(PciEntry) /\ Len(dir) \in Nat /\ DOMAIN dir = 1..Len(dir)
  BY PlacesAreShown
<1>2. F \in SUBSET (1..Len(dir)) /\ L \in SUBSET (1..Len(dir)) /\ K \in SUBSET F
  BY <1>1 DEF FirstOf
<1>3. \A i \in 1..Len(dir) : KeysOf(dir)[i] \in Nat
  <2> SUFFICES ASSUME NEW i \in 1..Len(dir) PROVE KeysOf(dir)[i] \in Nat
    OBVIOUS
  <2>1. dir[i] \in PciEntry /\ KeysOf(dir)[i] = PciKey(PciRecord(dir[i]))
    BY <1>1 DEF KeysOf
  <2> DEFINE e == dir[i]
  <2>2. PICK s \in Nat, b \in Nat, d \in Nat, f \in Nat : e.seg = s /\ e.bus = b /\ e.dev = d /\ e.fun = f
    BY <2>1 DEF PciEntry
  <2>3. PciRecord(e).bus = (s * 256 + b) % 65536 /\ PciRecord(e).dev = d /\ PciRecord(e).fun = f
    BY <2>2 DEF PciRecord
  <2>4. (s * 256 + b) % 65536 \in Nat
    OBVIOUS
  <2>5. PciKey(PciRecord(e)) \in Nat
    BY <2>3, <2>4 DEF PciKey
  <2> QED BY <2>1, <2>5
<1> HIDE DEF F, L, K, dir
<1>4. IsFiniteSet(K) /\ IsFiniteSet(L)
  <2>1. IsFiniteSet(F) /\ IsFiniteSet(L)
    BY <1>1, <1>2, GoodIsFinite
  <2> QED BY <1>2, <2>1, FS_Subset
<1>5. PICK q \in Sorted(K, KeysOf(dir)) : TRUE
  <2>1. \A s \in K : KeysOf(dir)[s] \in Nat
    BY <1>2, <1>3
  <2> QED BY <1>4, <2>1, SortedExists
<1>6. PICK r \in Sorted(L, KeysOf(dir)) : TRUE
  <2>1. \A s \in L : KeysOf(dir)[s] \in Nat
    BY <1>2, <1>3
  <2> QED BY <1>4, <2>1, SortedExists
<1>7. RecordsOf(dir, q) \in PciListSysfs(dir, in.max)
  BY <1>5 DEF PciListSysfs, K, F
<1>8. RecordsOf(dir, SubSeq(r, 1, IF Len(r) < in.max THEN Len(r) ELSE in.max))
        \in PciListLegacy(dir, in.max, in.reach)
  BY <1>6 DEF PciListLegacy, L
<1> QED BY <1>7, <1>8 DEF dir

-----------------------------------------------------------------------------
(* The arguments of memvr.                                                  *)

\* The recursion of Number.
LEMMA NumberIs ==
  ASSUME NEW d \in Seq(Nat)
  PROVE  \E f : /\ f[0] = 0 /\ \A n \in 1..Len(d) : f[n] = f[n - 1] * 16 + d[n]
                /\ \A n \in 0..Len(d) : f[n] \in Nat
                /\ Number(d) = f[Len(d)]
<1> DEFINE N == Len(d)
           g == [n \in 1..N |-> [v \in Nat |-> v * 16 + d[n]]]
<1>1. N \in Nat /\ \A n \in 1..N : d[n] \in Nat
  OBVIOUS
<1>2. PICK f : IsRecursive(f, N, 0, g)
  <2> HIDE DEF g, N
  <2> QED BY <1>1, Recursion, Zenon
<1>3. f[0] = 0 /\ \A n \in 1..N : f[n] = g[n][f[n - 1]]
  <2>1. 0 \in 0..N /\ \A n \in 1..N : n \in 0..N /\ n # 0
    BY <1>1
  <2> HIDE DEF g, N
  <2> QED BY <1>2, <2>1 DEF IsRecursive
<1>4. \A n \in 0..N : f[n] \in Nat
  <2> DEFINE P == {n \in 0..N : f[n] \in Nat}
  <2>1. 0 \in P
    BY <1>1, <1>3
  <2>2. ASSUME NEW n \in 1..N, n - 1 \in P PROVE n \in P
    <3>1. f[n] = f[n - 1] * 16 + d[n] /\ f[n - 1] \in Nat /\ d[n] \in Nat
      BY <1>1, <1>3, <2>2
    <3> QED BY <3>1
  <2>3. \A n \in 0..N : n \in P
    <3> HIDE DEF P, N
    <3> QED BY <1>1, <2>1, <2>2, UpTo
  <2> QED BY <2>3
<1>5. ASSUME NEW n \in 1..N PROVE f[n] = f[n - 1] * 16 + d[n]
  <2>1. n - 1 \in 0..N
    BY <1>1
  <2>2. f[n] = g[n][f[n - 1]] /\ f[n - 1] \in Nat
    BY <1>3, <1>4, <2>1
  <2> QED BY <2>2
<1>6. f = [n \in 0..N |-> IF n = 0 THEN 0 ELSE f[n - 1] * 16 + d[n]]
  <2>1. f = [n \in 0..N |-> f[n]]
    BY <1>2 DEF IsRecursive
  <2>2. \A n \in 0..N : n = 0 \/ n \in 1..N
    BY <1>1
  <2> HIDE DEF g, N
  <2> QED BY <1>3, <1>5, <2>1, <2>2
<1> DEFINE v == CHOOSE h : h = [n \in 0..N |-> IF n = 0 THEN 0 ELSE h[n - 1] * 16 + d[n]]
<1>7. v = [n \in 0..N |-> IF n = 0 THEN 0 ELSE v[n - 1] * 16 + d[n]]
  <2> HIDE DEF g, N
  <2> QED BY <1>6, Zenon
<1>8. Number(d) = v[N]
  BY DEF Number
<1> HIDE DEF v
<1>9. v[0] = 0 /\ \A n \in 1..N : v[n] = v[n - 1] * 16 + d[n]
  <2>1. 0 \in 0..N /\ \A n \in 1..N : n \in 0..N /\ n # 0
    BY <1>1
  <2> HIDE DEF g, N
  <2> QED BY <1>7, <2>1
<1>10. \A n \in 0..N : v[n] \in Nat
  <2> DEFINE P == {n \in 0..N : v[n] \in Nat}
  <2>1. 0 \in P
    BY <1>1, <1>9
  <2>2. ASSUME NEW n \in 1..N, n - 1 \in P PROVE n \in P
    <3>1. v[n] = v[n - 1] * 16 + d[n] /\ v[n - 1] \in Nat
      BY <1>1, <1>9, <2>2
    <3> QED BY <1>1, <3>1
  <2>3. \A n \in 0..N : n \in P
    <3> HIDE DEF P, N
    <3> QED BY <1>1, <2>1, <2>2, UpTo
  <2> QED BY <2>3
<1> QED BY <1>8, <1>9, <1>10

\* The recursion of Values.
LEMMA ValuesIs ==
  \E f : /\ f[0] = 1 /\ \A n \in 1..MaxDigits : f[n] = f[n - 1] * 16
         /\ \A n \in 0..MaxDigits : f[n] \in Nat
         /\ Values = f[MaxDigits]
<1> DEFINE g == [n \in 1..MaxDigits |-> [v \in Nat |-> v * 16]]
<1>1. MaxDigits \in Nat
  BY ArgumentsAssumption
<1>2. PICK f : IsRecursive(f, MaxDigits, 1, g)
  <2> HIDE DEF g
  <2> QED BY <1>1, Recursion, Zenon
<1>3. f[0] = 1 /\ \A n \in 1..MaxDigits : f[n] = g[n][f[n - 1]]
  <2>1. 0 \in 0..MaxDigits /\ \A n \in 1..MaxDigits : n \in 0..MaxDigits /\ n # 0
    BY <1>1
  <2> HIDE DEF g
  <2> QED BY <1>2, <2>1 DEF IsRecursive
<1>4. \A n \in 0..MaxDigits : f[n] \in Nat
  <2> DEFINE P == {n \in 0..MaxDigits : f[n] \in Nat}
  <2>1. 0 \in P
    BY <1>1, <1>3
  <2>2. ASSUME NEW n \in 1..MaxDigits, n - 1 \in P PROVE n \in P
    <3>1. f[n] = f[n - 1] * 16 /\ f[n - 1] \in Nat
      BY <1>1, <1>3, <2>2
    <3> QED BY <3>1
  <2>3. \A n \in 0..MaxDigits : n \in P
    <3> HIDE DEF P
    <3> QED BY <1>1, <2>1, <2>2, UpTo
  <2> QED BY <2>3
<1>5. ASSUME NEW n \in 1..MaxDigits PROVE f[n] = f[n - 1] * 16
  <2>1. n - 1 \in 0..MaxDigits
    BY <1>1
  <2>2. f[n] = g[n][f[n - 1]] /\ f[n - 1] \in Nat
    BY <1>3, <1>4, <2>1
  <2> QED BY <2>2
<1>6. f = [n \in 0..MaxDigits |-> IF n = 0 THEN 1 ELSE f[n - 1] * 16]
  <2>1. f = [n \in 0..MaxDigits |-> f[n]]
    BY <1>2 DEF IsRecursive
  <2>2. \A n \in 0..MaxDigits : n = 0 \/ n \in 1..MaxDigits
    BY <1>1
  <2> HIDE DEF g
  <2> QED BY <1>3, <1>5, <2>1, <2>2
<1> DEFINE v == CHOOSE h : h = [n \in 0..MaxDigits |-> IF n = 0 THEN 1 ELSE h[n - 1] * 16]
<1>7. v = [n \in 0..MaxDigits |-> IF n = 0 THEN 1 ELSE v[n - 1] * 16]
  <2> HIDE DEF g
  <2> QED BY <1>6, Zenon
<1>8. Values = v[MaxDigits]
  BY DEF Values
<1> HIDE DEF v
<1>9. v[0] = 1 /\ \A n \in 1..MaxDigits : v[n] = v[n - 1] * 16
  <2>1. 0 \in 0..MaxDigits /\ \A n \in 1..MaxDigits : n \in 0..MaxDigits /\ n # 0
    BY <1>1
  <2> HIDE DEF g
  <2> QED BY <1>7, <2>1
<1>10. \A n \in 0..MaxDigits : v[n] \in Nat
  <2> DEFINE P == {n \in 0..MaxDigits : v[n] \in Nat}
  <2>1. 0 \in P
    BY <1>1, <1>9
  <2>2. ASSUME NEW n \in 1..MaxDigits, n - 1 \in P PROVE n \in P
    <3>1. v[n] = v[n - 1] * 16 /\ v[n - 1] \in Nat
      BY <1>1, <1>9, <2>2
    <3> QED BY <1>1, <3>1
  <2>3. \A n \in 0..MaxDigits : n \in P
    <3> HIDE DEF P
    <3> QED BY <1>1, <2>1, <2>2, UpTo
  <2> QED BY <2>3
<1> QED BY <1>8, <1>9, <1>10

\* No text of MaxDigits hex digits is too large for an unsigned long long.
LEMMA NumberFits ==
  ASSUME NEW d \in Seq(0..15), Len(d) <= MaxDigits
  PROVE  Values \in Nat /\ Number(d) \in Nat /\ Number(d) < Values
<1> DEFINE N == Len(d)
<1>1. d \in Seq(Nat) /\ N \in Nat /\ \A n \in 1..N : d[n] \in 0..15
  OBVIOUS
<1>2. MaxDigits \in Nat
  BY ArgumentsAssumption
<1>3. PICK f : /\ f[0] = 0 /\ \A n \in 1..N : f[n] = f[n - 1] * 16 + d[n]
               /\ \A n \in 0..N : f[n] \in Nat
               /\ Number(d) = f[N]
  BY <1>1, NumberIs
<1>4. PICK p : /\ p[0] = 1 /\ \A n \in 1..MaxDigits : p[n] = p[n - 1] * 16
               /\ \A n \in 0..MaxDigits : p[n] \in Nat
               /\ Values = p[MaxDigits]
  BY ValuesIs
<1> HIDE DEF N
<1>5. N <= MaxDigits /\ 0 \in 0..N /\ \A n \in 0..N : n \in 0..MaxDigits
  BY <1>1, <1>2 DEF N
<1>6. \A n \in 0..N : f[n] < p[n]
  <2> DEFINE P == {n \in 0..N : f[n] < p[n]}
  <2>1. 0 \in P
    BY <1>3, <1>4, <1>5
  <2>2. ASSUME NEW n \in 1..N, n - 1 \in P PROVE n \in P
    <3>1. n \in 0..N /\ n \in 1..MaxDigits /\ n - 1 \in 0..N
      BY <1>1, <1>2, <1>5
    <3>2. PICK a \in Nat, b \in Nat : a = f[n - 1] /\ b = p[n - 1] /\ a < b
      BY <1>3, <1>4, <1>5, <2>2, <3>1
    <3>3. PICK c \in 0..15 : c = d[n]
      BY <1>1
    <3>4. f[n] = a * 16 + c /\ p[n] = b * 16
      BY <1>3, <1>4, <3>1, <3>2, <3>3
    <3>5. f[n] < p[n]
      <4>1. a * 16 + c < b * 16
        BY <3>2
      <4> QED BY <3>4, <4>1
    <3> QED BY <3>1, <3>5
  <2>3. \A n \in 0..N : n \in P
    <3> HIDE DEF P
    <3> QED BY <1>1, <2>1, <2>2, UpTo
  <2> QED BY <2>3
<1>7. PICK a \in Nat : a = f[N]
  BY <1>1, <1>3
<1>8. \A n \in 0..MaxDigits : n >= N => a < p[n]
  <2> DEFINE P == {n \in 0..MaxDigits : n >= N => a < p[n]}
  <2>1. 0 \in P
    BY <1>1, <1>2, <1>5, <1>6, <1>7
  <2>2. ASSUME NEW n \in 1..MaxDigits, n - 1 \in P PROVE n \in P
    <3>1. PICK b \in Nat : b = p[n - 1] /\ p[n] = b * 16
      BY <1>2, <1>4, <2>2
    <3>2. n - 1 >= N => a < b
      BY <2>2, <3>1
    <3>3. n = N => a < p[n]
      BY <1>1, <1>6, <1>7
    <3>4. n >= N => a < p[n]
      BY <1>1, <3>1, <3>2, <3>3
    <3> QED BY <3>4
  <2>3. \A n \in 0..MaxDigits : n \in P
    <3> HIDE DEF P
    <3> QED BY <1>2, <2>1, <2>2, UpTo
  <2> QED BY <2>3
<1>9. MaxDigits \in 0..MaxDigits /\ MaxDigits >= N
  BY <1>2, <1>5
<1> QED BY <1>3, <1>4, <1>7, <1>8, <1>9

\* The first place of a kind, if there is one.
LEMMA MinIs ==
  ASSUME NEW I \in SUBSET Nat, I # {}
  PROVE  Min(I) \in I /\ \A i \in I : Min(I) <= i
<1>1. \E m \in I : \A i \in I : m <= i
  BY Least
<1> QED BY <1>1, Zenon DEF Min

\* The digits from a place on.
LEMMA DigitsFromIs ==
  ASSUME NEW t \in Seq(Nat), NEW i \in 1..(Len(t) + 1)
  PROVE  \E j \in (i - 1)..Len(t) :
           /\ DigitsFrom(t, i) = SubSeq(t, i, j)
           /\ \A k \in i..j : IsDigit(t[k])
           /\ j < Len(t) => ~IsDigit(t[j + 1])
<1> DEFINE I == {k \in i..Len(t) : ~IsDigit(t[k])}
<1>1. DigitsFrom(t, i) = SubSeq(t, i, IF (IF I # {} THEN Min(I) ELSE 0) = 0 THEN Len(t)
                                       ELSE (IF I # {} THEN Min(I) ELSE 0) - 1)
  BY DEF DigitsFrom, SelectInSubSeq
<1>2. I \in SUBSET Nat /\ \A k \in I : k \in i..Len(t)
  OBVIOUS
<1>3. CASE I = {}
  <2>1. DigitsFrom(t, i) = SubSeq(t, i, Len(t))
    BY <1>1, <1>3
  <2>2. \A k \in i..Len(t) : IsDigit(t[k])
    BY <1>3
  <2> QED BY <2>1, <2>2
<1>4. CASE I # {}
  <2> DEFINE m == Min(I)
  <2>1. m \in I /\ \A k \in I : m <= k
    <3> HIDE DEF I
    <3> QED BY <1>2, <1>4, MinIs
  <2>2. DigitsFrom(t, i) = SubSeq(t, i, m - 1)
    <3>1. m \in 1..Len(t)
      BY <2>1
    <3>2. m # 0
      BY <3>1
    <3> HIDE DEF I
    <3> QED BY <1>1, <1>4, <3>2
  <2> HIDE DEF m
  <2>3. m \in i..Len(t) /\ ~IsDigit(t[m])
    BY <2>1
  <2>4. \A k \in i..(m - 1) : IsDigit(t[k])
    <3> SUFFICES ASSUME NEW k \in i..(m - 1), ~IsDigit(t[k]) PROVE FALSE
      OBVIOUS
    <3>1. k \in I
      BY <2>3
    <3> QED BY <2>1, <2>3, <3>1
  <2>5. m - 1 \in (i - 1)..Len(t) /\ (m - 1) + 1 = m
    BY <2>3
  <2> QED BY <2>2, <2>3, <2>4, <2>5
<1> QED BY <1>3, <1>4

\* What strtoull skips: it stands before the digits.
Loose == {Blank, Minus, Plus, X}

\* What strtoull reads is a run of digits with nothing but blanks, a sign and a
\* prefix before it.
LEMMA StrtoullIs ==
  ASSUME NEW t \in Seq(Nat), Strtoull(t).used # 0
  PROVE  \E a \in 1..Len(t), b \in 1..Len(t) :
           /\ Strtoull(t).used = b /\ a <= b
           /\ \A i \in a..b : IsDigit(t[i])
           /\ a > 1 => \E i \in 1..(a - 1) : t[i] \in Loose
           /\ \/ Strtoull(t).value = Number(SubSeq(t, a, b))
              \/ Strtoull(t).value = (Values - Number(SubSeq(t, a, b))) % Values
<1> DEFINE I == {i \in 1..Len(t) : t[i] # Blank}
           sign == IF I # {} THEN Min(I) ELSE 0
           first == IF sign > 0 /\ t[sign] \in {Minus, Plus} THEN sign + 1 ELSE sign
           prefix == first > 0 /\ first + 2 <= Len(t) /\ t[first] = 0 /\ t[first + 1] = X /\ IsDigit(t[first + 2])
           start == IF prefix THEN first + 2 ELSE first
           digits == IF first = 0 THEN <<>> ELSE DigitsFrom(t, start)
           minus == first # sign /\ t[sign] = Minus
<1>1. Strtoull(t) = IF digits = <<>> THEN [value |-> 0, used |-> 0]
                    ELSE [value |-> IF minus THEN (Values - Number(digits)) % Values ELSE Number(digits),
                          used |-> start + Len(digits) - 1]
  BY DEF Strtoull, SelectInSeq
<1>2. digits # <<>>
  <2> SUFFICES ASSUME digits = <<>> PROVE FALSE
    OBVIOUS
  <2> HIDE DEF digits
  <2>1. Strtoull(t) = [value |-> 0, used |-> 0]
    BY <1>1
  <2> QED BY <2>1
<1>3. first # 0
  <2> HIDE DEF first
  <2> QED BY <1>2
<1>4. sign \in 1..Len(t) /\ \A i \in 1..(sign - 1) : t[i] = Blank
  <2>1. I # {}
    <3> HIDE DEF I
    <3> QED BY <1>3
  <2>2. I \in SUBSET Nat
    OBVIOUS
  <2>3. sign \in I /\ \A i \in I : sign <= i
    <3> HIDE DEF I
    <3> QED BY <2>1, <2>2, MinIs
  <2> HIDE DEF sign
  <2> QED BY <2>3
<1> HIDE DEF sign, I
<1>5. /\ first \in 1..(Len(t) + 1) /\ (first = sign \/ first = sign + 1)
      /\ first # sign => t[sign] \in {Minus, Plus}
  BY <1>4
<1> HIDE DEF first
<1>6. /\ start \in 1..(Len(t) + 1) /\ (start = first \/ start = first + 2)
      /\ start # first => t[first + 1] = X /\ first + 1 \in 1..Len(t)
  BY <1>5
<1> HIDE DEF start
<1>7. PICK b \in (start - 1)..Len(t) : digits = SubSeq(t, start, b) /\ \A k \in start..b : IsDigit(t[k])
  BY <1>3, <1>6, DigitsFromIs
<1>8. b >= start /\ Len(digits) = b - start + 1
  <2>1. CASE b < start
    <3>1. digits = <<>>
      <4>1. SubSeq(t, start, b) = <<>>
        BY <1>6, <1>7, <2>1
      <4> QED BY <1>7, <4>1
    <3> QED BY <1>2, <3>1
  <2>2. CASE b >= start
    <3>1. Len(SubSeq(t, start, b)) = b - start + 1
      BY <1>6, <1>7, <2>2
    <3> QED BY <1>7, <2>2, <3>1
  <2> QED BY <1>6, <1>7, <2>1, <2>2
<1> HIDE DEF digits, minus
<1>9. /\ Strtoull(t).used = start + Len(digits) - 1
      /\ Strtoull(t).value = IF minus THEN (Values - Number(digits)) % Values ELSE Number(digits)
  BY <1>1, <1>2
<1>10. Strtoull(t).used = b
  BY <1>6, <1>7, <1>8, <1>9
<1>11. start > 1 => \E i \in 1..(start - 1) : t[i] \in Loose
  <2> SUFFICES ASSUME start > 1 PROVE \E i \in 1..(start - 1) : t[i] \in Loose
    OBVIOUS
  <2>1. CASE start # first
    <3>1. first + 1 \in 1..(start - 1) /\ t[first + 1] \in Loose
      BY <1>5, <1>6, <2>1 DEF Loose
    <3> QED BY <3>1
  <2>2. CASE start = first /\ first # sign
    <3>1. sign \in 1..(start - 1) /\ t[sign] \in Loose
      BY <1>4, <1>5, <2>2 DEF Loose
    <3> QED BY <3>1
  <2>3. CASE start = first /\ first = sign
    <3>1. 1 \in 1..(start - 1) /\ t[1] \in Loose
      BY <1>4, <2>3 DEF Loose
    <3> QED BY <3>1
  <2> QED BY <2>1, <2>2, <2>3
<1>12. start \in 1..Len(t) /\ b \in 1..Len(t)
  BY <1>6, <1>7, <1>8
<1> QED BY <1>7, <1>8, <1>9, <1>10, <1>11, <1>12

\* Of a text of digits it reads all.
LEMMA StrtoullOfDigits ==
  ASSUME NEW t \in Seq(Nat), Len(t) > 0, \A i \in 1..Len(t) : IsDigit(t[i])
  PROVE  Strtoull(t) = [value |-> Number(t), used |-> Len(t)]
<1> DEFINE I == {i \in 1..Len(t) : t[i] # Blank}
           sign == IF I # {} THEN Min(I) ELSE 0
           first == IF sign > 0 /\ t[sign] \in {Minus, Plus} THEN sign + 1 ELSE sign
           prefix == first > 0 /\ first + 2 <= Len(t) /\ t[first] = 0 /\ t[first + 1] = X /\ IsDigit(t[first + 2])
           start == IF prefix THEN first + 2 ELSE first
           digits == IF first = 0 THEN <<>> ELSE DigitsFrom(t, start)
           minus == first # sign /\ t[sign] = Minus
<1>1. Strtoull(t) = IF digits = <<>> THEN [value |-> 0, used |-> 0]
                    ELSE [value |-> IF minus THEN (Values - Number(digits)) % Values ELSE Number(digits),
                          used |-> start + Len(digits) - 1]
  BY DEF Strtoull, SelectInSeq
<1>2. \A i \in 1..Len(t) : t[i] < 16 /\ t[i] # Blank /\ t[i] # Minus /\ t[i] # Plus /\ t[i] # X
  BY DEF IsDigit, Blank, Minus, Plus, X
<1>3. sign = 1
  <2>1. 1 \in I /\ I \in SUBSET Nat /\ \A i \in I : 1 <= i
    BY <1>2
  <2>2. Min(I) \in I /\ \A i \in I : Min(I) <= i
    <3> HIDE DEF I
    <3> QED BY <2>1, MinIs
  <2>3. Min(I) = 1
    <3> HIDE DEF I
    <3>1. PICK m \in Nat : m = Min(I)
      BY <2>1, <2>2
    <3>2. m <= 1 /\ 1 <= m
      BY <2>1, <2>2, <3>1
    <3> QED BY <3>1, <3>2
  <2> HIDE DEF I
  <2> QED BY <2>1, <2>3
<1> HIDE DEF sign, I
<1>4. first = 1
  BY <1>2, <1>3
<1> HIDE DEF first
<1>5. start = 1
  <2>1. ~prefix
    BY <1>2, <1>4
  <2> HIDE DEF prefix
  <2> QED BY <1>4, <2>1
<1> HIDE DEF start
<1>6. digits = t
  <2>1. PICK b \in 0..Len(t) : /\ DigitsFrom(t, 1) = SubSeq(t, 1, b)
                               /\ b < Len(t) => ~IsDigit(t[b + 1])
    BY DigitsFromIs
  <2>2. b = Len(t)
    <3>1. b < Len(t) => b + 1 \in 1..Len(t)
      BY <2>1
    <3> QED BY <2>1, <3>1
  <2>3. SubSeq(t, 1, Len(t)) = t
    OBVIOUS
  <2> QED BY <1>4, <1>5, <2>1, <2>2, <2>3
<1> HIDE DEF digits
<1>7. t # <<>> /\ 1 + Len(t) - 1 = Len(t)
  OBVIOUS
<1> QED BY <1>1, <1>3, <1>4, <1>5, <1>6, <1>7

\* A sequence of digits is one of numbers below 16.
LEMMA DigitsAre ==
  ASSUME NEW d \in Seq(Nat), \A i \in 1..Len(d) : IsDigit(d[i])
  PROVE  d \in Seq(0..15)
<1>1. PICK n \in Nat : n = Len(d)
  OBVIOUS
<1>2. d = [i \in 1..n |-> d[i]]
  BY <1>1
<1>3. ASSUME NEW i \in 1..n PROVE d[i] \in 0..15
  <2>1. PICK c \in Nat : c = d[i]
    BY <1>1
  <2>2. c < 16
    BY <1>1, <2>1 DEF IsDigit
  <2>3. c \in 0..15
    BY <2>2
  <2> QED BY <2>1, <2>3
<1>4. d \in [1..n -> 0..15]
  BY <1>2, <1>3
<1> QED BY <1>4

\* What a run of at most MaxDigits digits says fits.
LEMMA RunFits ==
  ASSUME NEW t \in Seq(Nat), Len(t) <= MaxDigits,
         NEW a \in 1..Len(t), NEW b \in 1..Len(t), a <= b, \A k \in a..b : IsDigit(t[k])
  PROVE  Values \in Nat /\ Number(SubSeq(t, a, b)) \in Nat /\ Number(SubSeq(t, a, b)) < Values
<1> DEFINE d == SubSeq(t, a, b)
<1>1. Len(t) \in Nat /\ MaxDigits \in Nat
  BY ArgumentsAssumption
<1>2. Len(d) = b - a + 1 /\ \A i \in 1..(b - a + 1) : d[i] = t[i + a - 1]
  BY <1>1
<1>3. d \in Seq(Nat)
  OBVIOUS
<1> HIDE DEF d
<1>4. ASSUME NEW i \in 1..Len(d) PROVE IsDigit(d[i])
  <2>1. i + a - 1 \in a..b /\ i \in 1..(b - a + 1)
    BY <1>1, <1>2
  <2> QED BY <1>2, <2>1
<1>5. d \in Seq(0..15)
  BY <1>3, <1>4, DigitsAre
<1>6. Len(d) <= MaxDigits
  BY <1>1, <1>2
<1>7. Values \in Nat /\ Number(d) \in Nat /\ Number(d) < Values
  BY <1>5, <1>6, NumberFits
<1> QED BY <1>7 DEF d

\* Every text of hex digits with a prefix is read as its number, and what is read
\* is such a text or one with blanks, a sign or a second prefix.
LEMMA ParseHexIs ==
  ASSUME NEW s \in Seq(Nat)
  PROVE  Reads(ParseHex(s), s)
<1>t. PICK t : t = SubSeq(s, 3, Len(s))
  OBVIOUS
<1> DEFINE r == Strtoull(t)
<1>0. MaxDigits \in Nat /\ Len(s) \in Nat
  BY ArgumentsAssumption
<1>1. ParseHex(s) = IF Len(s) < 3 \/ Len(s) > MaxDigits + 2 THEN Rejected
                    ELSE IF s[1] # 0 \/ s[2] # X \/ ~EndsThere(r, Len(s) - 2) THEN Rejected
                    ELSE [ok |-> TRUE, value |-> r.value]
  BY <1>t DEF ParseHex
<1>2. ASSUME Len(s) >= 3
      PROVE  t \in Seq(Nat) /\ Len(t) = Len(s) - 2 /\ \A i \in 1..Len(t) : t[i] = s[i + 2]
  <2>1. Len(t) = Len(s) - 2
    BY <1>0, <1>2, <1>t
  <2>2. t \in Seq(Nat)
    BY <1>t
  <2>3. \A i \in 1..(Len(s) - 2) : t[i] = s[i + 2]
    BY <1>0, <1>2, <1>t
  <2> QED BY <2>1, <2>2, <2>3
<1> HIDE DEF r
<1>3. ASSUME IsToken(s)
      PROVE  ParseHex(s) = [ok |-> TRUE, value |-> Number(t)]
  <2>1. Len(s) >= 3 /\ Len(s) <= MaxDigits + 2 /\ s[1] = 0 /\ s[2] = X /\ \A i \in 3..Len(s) : IsDigit(s[i])
    BY <1>0, <1>3 DEF IsToken
  <2>2. t \in Seq(Nat) /\ Len(t) = Len(s) - 2 /\ \A i \in 1..Len(t) : t[i] = s[i + 2]
    BY <1>2, <2>1
  <2>3. \A i \in 1..Len(t) : IsDigit(t[i])
    <3> SUFFICES ASSUME NEW i \in 1..Len(t) PROVE IsDigit(s[i + 2])
      BY <2>2
    <3>1. i + 2 \in 3..Len(s)
      BY <1>0, <2>2
    <3> QED BY <2>1, <3>1
  <2>4. r = [value |-> Number(t), used |-> Len(t)]
    <3>1. PICK n \in Nat : n = Len(t)
      BY <2>2
    <3>2. t \in Seq(Nat) /\ Len(t) > 0
      BY <1>0, <2>1, <2>2, <3>1
    <3> QED BY <2>3, <3>2, StrtoullOfDigits DEF r
  <2>5. EndsThere(r, Len(s) - 2) /\ r.value = Number(t)
    BY <2>2, <2>4 DEF EndsThere
  <2> QED BY <1>0, <1>1, <2>1, <2>5
<1>4. ASSUME ParseHex(s).ok
      PROVE  (IsToken(s) \/ IsLoose(s)) /\ ParseHex(s).value < Values
  <2>1. /\ Len(s) >= 3 /\ Len(s) <= MaxDigits + 2 /\ s[1] = 0 /\ s[2] = X
        /\ EndsThere(r, Len(s) - 2) /\ ParseHex(s).value = r.value
    BY <1>0, <1>1, <1>4 DEF Rejected
  <2>2. t \in Seq(Nat) /\ Len(t) = Len(s) - 2 /\ \A i \in 1..Len(t) : t[i] = s[i + 2]
    BY <1>2, <2>1
  <2>3. r.used = Len(t) /\ Len(t) > 0 /\ Len(t) <= MaxDigits
    BY <1>0, <2>1, <2>2 DEF EndsThere
  <2>4. PICK a \in 1..Len(t), b \in 1..Len(t) :
           /\ r.used = b /\ a <= b
           /\ \A i \in a..b : IsDigit(t[i])
           /\ a > 1 => \E i \in 1..(a - 1) : t[i] \in Loose
           /\ \/ r.value = Number(SubSeq(t, a, b))
              \/ r.value = (Values - Number(SubSeq(t, a, b))) % Values
    <3>0. PICK n \in Nat : n = Len(t)
      BY <2>2
    <3>1. Strtoull(t).used = n /\ n # 0
      BY <2>3, <3>0 DEF r
    <3>2. t \in Seq(Nat)
      BY <2>2
    <3>3. Strtoull(t).used # 0
      BY <3>1
    <3> QED BY <3>2, <3>3, StrtoullIs, Zenon DEF r
  <2>5. b = Len(t)
    BY <2>3, <2>4
  <2>6. IsToken(s) \/ IsLoose(s)
    <3>1. CASE a = 1
      <4>1. ASSUME NEW i \in 3..Len(s) PROVE IsDigit(s[i])
        <5>1. i - 2 \in a..b /\ i - 2 \in 1..Len(t) /\ (i - 2) + 2 = i
          BY <1>0, <2>2, <2>5, <3>1
        <5> QED BY <2>2, <2>4, <5>1
      <4>2. Len(s) \in 3..(MaxDigits + 2)
        BY <1>0, <2>1
      <4> QED BY <2>1, <4>1, <4>2 DEF IsToken
    <3>2. CASE a > 1
      <4>1. PICK i \in 1..(a - 1) : t[i] \in Loose
        BY <2>4, <3>2
      <4>2. i \in 1..Len(t) /\ i + 2 \in 3..Len(s)
        <5>1. PICK n \in Nat : n = Len(t)
          BY <2>2
        <5>2. n = Len(s) - 2 /\ a \in 1..n
          BY <2>2, <5>1
        <5> QED BY <1>0, <5>1, <5>2
      <4>3. s[i + 2] \in {Blank, Minus, Plus, X}
        BY <2>2, <4>1, <4>2 DEF Loose
      <4> QED BY <4>2, <4>3 DEF IsLoose
    <3> QED BY <3>1, <3>2
  <2>7. r.value < Values
    <3> DEFINE d == SubSeq(t, a, b)
    <3>1. t \in Seq(Nat) /\ Len(t) <= MaxDigits /\ a <= b /\ \A k \in a..b : IsDigit(t[k])
      BY <2>2, <2>3, <2>4
    <3>2. Values \in Nat /\ Number(d) \in Nat /\ Number(d) < Values
      BY <3>1, RunFits, Zenon
    <3> HIDE DEF d
    <3>3. (Values - Number(d)) % Values < Values
      BY <3>2
    <3> QED BY <2>4, <3>2, <3>3 DEF d
  <2> QED BY <2>1, <2>6, <2>7
<1> QED BY <1>3, <1>4, <1>t DEF Reads

\* And of two texts with a slash between them, each is.
LEMMA PairIs ==
  ASSUME NEW s \in Seq(Nat), NEW i \in 1..Len(s), s[i] = Slash, \A j \in 1..(i - 1) : s[j] # Slash
  PROVE  /\ Reads(ParseTwoParameters(s)[1], SubSeq(s, 1, i - 1))
         /\ Reads(ParseTwoParameters(s)[2], SubSeq(s, i + 1, Len(s)))
<1> DEFINE I == {j \in 1..Len(s) : s[j] = Slash}
           sep == IF I # {} THEN Min(I) ELSE 0
<1>1. ParseTwoParameters(s) = IF sep = 0 THEN <<Rejected, Rejected>>
                              ELSE <<ParseHex(SubSeq(s, 1, sep - 1)), ParseHex(SubSeq(s, sep + 1, Len(s)))>>
  BY DEF ParseTwoParameters, SelectInSeq
<1>2. i \in I /\ I \in SUBSET Nat
  OBVIOUS
<1>3. sep \in I /\ \A j \in I : sep <= j
  <2> HIDE DEF I
  <2> QED BY <1>2, MinIs
<1>4. sep = i
  <2>1. PICK n \in Nat : n = Len(s)
    OBVIOUS
  <2>2. PICK m \in 1..n : m = sep
    <3> HIDE DEF sep
    <3> QED BY <1>3, <2>1
  <2>3. s[m] = Slash /\ m <= i
    <3> HIDE DEF sep
    <3> QED BY <1>2, <1>3, <2>2
  <2>4. ~(m < i)
    BY <2>1, <2>3
  <2>5. m = i
    BY <2>1, <2>3, <2>4
  <2> HIDE DEF sep
  <2> QED BY <2>2, <2>5
<1> HIDE DEF sep
<1>5. SubSeq(s, 1, i - 1) \in Seq(Nat) /\ SubSeq(s, i + 1, Len(s)) \in Seq(Nat)
  OBVIOUS
<1>6. ParseTwoParameters(s) = <<ParseHex(SubSeq(s, 1, i - 1)), ParseHex(SubSeq(s, i + 1, Len(s)))>>
  <2>1. i # 0
    OBVIOUS
  <2> QED BY <1>1, <1>4, <2>1
<1>7. /\ ParseTwoParameters(s)[1] = ParseHex(SubSeq(s, 1, i - 1))
      /\ ParseTwoParameters(s)[2] = ParseHex(SubSeq(s, i + 1, Len(s)))
  BY <1>6
<1> QED BY <1>5, <1>7, ParseHexIs

-----------------------------------------------------------------------------
(* The names of devices.                                                    *)

\* An element of a sequence.
LEMMA ElementOf ==
  ASSUME NEW S, NEW q \in Seq(S), NEW n \in 1..Len(q)
  PROVE  q[n] \in S
OBVIOUS

\* The recursion of findPciIdsFile.
LEMMA BestIs ==
  ASSUME NEW files \in Seq([version : Nat, lines : Seq(Line)])
  PROVE  \E f : /\ f[0] = 0
                /\ \A n \in 1..Len(files) :
                     f[n] = IF files[n].version # 0
                               /\ Beats(files[n].version, IF f[n - 1] = 0 THEN 0 ELSE files[f[n - 1]].version)
                            THEN n ELSE f[n - 1]
                /\ FindPciIdsFile(files) = f[Len(files)]
<1> DEFINE N == Len(files)
           Turn(n, b) == IF files[n].version # 0
                            /\ Beats(files[n].version, IF b = 0 THEN 0 ELSE files[b].version)
                         THEN n ELSE b
           g == [n \in 1..N |-> [b \in 0..N |-> Turn(n, b)]]
<1>1. N \in Nat
  OBVIOUS
<1>2. PICK f : IsRecursive(f, N, 0, g)
  <2> HIDE DEF g, N
  <2> QED BY <1>1, Recursion, Zenon
<1>3. f[0] = 0 /\ \A n \in 1..N : f[n] = g[n][f[n - 1]]
  <2>1. 0 \in 0..N /\ \A n \in 1..N : n \in 0..N /\ n # 0
    BY <1>1
  <2> HIDE DEF g, N
  <2> QED BY <1>2, <2>1 DEF IsRecursive
<1>4. \A n \in 0..N : f[n] \in 0..N
  <2> DEFINE P == {n \in 0..N : f[n] \in 0..N}
  <2>1. 0 \in P
    BY <1>1, <1>3
  <2>2. ASSUME NEW n \in 1..N, n - 1 \in P PROVE n \in P
    <3>1. f[n - 1] \in 0..N /\ n \in 0..N
      BY <1>1, <2>2
    <3>2. f[n] = Turn(n, f[n - 1])
      <4> HIDE DEF Turn, N
      <4> QED BY <1>3, <3>1
    <3>3. f[n] = n \/ f[n] = f[n - 1]
      BY <3>2
    <3> QED BY <3>1, <3>3
  <2>3. \A n \in 0..N : n \in P
    <3> HIDE DEF P, N
    <3> QED BY <1>1, <2>1, <2>2, UpTo
  <2> QED BY <2>3
<1>5. ASSUME NEW n \in 1..N PROVE f[n] = Turn(n, f[n - 1])
  <2>1. n - 1 \in 0..N
    BY <1>1
  <2>2. f[n] = g[n][f[n - 1]] /\ f[n - 1] \in 0..N
    BY <1>3, <1>4, <2>1
  <2> HIDE DEF Turn
  <2> QED BY <2>2
<1>6. f = [n \in 0..N |-> IF n = 0 THEN 0 ELSE Turn(n, f[n - 1])]
  <2>1. f = [n \in 0..N |-> f[n]]
    BY <1>2 DEF IsRecursive
  <2>2. \A n \in 0..N : n = 0 \/ n \in 1..N
    BY <1>1
  <2> HIDE DEF g, N, Turn
  <2> QED BY <1>3, <1>5, <2>1, <2>2
<1> DEFINE v == CHOOSE h : h = [n \in 0..N |-> IF n = 0 THEN 0 ELSE Turn(n, h[n - 1])]
<1>7. v = [n \in 0..N |-> IF n = 0 THEN 0 ELSE Turn(n, v[n - 1])]
  <2> HIDE DEF g, N, Turn
  <2> QED BY <1>6, Zenon
<1>8. FindPciIdsFile(files) = v[N]
  BY DEF FindPciIdsFile
<1> HIDE DEF v
<1>9. v[0] = 0 /\ \A n \in 1..N : v[n] = Turn(n, v[n - 1])
  <2>1. 0 \in 0..N /\ \A n \in 1..N : n \in 0..N /\ n # 0
    BY <1>1
  <2> HIDE DEF g, N, Turn
  <2> QED BY <1>7, <2>1
<1> QED BY <1>8, <1>9

\* findPciIdsFile finds the newest of the files, the first of several.
LEMMA FileIs ==
  ASSUME NEW files \in Seq([version : Nat, lines : Seq(Line)])
  PROVE  /\ FindPciIdsFile(files) \in 0..Len(files)
         /\ Newest(files) = IF FindPciIdsFile(files) = 0 THEN {} ELSE {FindPciIdsFile(files)}
         /\ Known(files) = {} <=> FindPciIdsFile(files) = 0
<1>1. PICK N \in Nat : N = Len(files)
  OBVIOUS
<1>2. PICK ver \in [1..N -> Nat] : \A n \in 1..N : ver[n] = files[n].version
  <2>1. ASSUME NEW n \in 1..N PROVE files[n].version \in Nat
    <3>1. files[n] \in [version : Nat, lines : Seq(Line)]
      BY <1>1, ElementOf
    <3> QED BY <3>1
  <2>2. [n \in 1..N |-> files[n].version] \in [1..N -> Nat]
    BY <2>1
  <2> QED BY <2>2
<1>3. PICK f : /\ f[0] = 0
               /\ \A n \in 1..N :
                    f[n] = IF files[n].version # 0
                              /\ Beats(files[n].version, IF f[n - 1] = 0 THEN 0 ELSE files[f[n - 1]].version)
                           THEN n ELSE f[n - 1]
               /\ FindPciIdsFile(files) = f[N]
  BY <1>1, BestIs
<1> DEFINE Best(n) == /\ f[n] \in 0..n
                      /\ f[n] = 0 => \A j \in 1..n : ver[j] = 0
                      /\ f[n] # 0 => /\ ver[f[n]] # 0
                                     /\ \A j \in 1..n : ver[j] < ver[f[n]] \/ (ver[j] = ver[f[n]] /\ f[n] <= j)
           P == {n \in 0..N : Best(n)}
<1>4. 0 \in P
  BY <1>3
<1>5. ASSUME NEW n \in 1..N, n - 1 \in P PROVE n \in P
  <2>1. PICK b \in 0..(n - 1) : b = f[n - 1]
    BY <1>5
  <2>2. /\ b = 0 => \A j \in 1..(n - 1) : ver[j] = 0
        /\ b # 0 => /\ ver[b] # 0
                    /\ \A j \in 1..(n - 1) : ver[j] < ver[b] \/ (ver[j] = ver[b] /\ b <= j)
    BY <1>5, <2>1
  <2>3. ver[n] \in Nat /\ \A j \in 1..n : ver[j] \in Nat /\ (j = n \/ j \in 1..(n - 1))
    OBVIOUS
  <2>4. b # 0 => files[b].version = ver[b] /\ b \in 1..(n - 1)
    BY <1>2
  <2>5. f[n] = IF ver[n] # 0 /\ (b = 0 \/ ver[n] > ver[b]) THEN n ELSE b
    <3>1. files[n].version = ver[n]
      BY <1>2
    <3>2. f[n] = IF files[n].version # 0 /\ Beats(files[n].version, IF b = 0 THEN 0 ELSE files[b].version)
                 THEN n ELSE b
      BY <1>3, <2>1
    <3>3. b # 0 => ver[b] # 0
      BY <2>2
    <3> QED BY <2>4, <3>1, <3>2, <3>3 DEF Beats
  <2>6. Best(n)
    <3>1. CASE b = 0 /\ ver[n] = 0
      <4>1. f[n] = 0
        BY <2>5, <3>1
      <4> QED BY <2>2, <2>3, <3>1, <4>1
    <3>2. CASE b = 0 /\ ver[n] # 0
      <4>1. f[n] = n
        BY <2>5, <3>2
      <4>2. \A j \in 1..n : ver[j] < ver[n] \/ (ver[j] = ver[n] /\ n <= j)
        BY <2>2, <2>3, <3>2
      <4> QED BY <3>2, <4>1, <4>2
    <3>3. CASE b # 0 /\ ver[n] > ver[b]
      <4>1. f[n] = n
        BY <2>3, <2>4, <2>5, <3>3
      <4>2. ASSUME NEW j \in 1..n PROVE ver[j] < ver[n] \/ (ver[j] = ver[n] /\ n <= j)
        <5>1. CASE j = n
          BY <5>1
        <5>2. CASE j \in 1..(n - 1)
          <6>1. ver[j] < ver[b] \/ ver[j] = ver[b]
            BY <2>2, <3>3, <5>2
          <6>2. ver[j] \in Nat /\ ver[n] \in Nat /\ ver[b] \in Nat
            BY <2>3, <2>4, <3>3
          <6> QED BY <3>3, <6>1, <6>2
        <5> QED BY <2>3, <5>1, <5>2
      <4> QED BY <2>2, <2>3, <2>4, <3>3, <4>1, <4>2
    <3>4. CASE b # 0 /\ ~(ver[n] > ver[b])
      <4>1. f[n] = b
        BY <2>5, <3>4
      <4>2. \A j \in 1..n : ver[j] < ver[b] \/ (ver[j] = ver[b] /\ b <= j)
        BY <2>2, <2>3, <2>4, <3>4
      <4> QED BY <2>2, <2>3, <2>4, <3>4, <4>1, <4>2
    <3> QED BY <3>1, <3>2, <3>3, <3>4
  <2> HIDE DEF Best
  <2> QED BY <2>6
<1>6. Best(N)
  <2>1. \A n \in 0..N : n \in P
    <3> HIDE DEF P
    <3> QED BY <1>4, <1>5, UpTo
  <2>2. N \in 0..N
    OBVIOUS
  <2> HIDE DEF Best
  <2> QED BY <2>1, <2>2
<1>7. PICK b \in 0..N : b = FindPciIdsFile(files)
  BY <1>3, <1>6
<1>8. /\ b = 0 => \A j \in 1..N : ver[j] = 0
      /\ b # 0 => /\ ver[b] # 0
                  /\ \A j \in 1..N : ver[j] < ver[b] \/ (ver[j] = ver[b] /\ b <= j)
  BY <1>3, <1>6, <1>7
<1> HIDE DEF P
<1>9. Known(files) = {i \in 1..N : ver[i] # 0}
  BY <1>1, <1>2 DEF Known
<1>10. Known(files) = {} <=> b = 0
  BY <1>8, <1>9
<1>11. Newest(files) = {i \in 1..N : ver[i] # 0 /\ \A j \in 1..N : ver[j] # 0 =>
                          ver[j] < ver[i] \/ (ver[j] = ver[i] /\ i <= j)}
  <2>1. \A i \in 1..N : ver[i] = files[i].version
    BY <1>2
  <2> QED BY <1>9, <2>1 DEF Newest
<1>12. b = 0 => Newest(files) = {}
  BY <1>8, <1>11
<1>13. b # 0 => Newest(files) = {b}
  <2> SUFFICES ASSUME b # 0 PROVE Newest(files) = {b}
    OBVIOUS
  <2>1. b \in Newest(files)
    BY <1>8, <1>11
  <2>2. ASSUME NEW i \in Newest(files) PROVE i = b
    <3>1. PICK k \in 1..N : /\ k = i /\ ver[k] # 0
                            /\ ver[b] < ver[k] \/ (ver[b] = ver[k] /\ k <= b)
      BY <1>8, <1>11, <2>2
    <3>2. ver[k] < ver[b] \/ (ver[k] = ver[b] /\ b <= k)
      BY <1>8
    <3>3. ver[k] \in Nat /\ ver[b] \in Nat
      OBVIOUS
    <3> QED BY <3>1, <3>2, <3>3
  <2> QED BY <2>1, <2>2
<1> QED BY <1>1, <1>7, <1>10, <1>12, <1>13

\* A line, and what fgets gives of the rest of one.
Piece == [kind : {"vendor", "device", "sub", "comment", "class", "junk", "none"}, id : Nat, name : STRING,
          rest : {"none", "comment", "class", "junk"}]

Names == STRING \cup {NoName}

\* What loadPciNames keeps from line to line.
NameState(devs) ==
  [done : BOOLEAN, vendor : Int, ven : [DOMAIN devs -> Names], dev : [DOMAIN devs -> Names]]

Devices == Seq([vendor : Nat, device : Nat])

\* What one line does to it: nothing after the list of classes, and otherwise the
\* names of the line's own vendor or device.
LEMMA NameStepIs ==
  ASSUME NEW devs \in Devices, NEW s \in NameState(devs), NEW line \in Piece
  PROVE  /\ NameStep(devs, s, line) \in NameState(devs)
         /\ s.done \/ line.kind = "class" =>
              /\ NameStep(devs, s, line).done /\ NameStep(devs, s, line).vendor = s.vendor
              /\ NameStep(devs, s, line).ven = s.ven /\ NameStep(devs, s, line).dev = s.dev
         /\ ~s.done /\ line.kind # "class" =>
              /\ ~NameStep(devs, s, line).done
              /\ NameStep(devs, s, line).vendor = VendorAfter(s, line)
              /\ \A i \in DOMAIN devs : NameStep(devs, s, line).ven[i] =
                   IF line.kind = "vendor" /\ devs[i].vendor = line.id THEN line.name ELSE s.ven[i]
              /\ \A i \in DOMAIN devs : NameStep(devs, s, line).dev[i] =
                   IF line.kind = "device" /\ s.vendor >= 0 /\ devs[i].vendor = s.vendor /\ devs[i].device = line.id
                   THEN line.name ELSE s.dev[i]
<1> DEFINE u == NameStep(devs, s, line)
           ven == [i \in DOMAIN devs |->
                     IF line.kind = "vendor" /\ devs[i].vendor = line.id THEN line.name ELSE s.ven[i]]
           dev == [i \in DOMAIN devs |->
                     IF line.kind = "device" /\ s.vendor >= 0 /\ devs[i].vendor = s.vendor /\ devs[i].device = line.id
                     THEN line.name ELSE s.dev[i]]
<1>1. /\ s.done \in BOOLEAN /\ s.vendor \in Int
      /\ s.ven \in [DOMAIN devs -> Names] /\ s.dev \in [DOMAIN devs -> Names]
      /\ s = [done |-> s.done, vendor |-> s.vendor, ven |-> s.ven, dev |-> s.dev]
  BY DEF NameState
<1>2. CASE s.done \/ line.kind = "class"
  <2>1. u = [s EXCEPT !.done = TRUE]
    BY <1>2 DEF NameStep
  <2>2. u = [done |-> TRUE, vendor |-> s.vendor, ven |-> s.ven, dev |-> s.dev]
    <3> HIDE DEF u
    <3> QED BY <1>1, <2>1
  <2> HIDE DEF u
  <2>3. u \in NameState(devs)
    BY <1>1, <2>2 DEF NameState
  <2>4. u.done /\ u.vendor = s.vendor /\ u.ven = s.ven /\ u.dev = s.dev
    BY <2>2
  <2> QED BY <1>2, <2>3, <2>4 DEF u
<1>3. CASE ~s.done /\ line.kind # "class"
  <2>1. u = [s EXCEPT !.vendor = VendorAfter(s, line), !.ven = ven, !.dev = dev]
    BY <1>3 DEF NameStep
  <2>2. u = [done |-> s.done, vendor |-> VendorAfter(s, line), ven |-> ven, dev |-> dev]
    <3> HIDE DEF u, ven, dev
    <3> QED BY <1>1, <2>1
  <2>3. VendorAfter(s, line) \in Int
    BY <1>1 DEF VendorAfter, Piece
  <2>4. line.name \in Names
    BY DEF Names, Piece
  <2>5. ven \in [DOMAIN devs -> Names] /\ dev \in [DOMAIN devs -> Names]
    BY <1>1, <2>4
  <2>6. \A i \in DOMAIN devs : ven[i] =
          IF line.kind = "vendor" /\ devs[i].vendor = line.id THEN line.name ELSE s.ven[i]
    OBVIOUS
  <2>7. \A i \in DOMAIN devs : dev[i] =
          IF line.kind = "device" /\ s.vendor >= 0 /\ devs[i].vendor = s.vendor /\ devs[i].device = line.id
          THEN line.name ELSE s.dev[i]
    OBVIOUS
  <2> HIDE DEF u, ven, dev
  <2>8. u \in NameState(devs)
    BY <1>1, <2>2, <2>3, <2>5 DEF NameState
  <2>9. ~u.done /\ u.vendor = VendorAfter(s, line) /\ u.ven = ven /\ u.dev = dev
    BY <1>3, <2>2
  <2> QED BY <1>3, <2>6, <2>7, <2>8, <2>9 DEF u
<1> QED BY <1>2, <1>3

\* The rest of a long line names nothing.
LEMMA LineStepIs ==
  ASSUME NEW devs \in Devices, NEW s \in NameState(devs), NEW line \in Line
  PROVE  /\ LineStep(devs, s, line) \in NameState(devs)
         /\ s.done \/ line.kind = "class" =>
              /\ LineStep(devs, s, line).done
              /\ LineStep(devs, s, line).ven = s.ven /\ LineStep(devs, s, line).dev = s.dev
         /\ ~s.done /\ line.kind # "class" =>
              /\ LineStep(devs, s, line).vendor \in {VendorAfter(s, line), -1}
              /\ line.rest = "none" =>
                   ~LineStep(devs, s, line).done /\ LineStep(devs, s, line).vendor = VendorAfter(s, line)
              /\ \A i \in DOMAIN devs : LineStep(devs, s, line).ven[i] =
                   IF line.kind = "vendor" /\ devs[i].vendor = line.id THEN line.name ELSE s.ven[i]
              /\ \A i \in DOMAIN devs : LineStep(devs, s, line).dev[i] =
                   IF line.kind = "device" /\ s.vendor >= 0 /\ devs[i].vendor = s.vendor /\ devs[i].device = line.id
                   THEN line.name ELSE s.dev[i]
<1> DEFINE t == NameStep(devs, s, line)
           u == LineStep(devs, s, line)
<1>1. line \in Piece
  BY DEF Line, Piece
<1>2. /\ t \in NameState(devs)
      /\ s.done \/ line.kind = "class" => t.done /\ t.ven = s.ven /\ t.dev = s.dev
      /\ ~s.done /\ line.kind # "class" =>
           /\ ~t.done /\ t.vendor = VendorAfter(s, line)
           /\ \A i \in DOMAIN devs : t.ven[i] =
                IF line.kind = "vendor" /\ devs[i].vendor = line.id THEN line.name ELSE s.ven[i]
           /\ \A i \in DOMAIN devs : t.dev[i] =
                IF line.kind = "device" /\ s.vendor >= 0 /\ devs[i].vendor = s.vendor /\ devs[i].device = line.id
                THEN line.name ELSE s.dev[i]
  BY <1>1, NameStepIs
<1>3. u = IF line.rest = "none" THEN t ELSE NameStep(devs, t, [line EXCEPT !.kind = line.rest])
  BY DEF LineStep
<1>4. line.rest \in {"none", "comment", "class", "junk"}
  BY DEF Line
<1>5. CASE line.rest = "none"
  <2>1. u = t
    <3> HIDE DEF u, t
    <3> QED BY <1>3, <1>5
  <2> HIDE DEF u, t
  <2> QED BY <1>2, <2>1 DEF u
<1>6. CASE line.rest # "none"
  <2>1. PICK piece : piece = [line EXCEPT !.kind = line.rest]
    OBVIOUS
  <2>2. piece \in Piece /\ piece.kind = line.rest
    BY <1>4, <2>1 DEF Line, Piece
  <2>3. u = NameStep(devs, t, piece)
    <3> HIDE DEF t, u
    <3> QED BY <1>3, <1>6, <2>1
  <2> HIDE DEF t, u
  <2>4. /\ u \in NameState(devs)
        /\ t.done \/ piece.kind = "class" => u.done /\ u.vendor = t.vendor /\ u.ven = t.ven /\ u.dev = t.dev
        /\ ~t.done /\ piece.kind # "class" =>
             /\ u.vendor = VendorAfter(t, piece)
             /\ \A i \in DOMAIN devs : u.ven[i] =
                  IF piece.kind = "vendor" /\ devs[i].vendor = piece.id THEN piece.name ELSE t.ven[i]
             /\ \A i \in DOMAIN devs : u.dev[i] =
                  IF piece.kind = "device" /\ t.vendor >= 0 /\ devs[i].vendor = t.vendor
                     /\ devs[i].device = piece.id
                  THEN piece.name ELSE t.dev[i]
    BY <1>2, <2>2, <2>3, NameStepIs
  <2>5. piece.kind \in {"comment", "class", "junk"}
    BY <1>4, <1>6, <2>2
  <2>6. piece.kind # "vendor" /\ piece.kind # "device"
    BY <2>5
  <2>7. \A i \in DOMAIN devs : u.ven[i] = t.ven[i] /\ u.dev[i] = t.dev[i]
    BY <2>4, <2>6
  <2>8. ~t.done => u.vendor \in {t.vendor, -1}
    BY <2>4, <2>6 DEF VendorAfter
  <2>9. CASE s.done \/ line.kind = "class"
    BY <1>2, <2>4, <2>9 DEF u
  <2>10. CASE ~s.done /\ line.kind # "class"
    <3>1. u.vendor \in {VendorAfter(s, line), -1}
      BY <1>2, <2>8, <2>10
    <3>2. ASSUME NEW i \in DOMAIN devs
          PROVE  /\ u.ven[i] = IF line.kind = "vendor" /\ devs[i].vendor = line.id THEN line.name ELSE s.ven[i]
                 /\ u.dev[i] = IF line.kind = "device" /\ s.vendor >= 0 /\ devs[i].vendor = s.vendor
                                  /\ devs[i].device = line.id
                               THEN line.name ELSE s.dev[i]
      BY <1>2, <2>7, <2>10
    <3> QED BY <1>6, <2>4, <2>10, <3>1, <3>2 DEF u
  <2> QED BY <2>9, <2>10
<1> QED BY <1>5, <1>6

\* The recursion of loadPciNames.
LEMMA NamesAre ==
  ASSUME NEW devs \in Devices, NEW lines \in Seq(Line)
  PROVE  \E f : /\ f[0] = [done |-> FALSE, vendor |-> -1, ven |-> Unknown(devs), dev |-> Unknown(devs)]
                /\ \A n \in 1..Len(lines) : f[n] = LineStep(devs, f[n - 1], lines[n])
                /\ \A n \in 0..Len(lines) : f[n] \in NameState(devs)
                /\ NameStates(devs, lines) = f
<1> DEFINE N == Len(lines)
           first == [done |-> FALSE, vendor |-> -1, ven |-> Unknown(devs), dev |-> Unknown(devs)]
           g == [n \in 1..N |-> [s \in NameState(devs) |-> LineStep(devs, s, lines[n])]]
<1>1. N \in Nat /\ \A n \in 1..N : lines[n] \in Line
  OBVIOUS
<1>0. first \in NameState(devs)
  BY DEF NameState, Unknown, Names
<1>2. PICK f : IsRecursive(f, N, first, g)
  <2> HIDE DEF g, N, first
  <2> QED BY <1>1, Recursion, Zenon
<1>3. f[0] = first /\ \A n \in 1..N : f[n] = g[n][f[n - 1]]
  <2>1. 0 \in 0..N /\ \A n \in 1..N : n \in 0..N /\ n # 0
    BY <1>1
  <2> HIDE DEF g, N, first
  <2> QED BY <1>2, <2>1 DEF IsRecursive
<1>4. \A n \in 0..N : f[n] \in NameState(devs)
  <2> DEFINE P == {n \in 0..N : f[n] \in NameState(devs)}
  <2>1. 0 \in P
    <3>1. 0 \in 0..N
      BY <1>1
    <3> HIDE DEF N, first
    <3> QED BY <1>0, <1>3, <3>1
  <2>2. ASSUME NEW n \in 1..N, n - 1 \in P PROVE n \in P
    <3>1. f[n - 1] \in NameState(devs) /\ n \in 0..N
      BY <1>1, <2>2
    <3>2. f[n] = LineStep(devs, f[n - 1], lines[n])
      <4> HIDE DEF N
      <4> QED BY <1>3, <3>1
    <3>3. f[n] \in NameState(devs)
      <4> HIDE DEF N
      <4> QED BY <1>1, <3>1, <3>2, LineStepIs
    <3> QED BY <3>1, <3>3
  <2>3. \A n \in 0..N : n \in P
    <3> HIDE DEF P, N
    <3> QED BY <1>1, <2>1, <2>2, UpTo
  <2> QED BY <2>3
<1>5. ASSUME NEW n \in 1..N PROVE f[n] = LineStep(devs, f[n - 1], lines[n])
  <2>1. n - 1 \in 0..N
    BY <1>1
  <2>2. f[n] = g[n][f[n - 1]] /\ f[n - 1] \in NameState(devs)
    BY <1>3, <1>4, <2>1
  <2> HIDE DEF N
  <2> QED BY <2>2
<1>6. f = [n \in 0..N |-> IF n = 0 THEN first ELSE LineStep(devs, f[n - 1], lines[n])]
  <2>1. f = [n \in 0..N |-> f[n]]
    BY <1>2 DEF IsRecursive
  <2>2. \A n \in 0..N : n = 0 \/ n \in 1..N
    BY <1>1
  <2> HIDE DEF g, N, first
  <2> QED BY <1>3, <1>5, <2>1, <2>2
<1> DEFINE v == CHOOSE h : h = [n \in 0..N |-> IF n = 0 THEN first ELSE LineStep(devs, h[n - 1], lines[n])]
<1>7. v = [n \in 0..N |-> IF n = 0 THEN first ELSE LineStep(devs, v[n - 1], lines[n])]
  <2> HIDE DEF g, N, first
  <2> QED BY <1>6, Zenon
<1>8. NameStates(devs, lines) = v
  BY DEF NameStates
<1> HIDE DEF v
<1>9. v[0] = first /\ \A n \in 1..N : v[n] = LineStep(devs, v[n - 1], lines[n])
  <2>1. 0 \in 0..N /\ \A n \in 1..N : n \in 0..N /\ n # 0
    BY <1>1
  <2> HIDE DEF g, N, first
  <2> QED BY <1>7, <2>1
<1>10. \A n \in 0..N : v[n] \in NameState(devs)
  <2> DEFINE P == {n \in 0..N : v[n] \in NameState(devs)}
  <2>1. 0 \in P
    <3>1. 0 \in 0..N
      BY <1>1
    <3> HIDE DEF N, first
    <3> QED BY <1>0, <1>9, <3>1
  <2>2. ASSUME NEW n \in 1..N, n - 1 \in P PROVE n \in P
    <3>1. v[n - 1] \in NameState(devs) /\ n \in 0..N
      BY <1>1, <2>2
    <3>2. v[n] = LineStep(devs, v[n - 1], lines[n])
      <4> HIDE DEF N
      <4> QED BY <1>9
    <3>3. v[n] \in NameState(devs)
      <4> HIDE DEF N
      <4> QED BY <1>1, <3>1, <3>2, LineStepIs
    <3> QED BY <3>1, <3>3
  <2>3. \A n \in 0..N : n \in P
    <3> HIDE DEF P, N
    <3> QED BY <1>1, <2>1, <2>2, UpTo
  <2> QED BY <2>3
<1> QED BY <1>8, <1>9, <1>10

\* LastOf is the last one.
LEMMA LastIs ==
  ASSUME NEW S \in SUBSET Nat, NEW n \in S, \A j \in S : j <= n
  PROVE  LastOf(S) = n
<1>1. \A m \in S : (\A j \in S : j <= m) => m = n
  OBVIOUS
<1> QED BY <1>1 DEF LastOf

\* The owner of a line is the line itself if it is unindented, and otherwise the
\* owner of the line before.
LEMMA OwnerIs ==
  ASSUME NEW lines \in Seq(Line)
  PROVE  /\ Owner(lines, 0) = 0
         /\ \A n \in 1..Len(lines) :
              Owner(lines, n) = IF lines[n].kind \in {"vendor", "junk"} THEN n ELSE Owner(lines, n - 1)
         /\ \A n \in 0..Len(lines) :
              Owner(lines, n) # 0 =>
                Owner(lines, n) \in 1..n /\ lines[Owner(lines, n)].kind \in {"vendor", "junk"}
<1> DEFINE N == Len(lines)
           J(n) == {j \in 1..n : lines[j].kind \in {"vendor", "junk"}}
<1>1. N \in Nat /\ \A n \in 0..N : Owner(lines, n) = LastOf(J(n))
  BY DEF Owner
<1>2. Owner(lines, 0) = 0
  <2>1. J(0) = {} /\ 0 \in 0..N
    BY <1>1
  <2> HIDE DEF J
  <2> QED BY <1>1, <2>1 DEF LastOf
<1>3. ASSUME NEW n \in 1..N
      PROVE  Owner(lines, n) = IF lines[n].kind \in {"vendor", "junk"} THEN n ELSE Owner(lines, n - 1)
  <2>1. n \in 0..N /\ n - 1 \in 0..N
    BY <1>1
  <2>2. CASE lines[n].kind \in {"vendor", "junk"}
    <3>1. n \in J(n) /\ J(n) \in SUBSET Nat /\ \A j \in J(n) : j <= n
      BY <1>1, <2>2
    <3> HIDE DEF J
    <3>2. LastOf(J(n)) = n
      BY <3>1, LastIs
    <3> QED BY <1>1, <2>1, <2>2, <3>2
  <2>3. CASE lines[n].kind \notin {"vendor", "junk"}
    <3>1. J(n) = J(n - 1)
      BY <1>1, <2>3
    <3> HIDE DEF J
    <3> QED BY <1>1, <2>1, <2>3, <3>1
  <2> QED BY <2>2, <2>3
<1> DEFINE Good(n) == Owner(lines, n) # 0 =>
                        Owner(lines, n) \in 1..n /\ lines[Owner(lines, n)].kind \in {"vendor", "junk"}
           P == {n \in 0..N : Good(n)}
<1>4. 0 \in P
  BY <1>1, <1>2
<1>5. ASSUME NEW n \in 1..N, n - 1 \in P PROVE n \in P
  <2>1. n \in 0..N
    BY <1>1
  <2>2. CASE lines[n].kind \in {"vendor", "junk"}
    BY <1>3, <2>1, <2>2
  <2>3. CASE lines[n].kind \notin {"vendor", "junk"}
    <3>1. Owner(lines, n) = Owner(lines, n - 1)
      BY <1>3, <2>3
    <3>2. Owner(lines, n - 1) # 0 =>
            Owner(lines, n - 1) \in 1..(n - 1) /\ lines[Owner(lines, n - 1)].kind \in {"vendor", "junk"}
      BY <1>5
    <3> QED BY <2>1, <3>1, <3>2
  <2> QED BY <2>2, <2>3
<1>6. \A n \in 0..N : n \in P
  <2> HIDE DEF P, N
  <2> QED BY <1>1, <1>4, <1>5, UpTo
<1> QED BY <1>2, <1>3, <1>6

\* The name of the last of the lines before n that are in S.
LEMMA NameAtNext ==
  ASSUME NEW lines \in Seq(Line), NEW S \in SUBSET (1..Len(lines)), NEW n \in 1..Len(lines)
  PROVE  /\ n \in S => NameAt(lines, S \cap 1..n) = lines[n].name
         /\ n \notin S => NameAt(lines, S \cap 1..n) = NameAt(lines, S \cap 1..(n - 1))
<1>1. CASE n \in S
  <2>1. n \in S \cap 1..n /\ S \cap 1..n \in SUBSET Nat /\ \A j \in S \cap 1..n : j <= n
    BY <1>1
  <2>2. LastOf(S \cap 1..n) = n
    <3> DEFINE T == S \cap 1..n
    <3>1. n \in T /\ T \in SUBSET Nat /\ \A j \in T : j <= n
      BY <2>1
    <3> HIDE DEF T
    <3>2. LastOf(T) = n
      BY <3>1, LastIs
    <3> QED BY <3>2 DEF T
  <2> QED BY <1>1, <2>1, <2>2 DEF NameAt
<1>2. CASE n \notin S
  <2>1. S \cap 1..n = S \cap 1..(n - 1)
    BY <1>2
  <2> QED BY <1>2, <2>1
<1> QED BY <1>1, <1>2

\* A live line stands before the classes, and makes the lines before it live.
LEMMA LiveIs ==
  ASSUME NEW lines \in Seq(Line), NEW n \in 1..Len(lines), lines[n].kind # "class",
         \A j \in 1..(n - 1) : lines[j].kind # "class"
  PROVE  \A j \in 1..n : j \in Live(lines)
<1>1. Len(lines) \in Nat
  OBVIOUS
<1>2. \A j \in 1..n : lines[j].kind # "class"
  BY <1>1
<1> SUFFICES ASSUME NEW j \in 1..n PROVE j \in DOMAIN lines /\ \A k \in 1..j : lines[k].kind # "class"
  BY DEF Live
<1>3. j \in 1..Len(lines) /\ \A k \in 1..j : k \in 1..n
  BY <1>1
<1> QED BY <1>2, <1>3

\* Whether a line names the vendor, or the device, of d.
LEMMA LinesAre ==
  ASSUME NEW lines \in Seq(Line), NEW d \in [vendor : Nat, device : Nat], NEW n \in 1..Len(lines),
         lines[n].kind # "class", \A j \in 1..(n - 1) : lines[j].kind # "class"
  PROVE  /\ n \in VendorLines(lines, d) <=> lines[n].kind = "vendor" /\ lines[n].id = d.vendor
         /\ n \in DeviceLines(lines, d) <=>
              /\ lines[n].kind = "device" /\ lines[n].id = d.device
              /\ Owner(lines, n - 1) # 0 /\ lines[Owner(lines, n - 1)].kind = "vendor"
              /\ lines[Owner(lines, n - 1)].id = d.vendor
<1>1. Len(lines) \in Nat /\ n - 1 \in 0..Len(lines) /\ n \in 1..n
  OBVIOUS
<1>2. \A j \in 1..n : j \in Live(lines)
  BY LiveIs
<1>3. n \in VendorLines(lines, d) <=> lines[n].kind = "vendor" /\ lines[n].id = d.vendor
  BY <1>1, <1>2 DEF VendorLines
<1>4. ASSUME lines[n].kind = "device"
      PROVE  Owner(lines, n) = Owner(lines, n - 1) /\ (Owner(lines, n - 1) # 0 => Owner(lines, n - 1) \in 1..n)
  <2>1. lines[n].kind \notin {"vendor", "junk"}
    BY <1>4
  <2>2. Owner(lines, n) = Owner(lines, n - 1)
    BY <2>1, OwnerIs
  <2>3. PICK o : o = Owner(lines, n - 1)
    OBVIOUS
  <2>4. o # 0 => o \in 1..(n - 1)
    BY <1>1, <2>3, OwnerIs
  <2>5. o # 0 => o \in 1..n
    BY <1>1, <2>4
  <2> QED BY <2>2, <2>3, <2>5
<1>5. 0 \notin VendorLines(lines, d)
  <2>1. 0 \notin DOMAIN lines
    BY <1>1
  <2> QED BY <2>1 DEF VendorLines, Live
<1>6. lines[n].kind = "device" =>
        (Owner(lines, n) \in VendorLines(lines, d) <=>
           /\ Owner(lines, n - 1) # 0 /\ lines[Owner(lines, n - 1)].kind = "vendor"
           /\ lines[Owner(lines, n - 1)].id = d.vendor)
  BY <1>2, <1>4, <1>5 DEF VendorLines
<1>7. n \in DeviceLines(lines, d) <=>
        lines[n].kind = "device" /\ lines[n].id = d.device /\ Owner(lines, n) \in VendorLines(lines, d)
  BY <1>1, <1>2 DEF DeviceLines
<1> QED BY <1>3, <1>6, <1>7

\* And a line from the classes on is of none.
LEMMA ClassesName ==
  ASSUME NEW lines \in Seq(Line), NEW d, NEW n \in 1..Len(lines), NEW c \in 1..n, lines[c].kind = "class"
  PROVE  n \notin VendorLines(lines, d) /\ n \notin DeviceLines(lines, d)
BY DEF VendorLines, DeviceLines, Live

\* What holds of the names after n lines.  No line is wrong: an open list is one
\* of the vendor that owns it, and what is there is a name the database has.
RightAt(devs, lines, n, s) ==
  /\ ~s.done => \A j \in 1..n : lines[j].kind # "class"
  /\ ~s.done /\ s.vendor >= 0 =>
       /\ Owner(lines, n) # 0 /\ lines[Owner(lines, n)].kind = "vendor"
       /\ lines[Owner(lines, n)].id = s.vendor
  /\ \A k \in DOMAIN devs :
       /\ s.ven[k] \in {NoName} \cup {lines[i].name : i \in VendorLines(lines, devs[k])}
       /\ s.dev[k] \in {NoName} \cup {lines[i].name : i \in DeviceLines(lines, devs[k])}

\* And none is missing when every line fits the buffer.
FullAt(devs, lines, n, s) ==
  /\ s.done => \E j \in 1..n : lines[j].kind = "class"
  /\ ~s.done => s.vendor = IF Owner(lines, n) = 0 THEN -1
                           ELSE IF lines[Owner(lines, n)].kind = "vendor" THEN lines[Owner(lines, n)].id ELSE -1
  /\ \A k \in DOMAIN devs :
       /\ s.ven[k] = NameAt(lines, VendorLines(lines, devs[k]) \cap 1..n)
       /\ s.dev[k] = NameAt(lines, DeviceLines(lines, devs[k]) \cap 1..n)

\* A device of the listing.
LEMMA DeviceOf ==
  ASSUME NEW devs \in Devices, NEW k \in DOMAIN devs
  PROVE  devs[k] \in [vendor : Nat, device : Nat]
<1> DEFINE D == [vendor : Nat, device : Nat]
<1>1. devs \in Seq(D)
  BY DEF Devices
<1> HIDE DEF D
<1>2. k \in 1..Len(devs)
  BY <1>1
<1>3. devs[k] \in D
  BY <1>1, <1>2, ElementOf
<1> QED BY <1>3 DEF D

\* A line keeps the names right.
LEMMA RightStep ==
  ASSUME NEW devs \in Devices, NEW lines \in Seq(Line), NEW n \in 1..Len(lines),
         NEW s \in NameState(devs), RightAt(devs, lines, n - 1, s)
  PROVE  RightAt(devs, lines, n, LineStep(devs, s, lines[n]))
<1>1. PICK line \in Line : line = lines[n]
  OBVIOUS
<1>2. PICK u : u = LineStep(devs, s, line)
  OBVIOUS
<1>3. /\ s.done \/ line.kind = "class" => u.done /\ u.ven = s.ven /\ u.dev = s.dev
      /\ ~s.done /\ line.kind # "class" =>
           /\ u.vendor \in {VendorAfter(s, line), -1}
           /\ \A i \in DOMAIN devs : u.ven[i] =
                IF line.kind = "vendor" /\ devs[i].vendor = line.id THEN line.name ELSE s.ven[i]
           /\ \A i \in DOMAIN devs : u.dev[i] =
                IF line.kind = "device" /\ s.vendor >= 0 /\ devs[i].vendor = s.vendor /\ devs[i].device = line.id
                THEN line.name ELSE s.dev[i]
  BY <1>2, LineStepIs
<1>4. CASE s.done \/ line.kind = "class"
  <2>1. u.done /\ u.ven = s.ven /\ u.dev = s.dev
    BY <1>3, <1>4
  <2>2. RightAt(devs, lines, n, u)
    BY <2>1 DEF RightAt
  <2> QED BY <1>1, <1>2, <2>2
<1>5. CASE ~s.done /\ line.kind # "class"
  <2>1. \A j \in 1..(n - 1) : lines[j].kind # "class"
    BY <1>5 DEF RightAt
  <2>2. \A j \in 1..n : j = n \/ j \in 1..(n - 1)
    OBVIOUS
  <2>3. \A j \in 1..n : lines[j].kind # "class"
    BY <1>1, <1>5, <2>1, <2>2
  <2>4. Owner(lines, n) = IF line.kind \in {"vendor", "junk"} THEN n ELSE Owner(lines, n - 1)
    BY <1>1, OwnerIs
  <2>5. ASSUME u.vendor >= 0
        PROVE  /\ Owner(lines, n) # 0 /\ lines[Owner(lines, n)].kind = "vendor"
               /\ lines[Owner(lines, n)].id = u.vendor
    <3>1. u.vendor = VendorAfter(s, line)
      BY <1>3, <1>5, <2>5
    <3>2. CASE line.kind = "vendor"
      <4>1. u.vendor = line.id /\ Owner(lines, n) = n /\ n # 0
        BY <2>4, <3>1, <3>2 DEF VendorAfter
      <4> QED BY <1>1, <3>2, <4>1
    <3>3. CASE line.kind = "junk"
      <4>1. u.vendor = -1
        BY <3>1, <3>3 DEF VendorAfter
      <4> QED BY <2>5, <4>1
    <3>4. CASE line.kind \notin {"vendor", "junk"}
      <4>1. u.vendor = s.vendor /\ Owner(lines, n) = Owner(lines, n - 1)
        BY <2>4, <3>1, <3>4 DEF VendorAfter
      <4> QED BY <1>5, <2>5, <4>1 DEF RightAt
    <3> QED BY <3>2, <3>3, <3>4
  <2>6. ASSUME NEW k \in DOMAIN devs
        PROVE  /\ u.ven[k] \in {NoName} \cup {lines[i].name : i \in VendorLines(lines, devs[k])}
               /\ u.dev[k] \in {NoName} \cup {lines[i].name : i \in DeviceLines(lines, devs[k])}
    <3>1. PICK d \in [vendor : Nat, device : Nat] : d = devs[k]
      BY DeviceOf
    <3>2. /\ n \in VendorLines(lines, d) <=> line.kind = "vendor" /\ line.id = d.vendor
          /\ n \in DeviceLines(lines, d) <=>
               /\ line.kind = "device" /\ line.id = d.device
               /\ Owner(lines, n - 1) # 0 /\ lines[Owner(lines, n - 1)].kind = "vendor"
               /\ lines[Owner(lines, n - 1)].id = d.vendor
      BY <1>1, <1>5, <2>1, LinesAre
    <3>3. /\ s.ven[k] \in {NoName} \cup {lines[i].name : i \in VendorLines(lines, d)}
          /\ s.dev[k] \in {NoName} \cup {lines[i].name : i \in DeviceLines(lines, d)}
      BY <3>1 DEF RightAt
    <3>4. u.ven[k] = IF line.kind = "vendor" /\ d.vendor = line.id THEN line.name ELSE s.ven[k]
      BY <1>3, <1>5, <3>1
    <3>5. u.dev[k] = IF line.kind = "device" /\ s.vendor >= 0 /\ d.vendor = s.vendor /\ d.device = line.id
                     THEN line.name ELSE s.dev[k]
      BY <1>3, <1>5, <3>1
    <3>6. s.vendor >= 0 =>
            /\ Owner(lines, n - 1) # 0 /\ lines[Owner(lines, n - 1)].kind = "vendor"
            /\ lines[Owner(lines, n - 1)].id = s.vendor
      BY <1>5 DEF RightAt
    <3>7. u.ven[k] \in {NoName} \cup {lines[i].name : i \in VendorLines(lines, d)}
      <4>1. CASE line.kind = "vendor" /\ d.vendor = line.id
        <5>1. n \in VendorLines(lines, d) /\ u.ven[k] = lines[n].name
          BY <1>1, <3>2, <3>4, <4>1
        <5> QED BY <5>1
      <4>2. CASE ~(line.kind = "vendor" /\ d.vendor = line.id)
        BY <3>3, <3>4, <4>2
      <4> QED BY <4>1, <4>2
    <3>8. u.dev[k] \in {NoName} \cup {lines[i].name : i \in DeviceLines(lines, d)}
      <4>1. CASE line.kind = "device" /\ s.vendor >= 0 /\ d.vendor = s.vendor /\ d.device = line.id
        <5>1. n \in DeviceLines(lines, d) /\ u.dev[k] = lines[n].name
          BY <1>1, <3>2, <3>5, <3>6, <4>1
        <5> QED BY <5>1
      <4>2. CASE ~(line.kind = "device" /\ s.vendor >= 0 /\ d.vendor = s.vendor /\ d.device = line.id)
        BY <3>3, <3>5, <4>2
      <4> QED BY <4>1, <4>2
    <3> QED BY <3>1, <3>7, <3>8
  <2>7. RightAt(devs, lines, n, u)
    BY <2>3, <2>5, <2>6 DEF RightAt
  <2> QED BY <1>1, <1>2, <2>7
<1> QED BY <1>4, <1>5

\* And full, if it fits.
LEMMA FullStep ==
  ASSUME NEW devs \in Devices, NEW lines \in Seq(Line), NEW n \in 1..Len(lines), lines[n].rest = "none",
         NEW s \in NameState(devs), RightAt(devs, lines, n - 1, s), FullAt(devs, lines, n - 1, s)
  PROVE  FullAt(devs, lines, n, LineStep(devs, s, lines[n]))
<1>1. PICK line \in Line : line = lines[n]
  OBVIOUS
<1>2. PICK u : u = LineStep(devs, s, line)
  OBVIOUS
<1>3. /\ s.done \/ line.kind = "class" => u.done /\ u.ven = s.ven /\ u.dev = s.dev
      /\ ~s.done /\ line.kind # "class" =>
           /\ ~u.done /\ u.vendor = VendorAfter(s, line)
           /\ \A i \in DOMAIN devs : u.ven[i] =
                IF line.kind = "vendor" /\ devs[i].vendor = line.id THEN line.name ELSE s.ven[i]
           /\ \A i \in DOMAIN devs : u.dev[i] =
                IF line.kind = "device" /\ s.vendor >= 0 /\ devs[i].vendor = s.vendor /\ devs[i].device = line.id
                THEN line.name ELSE s.dev[i]
  <2>1. line.rest = "none"
    BY <1>1
  <2> QED BY <1>2, <2>1, LineStepIs
<1>4. ASSUME NEW d
      PROVE  VendorLines(lines, d) \in SUBSET (1..Len(lines)) /\ DeviceLines(lines, d) \in SUBSET (1..Len(lines))
  BY DEF VendorLines, DeviceLines, Live
<1>5. ASSUME NEW k \in DOMAIN devs
      PROVE  /\ NameAt(lines, VendorLines(lines, devs[k]) \cap 1..n) =
                  IF n \in VendorLines(lines, devs[k]) THEN line.name ELSE s.ven[k]
             /\ NameAt(lines, DeviceLines(lines, devs[k]) \cap 1..n) =
                  IF n \in DeviceLines(lines, devs[k]) THEN line.name ELSE s.dev[k]
  <2>1. /\ s.ven[k] = NameAt(lines, VendorLines(lines, devs[k]) \cap 1..(n - 1))
        /\ s.dev[k] = NameAt(lines, DeviceLines(lines, devs[k]) \cap 1..(n - 1))
    BY <1>5 DEF FullAt
  <2>2. PICK V \in SUBSET (1..Len(lines)) : V = VendorLines(lines, devs[k])
    BY <1>4
  <2>3. PICK D \in SUBSET (1..Len(lines)) : D = DeviceLines(lines, devs[k])
    BY <1>4
  <2>4. /\ n \in V => NameAt(lines, V \cap 1..n) = lines[n].name
        /\ n \notin V => NameAt(lines, V \cap 1..n) = NameAt(lines, V \cap 1..(n - 1))
    BY NameAtNext, Zenon
  <2>5. /\ n \in D => NameAt(lines, D \cap 1..n) = lines[n].name
        /\ n \notin D => NameAt(lines, D \cap 1..n) = NameAt(lines, D \cap 1..(n - 1))
    BY NameAtNext, Zenon
  <2> QED BY <1>1, <2>1, <2>2, <2>3, <2>4, <2>5
<1>6. CASE s.done \/ line.kind = "class"
  <2>1. u.done /\ u.ven = s.ven /\ u.dev = s.dev
    BY <1>3, <1>6
  <2>2. PICK c \in 1..n : lines[c].kind = "class"
    <3>1. CASE s.done
      <4>1. PICK j \in 1..(n - 1) : lines[j].kind = "class"
        BY <3>1 DEF FullAt
      <4>2. j \in 1..n
        OBVIOUS
      <4> QED BY <4>1, <4>2
    <3>2. CASE line.kind = "class"
      <4>1. n \in 1..n
        OBVIOUS
      <4> QED BY <1>1, <3>2, <4>1
    <3> QED BY <1>6, <3>1, <3>2
  <2>3. \A d : n \notin VendorLines(lines, d) /\ n \notin DeviceLines(lines, d)
    BY <2>2, ClassesName
  <2>4. \A k \in DOMAIN devs : /\ u.ven[k] = NameAt(lines, VendorLines(lines, devs[k]) \cap 1..n)
                               /\ u.dev[k] = NameAt(lines, DeviceLines(lines, devs[k]) \cap 1..n)
    BY <1>5, <2>1, <2>3
  <2>5. FullAt(devs, lines, n, u)
    BY <2>1, <2>2, <2>4 DEF FullAt
  <2> QED BY <1>1, <1>2, <2>5
<1>7. CASE ~s.done /\ line.kind # "class"
  <2>1. \A j \in 1..(n - 1) : lines[j].kind # "class"
    BY <1>7 DEF RightAt
  <2>2. ~u.done /\ u.vendor = VendorAfter(s, line)
    BY <1>3, <1>7
  <2>3. Owner(lines, n) = IF line.kind \in {"vendor", "junk"} THEN n ELSE Owner(lines, n - 1)
    BY <1>1, OwnerIs
  <2>4. s.vendor = IF Owner(lines, n - 1) = 0 THEN -1
                   ELSE IF lines[Owner(lines, n - 1)].kind = "vendor" THEN lines[Owner(lines, n - 1)].id ELSE -1
    BY <1>7 DEF FullAt
  <2>5. u.vendor = IF Owner(lines, n) = 0 THEN -1
                   ELSE IF lines[Owner(lines, n)].kind = "vendor" THEN lines[Owner(lines, n)].id ELSE -1
    <3>1. CASE line.kind = "vendor"
      <4>1. u.vendor = line.id /\ Owner(lines, n) = n /\ n # 0
        BY <2>2, <2>3, <3>1 DEF VendorAfter
      <4> QED BY <1>1, <3>1, <4>1
    <3>2. CASE line.kind = "junk"
      <4>1. u.vendor = -1 /\ Owner(lines, n) = n /\ n # 0 /\ lines[n].kind # "vendor"
        BY <1>1, <2>2, <2>3, <3>2 DEF VendorAfter
      <4> QED BY <4>1
    <3>3. CASE line.kind \notin {"vendor", "junk"}
      <4>1. u.vendor = s.vendor /\ Owner(lines, n) = Owner(lines, n - 1)
        BY <2>2, <2>3, <3>3 DEF VendorAfter
      <4> QED BY <2>4, <4>1
    <3> QED BY <3>1, <3>2, <3>3
  <2>6. ASSUME NEW k \in DOMAIN devs
        PROVE  /\ u.ven[k] = NameAt(lines, VendorLines(lines, devs[k]) \cap 1..n)
               /\ u.dev[k] = NameAt(lines, DeviceLines(lines, devs[k]) \cap 1..n)
    <3>1. PICK d \in [vendor : Nat, device : Nat] : d = devs[k]
      BY DeviceOf
    <3>2. /\ n \in VendorLines(lines, d) <=> line.kind = "vendor" /\ line.id = d.vendor
          /\ n \in DeviceLines(lines, d) <=>
               /\ line.kind = "device" /\ line.id = d.device
               /\ Owner(lines, n - 1) # 0 /\ lines[Owner(lines, n - 1)].kind = "vendor"
               /\ lines[Owner(lines, n - 1)].id = d.vendor
      BY <1>1, <1>7, <2>1, LinesAre
    <3>3. /\ u.ven[k] = IF line.kind = "vendor" /\ d.vendor = line.id THEN line.name ELSE s.ven[k]
          /\ u.dev[k] = IF line.kind = "device" /\ s.vendor >= 0 /\ d.vendor = s.vendor /\ d.device = line.id
                        THEN line.name ELSE s.dev[k]
      BY <1>3, <1>7, <3>1
    <3>4. s.vendor >= 0 /\ d.vendor = s.vendor <=>
            /\ Owner(lines, n - 1) # 0 /\ lines[Owner(lines, n - 1)].kind = "vendor"
            /\ lines[Owner(lines, n - 1)].id = d.vendor
      <4>1. PICK v \in Nat : v = d.vendor
        OBVIOUS
      <4>2. ~(-1 >= 0) /\ -1 # v /\ v >= 0
        OBVIOUS
      <4> QED BY <2>4, <4>1, <4>2
    <3>5. /\ n \in VendorLines(lines, d) <=> line.kind = "vendor" /\ d.vendor = line.id
          /\ n \in DeviceLines(lines, d) <=>
               line.kind = "device" /\ s.vendor >= 0 /\ d.vendor = s.vendor /\ d.device = line.id
      BY <3>2, <3>4
    <3>6. /\ NameAt(lines, VendorLines(lines, d) \cap 1..n) =
               IF n \in VendorLines(lines, d) THEN line.name ELSE s.ven[k]
          /\ NameAt(lines, DeviceLines(lines, d) \cap 1..n) =
               IF n \in DeviceLines(lines, d) THEN line.name ELSE s.dev[k]
      BY <1>5, <3>1
    <3> QED BY <3>1, <3>3, <3>5, <3>6
  <2>7. FullAt(devs, lines, n, u)
    BY <2>2, <2>5, <2>6 DEF FullAt
  <2> QED BY <1>1, <1>2, <2>7
<1> QED BY <1>6, <1>7

\* loadPciNames gives every device its own names.
LEMMA LoadedNamesAre ==
  ASSUME NEW devs \in Devices, NEW lines \in Seq(Line)
  PROVE  NamesDevices(devs, lines, LoadPciNames(devs, lines))
<1>1. PICK N \in Nat : N = Len(lines)
  OBVIOUS
<1>2. PICK f : /\ f[0] = [done |-> FALSE, vendor |-> -1, ven |-> Unknown(devs), dev |-> Unknown(devs)]
               /\ \A n \in 1..N : f[n] = LineStep(devs, f[n - 1], lines[n])
               /\ \A n \in 0..N : f[n] \in NameState(devs)
               /\ NameStates(devs, lines) = f
  BY <1>1, NamesAre
<1>3. /\ ~f[0].done /\ f[0].vendor = -1
      /\ \A k \in DOMAIN devs : f[0].ven[k] = NoName /\ f[0].dev[k] = NoName
  BY <1>2 DEF Unknown
<1>4. \A n \in 0..N : RightAt(devs, lines, n, f[n])
  <2> DEFINE P == {n \in 0..N : RightAt(devs, lines, n, f[n])}
  <2>1. 0 \in P
    <3>1. ~(-1 >= 0) /\ 0 \in 0..N /\ 1..0 = {}
      OBVIOUS
    <3> QED BY <1>3, <3>1 DEF RightAt
  <2>2. ASSUME NEW n \in 1..N, n - 1 \in P PROVE n \in P
    <3>1. n - 1 \in 0..N /\ n \in 0..N
      OBVIOUS
    <3>2. RightAt(devs, lines, n - 1, f[n - 1]) /\ f[n - 1] \in NameState(devs)
      BY <1>2, <2>2, <3>1
    <3>3. RightAt(devs, lines, n, LineStep(devs, f[n - 1], lines[n]))
      BY <1>1, <3>2, RightStep
    <3> QED BY <1>2, <3>1, <3>3
  <2>3. \A n \in 0..N : n \in P
    <3> HIDE DEF P
    <3> QED BY <2>1, <2>2, UpTo
  <2> QED BY <2>3
<1>5. ASSUME \A i \in 1..N : lines[i].rest = "none"
      PROVE  \A n \in 0..N : FullAt(devs, lines, n, f[n])
  <2> DEFINE P == {n \in 0..N : FullAt(devs, lines, n, f[n])}
  <2>1. 0 \in P
    <3>1. 0 \in 0..N /\ \A S : S \cap 1..0 = {}
      OBVIOUS
    <3>2. Owner(lines, 0) = 0
      BY OwnerIs
    <3>3. \A S : NameAt(lines, S \cap 1..0) = NoName
      BY <3>1 DEF NameAt
    <3> QED BY <1>3, <3>1, <3>2, <3>3 DEF FullAt
  <2>2. ASSUME NEW n \in 1..N, n - 1 \in P PROVE n \in P
    <3>1. n - 1 \in 0..N /\ n \in 0..N
      OBVIOUS
    <3>2. /\ RightAt(devs, lines, n - 1, f[n - 1]) /\ f[n - 1] \in NameState(devs)
          /\ FullAt(devs, lines, n - 1, f[n - 1])
      BY <1>2, <1>4, <2>2, <3>1
    <3>3. FullAt(devs, lines, n, LineStep(devs, f[n - 1], lines[n]))
      BY <1>1, <1>5, <3>2, FullStep
    <3> QED BY <1>2, <3>1, <3>3
  <2>3. \A n \in 0..N : n \in P
    <3> HIDE DEF P
    <3> QED BY <2>1, <2>2, UpTo
  <2> QED BY <2>3
<1>6. PICK s : s = f[N]
  OBVIOUS
<1>7. \A k \in DOMAIN devs :
        LoadPciNames(devs, lines)[k].ven = s.ven[k] /\ LoadPciNames(devs, lines)[k].dev = s.dev[k]
  BY <1>1, <1>2, <1>6 DEF LoadPciNames
<1>8. N \in 0..N
  OBVIOUS
<1> SUFFICES ASSUME NEW k \in DOMAIN devs
             PROVE  /\ s.ven[k] \in {NoName} \cup {lines[i].name : i \in VendorLines(lines, devs[k])}
                    /\ s.dev[k] \in {NoName} \cup {lines[i].name : i \in DeviceLines(lines, devs[k])}
                    /\ (\A i \in DOMAIN lines : lines[i].rest = "none") =>
                         /\ s.ven[k] = NameAt(lines, VendorLines(lines, devs[k]))
                         /\ s.dev[k] = NameAt(lines, DeviceLines(lines, devs[k]))
  BY <1>7 DEF NamesDevices
<1>9. RightAt(devs, lines, N, s)
  BY <1>4, <1>6, <1>8
<1>10. ASSUME \A i \in DOMAIN lines : lines[i].rest = "none"
       PROVE  /\ s.ven[k] = NameAt(lines, VendorLines(lines, devs[k]))
              /\ s.dev[k] = NameAt(lines, DeviceLines(lines, devs[k]))
  <2>1. FullAt(devs, lines, N, s)
    BY <1>1, <1>5, <1>6, <1>8, <1>10
  <2>2. \A d : /\ VendorLines(lines, d) \cap 1..N = VendorLines(lines, d)
              /\ DeviceLines(lines, d) \cap 1..N = DeviceLines(lines, d)
    BY <1>1 DEF VendorLines, DeviceLines, Live
  <2> QED BY <2>1, <2>2 DEF FullAt
<1> QED BY <1>9, <1>10 DEF RightAt

-----------------------------------------------------------------------------
(* The page arithmetic.                                                     *)

\* Quotient and remainder.
LEMMA Remainder ==
  ASSUME NEW m \in Nat \ {0}, NEW x \in Int
  PROVE  \E q \in Int : x = m * q + (x % m) /\ 0 <= x % m /\ x % m < m /\ x % m \in Int
<1> DEFINE q == x \div m
           r == x % m
<1>1. q \in Int /\ x = m * q + r /\ 0 <= r /\ r < m
  OBVIOUS
<1>2. r \in Int
  OBVIOUS
<1> HIDE DEF q, r
<1> QED BY <1>1, <1>2 DEF r

\* There is one remainder only.
LEMMA RemainderIs ==
  ASSUME NEW m \in Nat \ {0}, NEW q \in Int, NEW r \in Int, 0 <= r, r < m
  PROVE  (m * q + r) % m = r
<1> DEFINE x == m * q + r
<1>1. x \in Int
  OBVIOUS
<1>2. PICK p \in Int : x = m * p + (x % m) /\ 0 <= x % m /\ x % m < m /\ x % m \in Int
  BY <1>1, Remainder
<1> DEFINE s == x % m
<1>3. m * p + s = m * q + r /\ 0 <= s /\ s < m /\ s \in Int
  BY <1>2
<1> HIDE DEF s, x
<1>4. p = q
  <2>1. m * (p - q) = r - s
    BY <1>3
  <2>2. -m < r - s /\ r - s < m
    BY <1>3
  <2>3. p - q >= 1 => m * (p - q) >= m
    OBVIOUS
  <2>4. p - q <= -1 => m * (p - q) <= -m
    OBVIOUS
  <2> QED BY <1>3, <2>1, <2>2, <2>3, <2>4
<1>5. s = r
  BY <1>3, <1>4
<1> QED BY <1>5 DEF s, x

\* mapRange maps the pages of the range, all of them and no other, wherever the
\* range is in the address space and although the end of it may wrap: the byte
\* loops never leave the mapping.  The length is an integer of 32 bits, so that it
\* leaves room for two pages in 64 bits.  x, the sum the code rounds down, is whole
\* pages and the r bytes left of t; where it wraps it loses whole pages only.
THEOREM MappingHolds ==
  ASSUME NEW addr \in Nat, addr < WordSpace, NEW len \in Nat \ {0},
         (addr % PageSize) + len + PageSize <= WordSpace
  PROVE  HoldsRange(addr, len, MapLen(addr, len))
<1> DEFINE P == PageSize
           W == WordSpace
           o == addr % P
           t == o + len + P - 1
           r == t % P
           x == addr + len + P - 1
           y == x % W
<1>0. P \in Nat \ {0} /\ W \in Nat \ {0} /\ W % P = 0
  BY MapRangeAssumption
<1>1. PICK w \in Int : W = P * w
  <2>1. W \in Int
    BY <1>0
  <2>2. PICK w \in Int : W = P * w + (W % P)
    BY <1>0, <2>1, Remainder
  <2>3. W = P * w
    <3> DEFINE e == P * w
    <3>1. e \in Int /\ W = e + (W % P)
      BY <1>0, <2>2
    <3> HIDE DEF e
    <3>2. W = e
      BY <1>0, <3>1
    <3> QED BY <3>2 DEF e
  <2> HIDE DEF P, W
  <2> QED BY <2>3
<1>2. PICK q \in Int : addr = P * q + o /\ 0 <= o /\ o < P /\ o \in Int
  <2>1. addr \in Int
    OBVIOUS
  <2> HIDE DEF P
  <2> QED BY <1>0, <2>1, Remainder
<1>3. t \in Int
  BY <1>0, <1>2
<1>4. PICK c \in Int : t = P * c + r /\ 0 <= r /\ r < P /\ r \in Int
  BY <1>0, <1>3, Remainder
<1>5. PICK k \in Int : x = W * k + y /\ 0 <= y /\ y < W /\ y \in Int
  <2>1. x \in Int /\ W \in Nat \ {0}
    BY <1>0
  <2> HIDE DEF x, W
  <2> QED BY <2>1, Remainder
<1>6. Base(addr) = addr - o /\ PtrOffset(addr) = o
  <2>1. PageOf(addr) = addr - o
    BY DEF PageOf
  <2> HIDE DEF o
  <2>2. addr - (addr - o) = o
    BY <1>2
  <2> QED BY <2>1, <2>2 DEF Base, PtrOffset
<1>7. o + len + P <= W
  OBVIOUS
<1>t. t = o + len + P - 1 /\ x = addr + len + P - 1
  OBVIOUS
<1>m. MapLen(addr, len) = ((y - (y % P)) - Base(addr)) % W
  BY DEF MapLen, End, PageOf
<1> HIDE DEF P, W, o, t, r, x, y
<1>8. y = P * (q + c - w * k) + r
  <2> DEFINE e == P * q
             f == P * c
             g == P * (w * k)
  <2>1. e \in Int /\ f \in Int /\ g \in Int /\ P * (q + c - w * k) = e + f - g
    BY <1>0
  <2>2. W * k = g
    BY <1>0, <1>1
  <2> HIDE DEF e, f, g
  <2>3. addr = e + o /\ t = f + r /\ x = g + y
    BY <1>2, <1>4, <1>5, <2>2 DEF e, f
  <2>4. x = e + f + r
    BY <1>0, <1>2, <1>4, <1>t, <2>1, <2>3
  <2>5. y = e + f - g + r
    BY <1>4, <1>5, <2>1, <2>3, <2>4
  <2> QED BY <2>1, <2>5
<1>9. y % P = r
  <2>1. q + c - w * k \in Int
    OBVIOUS
  <2> QED BY <1>0, <1>4, <1>8, <2>1, RemainderIs
<1>10. y - r - (addr - o) = W * (-k) + P * c
  <2>1. y - r - (addr - o) = P * (q + c - w * k) - P * q
    BY <1>0, <1>2, <1>4, <1>8
  <2>2. P * (q + c - w * k) - P * q = P * c - P * (w * k)
    BY <1>0
  <2>3. W * (-k) = -(P * (w * k))
    BY <1>0, <1>1
  <2> QED BY <1>0, <2>1, <2>2, <2>3
<1>11. P * c \in Int /\ o + len <= P * c /\ P * c < o + len + P /\ 0 <= P * c /\ P * c < W
  <2> DEFINE d == P * c
  <2>1. d \in Int
    BY <1>0
  <2> HIDE DEF d
  <2>2. d = o + len + P - 1 - r
    BY <1>0, <1>2, <1>4, <1>t, <2>1 DEF d
  <2>3. o + len <= d /\ d < o + len + P /\ 0 <= d /\ d < W
    BY <1>0, <1>2, <1>4, <1>7, <2>1, <2>2
  <2> QED BY <2>1, <2>3 DEF d
<1>12. MapLen(addr, len) = P * c
  <2> DEFINE d == P * c
             j == -k
  <2>1. MapLen(addr, len) = (W * j + d) % W
    BY <1>m, <1>6, <1>9, <1>10
  <2>2. j \in Int /\ d \in Int /\ 0 <= d /\ d < W
    BY <1>11
  <2> HIDE DEF d, j
  <2>3. (W * j + d) % W = d
    BY <1>0, <2>2, RemainderIs
  <2> QED BY <2>1, <2>3 DEF d
<1> QED BY <1>6, <1>11, <1>12 DEF HoldsRange, P

-----------------------------------------------------------------------------
(* The theorems about the steps.                                            *)

\* Whatever is asked, there is an answer: the listing and the map are never
\* blocked for want of an order to sort in.
THEOREM AnswersExist ==
  /\ \A in \in PciInputs : PciListSysfs(in.dir, in.max) # {} /\ PciListLegacy(in.dir, in.max, in.reach) # {}
  /\ \A in \in E820Inputs : E820ReadMap(in.dir, in.max) # {}
BY ListingExists, MapExists

\* What is asked is one of the inputs.
InputOK ==
  /\ done \in BOOLEAN
  /\ task = "pci" => input \in PciInputs
  /\ task = "e820" => input \in E820Inputs
  /\ task = "names" => input \in NameInputs
  /\ task = "hex" => input \in HexInputs
  /\ task = "pair" => input \in PairInputs
  /\ task = "range" => input \in RangeInputs

\* At the beginning it is, and nothing is answered.
LEMMA InitInput == TablesInit => InputOK /\ ~done
BY DEF TablesInit, InputOK

\* It stays so.
LEMMA StepInput == InputOK /\ [TablesNext]_tablesVars => InputOK'
BY DEF InputOK, TablesNext, tablesVars

\* The inputs are what they should be.
LEMMA InputsAre ==
  /\ InputOK /\ task = "names" => /\ input.devs \in Devices
                                  /\ input.files \in Seq([version : Nat, lines : Seq(Line)])
  /\ InputOK /\ task = "hex" => input \in Seq(Nat)
  /\ InputOK /\ task = "pair" => input \in Seq(Nat)
  /\ InputOK /\ task = "range" => /\ input.addr \in Nat /\ input.addr < WordSpace /\ input.len \in Nat \ {0}
                                  /\ input.len + 2 * PageSize <= WordSpace
<1> DEFINE D == Seq([vendor : Nat, device : Nat])
           F == Seq([version : Nat, lines : Seq(Line)])
<1>1. ASSUME InputOK, task = "names" PROVE input.devs \in D /\ input.files \in F
  <2>1. input \in [devs : D, files : F]
    BY <1>1, TablesAssumption DEF InputOK
  <2> HIDE DEF D, F
  <2> QED BY <2>1
<1>2. ASSUME InputOK, task = "range"
      PROVE  /\ input.addr \in Nat /\ input.addr < WordSpace /\ input.len \in Nat \ {0}
             /\ input.len + 2 * PageSize <= WordSpace
  <2>1. input \in RangeInputs
    BY <1>2 DEF InputOK
  <2>2. input \in [addr : 0..(WordSpace - 1), len : Nat \ {0}] /\ input.len + 2 * PageSize <= WordSpace
    BY <2>1, TablesAssumption
  <2>3. WordSpace \in Nat
    BY MapRangeAssumption
  <2> QED BY <2>2, <2>3
<1>3. (InputOK /\ task = "hex" => input \in Seq(Nat)) /\ (InputOK /\ task = "pair" => input \in Seq(Nat))
  BY TablesAssumption DEF InputOK
<1> QED BY <1>1, <1>2, <1>3 DEF Devices

\* Which action answers which task, and that an answer is never replaced.
LEMMA StepAnswers ==
  ASSUME InputOK, [TablesNext]_tablesVars, done'
  PROVE  /\ task' = task /\ input' = input
         /\ \/ done /\ output' = output
            \/ ListPci \/ ReadMap \/ LoadNames \/ ParseOne \/ ParseTwo \/ MapPages
BY DEF TablesNext, tablesVars

\* The PCI listing, from sysfs or through the ports and in any order readdir and
\* qsort take: sorted, no device twice, every device as far as there is room, and
\* each entry's address opens the device whose IDs it shows.
THEOREM DevicesAreReached == TablesSpec => []ListedDevicesAreReached
<1>1. TablesInit => ListedDevicesAreReached
  BY DEF TablesInit, ListedDevicesAreReached, Done
<1>2. ASSUME InputOK, ListedDevicesAreReached, [TablesNext]_tablesVars PROVE ListedDevicesAreReached'
  <2> SUFFICES ASSUME task' = "pci", done' PROVE ListsDevices(input', output')
    BY DEF ListedDevicesAreReached, Done
  <2>1. task = "pci" /\ input' = input /\ input \in PciInputs
    BY <1>2, StepAnswers DEF InputOK
  <2>2. CASE done /\ output' = output
    BY <1>2, <2>1, <2>2 DEF ListedDevicesAreReached, Done
  <2>3. CASE ListPci
    <3>1. CASE input.legacy
      <4>1. output' \in PciListLegacy(input.dir, input.max, input.reach)
        BY <2>3, <3>1 DEF ListPci
      <4> QED BY <2>1, <3>1, <4>1, LegacyIs
    <3>2. CASE ~input.legacy
      <4>1. output' \in PciListSysfs(input.dir, input.max)
        BY <2>3, <3>2 DEF ListPci
      <4> QED BY <2>1, <3>2, <4>1, SysfsIs
    <3> QED BY <3>1, <3>2
  <2>4. ~(ReadMap \/ LoadNames \/ ParseOne \/ ParseTwo \/ MapPages)
    BY <2>1 DEF ReadMap, LoadNames, ParseOne, ParseTwo, MapPages
  <2> QED BY <1>2, <2>2, <2>3, <2>4, StepAnswers
<1> QED BY InitInput, StepInput, <1>1, <1>2, PTL DEF TablesSpec

\* The firmware memory map, of any number of entries: sorted, and covering the
\* bytes the entries cover.
THEOREM EntriesAreCovered == TablesSpec => []MapCoversEntries
<1>1. TablesInit => MapCoversEntries
  BY DEF TablesInit, MapCoversEntries, Done
<1>2. ASSUME InputOK, MapCoversEntries, [TablesNext]_tablesVars PROVE MapCoversEntries'
  <2> SUFFICES ASSUME task' = "e820", done' PROVE CoversEntries(input', output')
    BY DEF MapCoversEntries, Done
  <2>1. task = "e820" /\ input' = input /\ input \in E820Inputs
    BY <1>2, StepAnswers DEF InputOK
  <2>2. CASE done /\ output' = output
    BY <1>2, <2>1, <2>2 DEF MapCoversEntries, Done
  <2>3. CASE ReadMap
    <3>1. output' \in E820ReadMap(input.dir, input.max)
      BY <2>3 DEF ReadMap
    <3> QED BY <2>1, <3>1, MapIs
  <2>4. ~(ListPci \/ LoadNames \/ ParseOne \/ ParseTwo \/ MapPages)
    BY <2>1 DEF ListPci, LoadNames, ParseOne, ParseTwo, MapPages
  <2> QED BY <1>2, <2>2, <2>3, <2>4, StepAnswers
<1> QED BY InitInput, StepInput, <1>1, <1>2, PTL DEF TablesSpec

\* The names of devices, whatever the databases hold: the newest is read, and a
\* device shows the last name its own vendor has for it there; a line too long for
\* the buffer may lose names and never gives a wrong one.
THEOREM DevicesHaveTheirNames == TablesSpec => []NamesAreOfTheDevice
<1>1. TablesInit => NamesAreOfTheDevice
  BY DEF TablesInit, NamesAreOfTheDevice, Done
<1>2. ASSUME InputOK, NamesAreOfTheDevice, [TablesNext]_tablesVars PROVE NamesAreOfTheDevice'
  <2> SUFFICES ASSUME task' = "names", done'
               PROVE  /\ Newest(input'.files) = IF output'.file = 0 THEN {} ELSE {output'.file}
                      /\ Known(input'.files) = {} <=> output'.file = 0
                      /\ NamesDevices(input'.devs,
                                      IF output'.file = 0 THEN <<>> ELSE input'.files[output'.file].lines,
                                      output'.names)
    BY DEF NamesAreOfTheDevice, Done
  <2>1. task = "names" /\ input' = input
    BY <1>2, StepAnswers
  <2>2. CASE done /\ output' = output
    BY <1>2, <2>1, <2>2 DEF NamesAreOfTheDevice, Done
  <2>3. CASE LoadNames
    <3>1. PICK best : best = FindPciIdsFile(input.files)
      OBVIOUS
    <3>2. PICK lines : lines = IF best = 0 THEN <<>> ELSE input.files[best].lines
      OBVIOUS
    <3>3. output' = [file |-> best, names |-> LoadPciNames(input.devs, lines)]
      BY <2>3, <3>1, <3>2 DEF LoadNames
    <3>4. output'.file = best /\ output'.names = LoadPciNames(input.devs, lines)
      BY <3>3
    <3>5. input.devs \in Devices /\ input.files \in Seq([version : Nat, lines : Seq(Line)])
      BY <1>2, <2>1, InputsAre
    <3>6. /\ best \in 0..Len(input.files)
          /\ Newest(input.files) = IF best = 0 THEN {} ELSE {best}
          /\ Known(input.files) = {} <=> best = 0
      BY <3>1, <3>5, FileIs
    <3>7. lines \in Seq(Line)
      <4>1. CASE best = 0
        BY <3>2, <4>1
      <4>2. CASE best # 0
        <5> DEFINE F == [version : Nat, lines : Seq(Line)]
        <5>1. best \in 1..Len(input.files) /\ input.files \in Seq(F)
          BY <3>5, <3>6, <4>2
        <5>2. input.files[best] \in F
          <6> HIDE DEF F
          <6> QED BY <5>1, ElementOf
        <5> QED BY <3>2, <4>2, <5>2
      <4> QED BY <4>1, <4>2
    <3>8. NamesDevices(input.devs, lines, LoadPciNames(input.devs, lines))
      BY <3>5, <3>7, LoadedNamesAre
    <3> QED BY <2>1, <3>2, <3>4, <3>6, <3>8
  <2>4. ~(ListPci \/ ReadMap \/ ParseOne \/ ParseTwo \/ MapPages)
    BY <2>1 DEF ListPci, ReadMap, ParseOne, ParseTwo, MapPages
  <2> QED BY <1>2, <2>2, <2>3, <2>4, StepAnswers
<1> QED BY InitInput, StepInput, <1>1, <1>2, PTL DEF TablesSpec

\* The arguments of memvr, of any length and for any number of digits: a prefix
\* and digits give their value, and nothing is taken but what strtoull takes.
THEOREM ArgumentsAreRead == TablesSpec => []ArgumentsAreNumbers
<1>1. TablesInit => ArgumentsAreNumbers
  BY DEF TablesInit, ArgumentsAreNumbers, Done
<1>2. ASSUME InputOK, ArgumentsAreNumbers, [TablesNext]_tablesVars PROVE ArgumentsAreNumbers'
  <2>1. ASSUME task' = "hex", done' PROVE Reads(output', input')
    <3>1. task = "hex" /\ input' = input
      BY <1>2, <2>1, StepAnswers
    <3>2. CASE done /\ output' = output
      BY <1>2, <3>1, <3>2 DEF ArgumentsAreNumbers, Done
    <3>3. CASE ParseOne
      <4>1. output' = ParseHex(input) /\ input \in Seq(Nat)
        BY <1>2, <3>1, <3>3, InputsAre DEF ParseOne
      <4>2. Reads(ParseHex(input), input)
        BY <4>1, ParseHexIs
      <4> QED BY <3>1, <4>1, <4>2
    <3>4. ~(ListPci \/ ReadMap \/ LoadNames \/ ParseTwo \/ MapPages)
      BY <3>1 DEF ListPci, ReadMap, LoadNames, ParseTwo, MapPages
    <3> QED BY <1>2, <2>1, <3>2, <3>3, <3>4, StepAnswers
  <2>2. ASSUME task' = "pair", done', NEW i \in DOMAIN input', input'[i] = Slash,
               \A j \in 1..(i - 1) : input'[j] # Slash
        PROVE  /\ Reads(output'[1], SubSeq(input', 1, i - 1))
               /\ Reads(output'[2], SubSeq(input', i + 1, Len(input')))
    <3>1. task = "pair" /\ input' = input
      BY <1>2, <2>2, StepAnswers
    <3>2. CASE done /\ output' = output
      BY <1>2, <2>2, <3>1, <3>2 DEF ArgumentsAreNumbers, Done
    <3>3. CASE ParseTwo
      <4>1. output' = ParseTwoParameters(input) /\ input \in Seq(Nat)
        BY <1>2, <3>1, <3>3, InputsAre DEF ParseTwo
      <4>2. i \in 1..Len(input) /\ input[i] = Slash /\ \A j \in 1..(i - 1) : input[j] # Slash
        BY <2>2, <3>1, <4>1
      <4>3. /\ Reads(ParseTwoParameters(input)[1], SubSeq(input, 1, i - 1))
            /\ Reads(ParseTwoParameters(input)[2], SubSeq(input, i + 1, Len(input)))
        BY <4>1, <4>2, PairIs
      <4> QED BY <3>1, <4>1, <4>3
    <3>4. ~(ListPci \/ ReadMap \/ LoadNames \/ ParseOne \/ MapPages)
      BY <3>1 DEF ListPci, ReadMap, LoadNames, ParseOne, MapPages
    <3> QED BY <1>2, <2>2, <3>2, <3>3, <3>4, StepAnswers
  <2> QED BY <2>1, <2>2 DEF ArgumentsAreNumbers, Done
<1> QED BY InitInput, StepInput, <1>1, <1>2, PTL DEF TablesSpec

\* The mapping behind every request of memory holds the range asked for.
THEOREM RangeIsHeld == TablesSpec => []MappingHoldsRange
<1>1. TablesInit => MappingHoldsRange
  BY DEF TablesInit, MappingHoldsRange, Done
<1>2. ASSUME InputOK, MappingHoldsRange, [TablesNext]_tablesVars PROVE MappingHoldsRange'
  <2> SUFFICES ASSUME task' = "range", done' PROVE HoldsRange(input'.addr, input'.len, output')
    BY DEF MappingHoldsRange, Done
  <2>1. task = "range" /\ input' = input
    BY <1>2, StepAnswers
  <2>2. CASE done /\ output' = output
    BY <1>2, <2>1, <2>2 DEF MappingHoldsRange, Done
  <2>3. CASE MapPages
    <3>1. PICK addr \in Nat : addr = input.addr
      BY <1>2, <2>1, InputsAre
    <3>2. PICK len \in Nat \ {0} : len = input.len
      BY <1>2, <2>1, InputsAre
    <3>3. addr < WordSpace /\ len + 2 * PageSize <= WordSpace
      BY <1>2, <2>1, <3>1, <3>2, InputsAre
    <3>4. (addr % PageSize) + len + PageSize <= WordSpace
      <4>1. PICK p \in Nat \ {0} : p = PageSize
        BY MapRangeAssumption
      <4>2. PICK o \in 0..(p - 1) : o = addr % p
        OBVIOUS
      <4>3. WordSpace \in Nat
        BY MapRangeAssumption
      <4> QED BY <3>3, <4>1, <4>2, <4>3
    <3>5. HoldsRange(addr, len, MapLen(addr, len))
      BY <3>3, <3>4, MappingHolds
    <3>6. output' = MapLen(addr, len)
      BY <2>3, <3>1, <3>2 DEF MapPages
    <3> QED BY <2>1, <3>1, <3>2, <3>5, <3>6
  <2>4. ~(ListPci \/ ReadMap \/ LoadNames \/ ParseOne \/ ParseTwo)
    BY <2>1 DEF ListPci, ReadMap, LoadNames, ParseOne, ParseTwo
  <2> QED BY <1>2, <2>2, <2>3, <2>4, StepAnswers
<1> QED BY InitInput, StepInput, <1>1, <1>2, PTL DEF TablesSpec

===============================================================================
