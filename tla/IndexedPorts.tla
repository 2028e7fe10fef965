----------------------------- MODULE IndexedPorts -----------------------------
(***************************************************************************)
(* Register files behind an index port and a data port: the two banks of   *)
(* the CMOS (cmosAccess in src_fdkd/linux/libport.c) and the legacy PCI    *)
(* configuration mechanism (pciLegacyAccess in src_fdkd/linux/libpci.c).   *)
(* Every worker of the server moves bytes through them one by one, each    *)
(* with a write of the index and then an access to the data port; nothing  *)
(* in the code keeps two workers apart.                                    *)
(***************************************************************************)
EXTENDS Naturals, Sequences

CONSTANTS Workers,   \* threads of the server
          Requests,  \* accesses: [space, addr, len]
          BankSize,  \* FDK_CMOS_BANK_SIZE, cells of one CMOS bank
          RegCount,  \* registers of one PCI function the ports reach (256)
          Exclusive  \* whether clients leave each other's index ports alone

ASSUME IndexedPortsAssumption ==
  /\ BankSize \in Nat \ {0} /\ RegCount \in Nat \ {0} /\ RegCount % 4 = 0
  /\ Exclusive \in BOOLEAN
  /\ Requests \subseteq [space : {"cmos", "pci"}, addr : Nat, len : Nat] /\ Requests # {}

VARIABLES index,    \* the value in each index port
          pc,       \* of a worker: "idle", "index", "data", "done"
          req,      \* its current or last access
          touched,  \* the cells that access has read or written
          result    \* "none", "ok" (0) or "failed" (-1)

vars == <<index, pc, req, touched, result>>

CmosSize == 2 * BankSize

\* 70h/71h, 72h/73h and CF8h/CFCh.
Pairs == {"rtc", "ext", "cf8"}

\* Type invariant.
TypeOK ==
  /\ index \in [Pairs -> Nat]
  /\ pc \in [Workers -> {"idle", "index", "data", "done"}]
  /\ req \in [Workers -> Requests]
  /\ result \in [Workers -> {"none", "ok", "failed"}]
  /\ \A w \in Workers : touched[w] \in Seq({"cmos", "pci"} \X Nat) /\ Len(touched[w]) <= req[w].len

Init ==
  /\ index = [p \in Pairs |-> 0]
  /\ pc = [w \in Workers |-> "idle"]
  /\ req = [w \in Workers |-> CHOOSE r \in Requests : TRUE]
  /\ touched = [w \in Workers |-> <<>>]
  /\ result = [w \in Workers |-> "none"]

-----------------------------------------------------------------------------
(* How offset off of a space is reached.                                    *)

Pair(space, off) ==
  IF space = "pci" THEN "cf8" ELSE IF off < BankSize THEN "rtc" ELSE "ext"

\* Mutant: the offset is not reduced to its bank.
IndexValueUnmasked(space, off) == IF space = "pci" THEN off - (off % 4) ELSE off

\* PCI registers are selected four at a time, CMOS cells within their bank.
IndexValue(space, off) == IF space = "pci" THEN off - (off % 4) ELSE off % BankSize

\* The cell behind the data port: of a PCI register, lane (CFCh + lane).
CellBehind(pair, lane) ==
  IF pair = "cf8" THEN <<"pci", index[pair] + lane>>
  ELSE <<"cmos", index[pair] + (IF pair = "ext" THEN BankSize ELSE 0)>>

Offset(w) == req[w].addr + Len(touched[w])

\* Mutant: the last register is passed by one.
InReachByOne(r, i) == i < r.len /\ (r.space = "pci" => (r.addr % RegCount) + i <= RegCount)

\* Mutant: the loop runs once too often.
InReachInclusive(r, i) == i <= r.len /\ (r.space = "pci" => (r.addr % RegCount) + i < RegCount)

\* Whether byte i of the access is still carried out: a PCI access stops at the
\* last register of its function.
InReach(r, i) == i < r.len /\ (r.space = "pci" => (r.addr % RegCount) + i < RegCount)

\* The pairs an access goes through.
Uses(r) == {Pair(r.space, r.addr + i) : i \in {j \in 0..r.len : j < r.len}}

-----------------------------------------------------------------------------

\* cmosAccess refuses a range past the end; permission to use the ports can be
\* missing in both.
Begin(w, r) ==
  /\ pc[w] = "idle"
  /\ Exclusive => \A v \in Workers \ {w} : pc[v] # "idle" => Uses(req[v]) \cap Uses(r) = {}
  /\ req' = [req EXCEPT ![w] = r] /\ touched' = [touched EXCEPT ![w] = <<>>]
  /\ \/ /\ r.space = "cmos" => r.addr + r.len <= CmosSize
        /\ pc' = [pc EXCEPT ![w] = "index"] /\ result' = [result EXCEPT ![w] = "none"]
     \/ pc' = [pc EXCEPT ![w] = "done"] /\ result' = [result EXCEPT ![w] = "failed"]
  /\ UNCHANGED index

\* pwrite to the port device can fail; out instructions cannot.
WriteIndex(w) ==
  LET r == req[w]
  IN  /\ pc[w] = "index" /\ InReach(r, Len(touched[w]))
      /\ \/ /\ index' = [index EXCEPT ![Pair(r.space, Offset(w))] = IndexValue(r.space, Offset(w))]
            /\ pc' = [pc EXCEPT ![w] = "data"] /\ UNCHANGED result
         \/ /\ r.space = "cmos"
            /\ pc' = [pc EXCEPT ![w] = "done"] /\ result' = [result EXCEPT ![w] = "failed"]
            /\ UNCHANGED index
      /\ UNCHANGED <<req, touched>>

AccessData(w) ==
  LET r == req[w]
  IN  /\ pc[w] = "data"
      /\ \/ /\ touched' = [touched EXCEPT ![w] =
                 Append(@, CellBehind(Pair(r.space, Offset(w)), Offset(w) % 4))]
            /\ pc' = [pc EXCEPT ![w] = "index"] /\ UNCHANGED result
         \/ /\ r.space = "cmos"
            /\ pc' = [pc EXCEPT ![w] = "done"] /\ result' = [result EXCEPT ![w] = "failed"]
            /\ UNCHANGED touched
      /\ UNCHANGED <<index, req>>

\* The loop ends: with all bytes, or at the last register of the function.
Finish(w) ==
  /\ pc[w] = "index" /\ ~InReach(req[w], Len(touched[w]))
  /\ pc' = [pc EXCEPT ![w] = "done"]
  /\ result' = [result EXCEPT ![w] = IF Len(touched[w]) = req[w].len THEN "ok" ELSE "failed"]
  /\ UNCHANGED <<index, req, touched>>

\* The worker answers and waits for the next request.
Answer(w) ==
  /\ pc[w] = "done" /\ pc' = [pc EXCEPT ![w] = "idle"]
  /\ UNCHANGED <<index, req, touched, result>>

Next ==
  \E w \in Workers :
    \/ \E r \in Requests : Begin(w, r)
    \/ WriteIndex(w) \/ AccessData(w) \/ Finish(w) \/ Answer(w)

Spec == Init /\ [][Next]_vars

-----------------------------------------------------------------------------
(* Properties.                                                              *)

\* The cell an offset names.
Cell(space, off) == <<space, off>>

\* Byte i of an access was read from, or written to, the cell its offset names:
\* offsets 00h-7Fh in one bank, 80h-FFh in the other (the comment on cmosRead),
\* a PCI register in the function that was addressed.
CellsAsAddressed ==
  \A w \in Workers : \A i \in 1..Len(touched[w]) :
    touched[w][i] = Cell(req[w].space, req[w].addr + i - 1)

\* A PCI access never runs on into the next function, and one that reached every
\* byte asked for is the only one reported as a success.
StaysInFunction ==
  \A w \in Workers :
    /\ \A i \in 1..Len(touched[w]) :
         touched[w][i][1] = "pci" => touched[w][i][2] \div RegCount = req[w].addr \div RegCount
    /\ result[w] = "ok" => Len(touched[w]) = req[w].len

=============================================================================
