--------------------------------- MODULE Disk ---------------------------------
(***************************************************************************)
(* diskRead and diskWrite of src_fdkd/linux/libdisk.c, run by several      *)
(* workers on one block device, with the kernel's cache of it, write-back  *)
(* that fails, transfers that end early, a server that ends and a target   *)
(* that loses power at any point.                                          *)
(*                                                                         *)
(* The content of a cell is the number of writes it holds: 0, or which of  *)
(* its writes it is.  What a cell is (a byte, a sector) does not matter.   *)
(***************************************************************************)
EXTENDS Integers, Sequences

CONSTANTS Workers,
          Size,        \* cells of the device
          HasDisk,     \* diskPath is set: -b, or diskFindDefault found a disk
          Requests,    \* [write, addr, len]
          MaxCalls,    \* bound: requests begun
          MaxCrashes   \* bound: power failures and ends of the server

ASSUME DiskAssumption ==
  /\ Size \in Nat /\ HasDisk \in BOOLEAN /\ MaxCalls \in Nat /\ MaxCrashes \in Nat
  /\ Requests # {} /\ Requests \subseteq [write : BOOLEAN, addr : Nat, len : Nat]

Cells == 0..(Size - 1)

VARIABLES cache,    \* what readers see
          disk,     \* what is on the medium
          dirty,    \* cells whose cache has yet to be written back
          pc,       \* of a worker: "idle", "open", "xfer", "fsync", "ok" or "refused"
          req,      \* its request
          moved,    \* the contents of the cells it has read or written so far
          todo,     \* cells its fsync still waits for
          failed,   \* a write-back has failed since it opened the device
          calls, crashes,
          durable,  \* auxiliary: the newest acknowledged write of a cell
          floor     \* auxiliary: "durable" when the worker's request began

vars == <<cache, disk, dirty, pc, req, moved, todo, failed, calls, crashes, durable, floor>>
workerVars == <<pc, req, moved, todo, failed>>

IsOpen(w) == pc[w] \in {"xfer", "fsync"}
Zero == [c \in Cells |-> 0]

Init ==
  /\ cache = Zero /\ disk = Zero /\ dirty = {}
  /\ pc = [w \in Workers |-> "idle"]
  /\ req = [w \in Workers |-> CHOOSE r \in Requests : TRUE]  \* not a request yet
  /\ moved = [w \in Workers |-> <<>>] /\ todo = [w \in Workers |-> {}]
  /\ failed = [w \in Workers |-> FALSE]
  /\ calls = 0 /\ crashes = 0
  /\ durable = Zero /\ floor = [w \in Workers |-> Zero]

Begin(w, r) ==
  /\ pc[w] = "idle" /\ calls < MaxCalls
  /\ calls' = calls + 1
  /\ pc' = [pc EXCEPT ![w] = IF HasDisk /\ r.len > 0 THEN "open" ELSE "refused"]
  /\ req' = [req EXCEPT ![w] = r] /\ moved' = [moved EXCEPT ![w] = <<>>]
  /\ floor' = [floor EXCEPT ![w] = durable]
  /\ UNCHANGED <<cache, disk, dirty, todo, failed, crashes, durable>>

\* open fails, for want of a descriptor, or with EBUSY for a mounted disk.
Open(w) ==
  /\ pc[w] = "open"
  /\ \E place \in {"xfer", "refused"} : pc' = [pc EXCEPT ![w] = place]
  /\ failed' = [failed EXCEPT ![w] = FALSE]
  /\ UNCHANGED <<cache, disk, dirty, req, moved, todo, calls, crashes, durable, floor>>

\* len, the limit of pread and pwrite.
More(w) == Len(moved[w]) < req[w].len

\* pread and pwrite, one cell.
MoveCell(w) ==
  LET a == req[w].addr + Len(moved[w])
  IN  /\ pc[w] = "xfer" /\ More(w) /\ a \in Cells
      /\ cache' = IF req[w].write THEN [cache EXCEPT ![a] = @ + 1] ELSE cache
      /\ dirty' = IF req[w].write THEN dirty \cup {a} ELSE dirty
      /\ moved' = [moved EXCEPT ![w] = Append(@, cache'[a])]
      /\ UNCHANGED <<disk, pc, req, todo, failed, calls, crashes, durable, floor>>

\* Mutant: the result of fsync decides, not the number of bytes.
AfterXferAnyLength(w) == IF req[w].write THEN "fsync" ELSE "ok"

\* Mutant: no fsync.
AfterXferNoSync(w) == IF Len(moved[w]) = req[w].len THEN "ok" ELSE "refused"

\* n == len, or not.
AfterXfer(w) ==
  IF Len(moved[w]) # req[w].len THEN "refused"
  ELSE IF req[w].write THEN "fsync" ELSE "ok"

\* pread or pwrite returns: at the end of the request or of the device, or
\* early; fsync is entered.
XferEnds(w) ==
  /\ pc[w] = "xfer"
  /\ pc' = [pc EXCEPT ![w] = AfterXfer(w)]
  /\ todo' = [todo EXCEPT ![w] = IF pc'[w] = "fsync" THEN dirty ELSE {}]
  /\ UNCHANGED <<cache, disk, dirty, req, moved, failed, calls, crashes, durable, floor>>

\* Mutant: the result of fsync is dropped.
SyncedUnchecked(w) == {"ok"}

\* What diskWrite returns for what fsync does: success only when everything it
\* waited for was written back and nothing failed since open.
Synced(w) == IF todo[w] = {} /\ ~failed[w] THEN {"ok", "refused"} ELSE {"refused"}

FsyncReturns(w) ==
  /\ pc[w] = "fsync"
  /\ \E place \in Synced(w) : pc' = [pc EXCEPT ![w] = place]
  /\ todo' = [todo EXCEPT ![w] = {}]
  /\ UNCHANGED <<cache, disk, dirty, req, moved, failed, calls, crashes, durable, floor>>

Newer(a, b) == IF a > b THEN a ELSE b

\* close, and the response leaves: from here on the client knows.
Reply(w) ==
  /\ pc[w] \in {"ok", "refused"}
  /\ pc' = [pc EXCEPT ![w] = "idle"]
  /\ durable' = [c \in Cells |->
       LET i == c - req[w].addr + 1
       IN  IF pc[w] = "ok" /\ req[w].write /\ i \in DOMAIN moved[w]
           THEN Newer(durable[c], moved[w][i]) ELSE durable[c]]
  /\ UNCHANGED <<cache, disk, dirty, req, moved, todo, failed, calls, crashes, floor>>

-----------------------------------------------------------------------------
(* The kernel and the target.                                               *)

\* A dirty cell is written back, for an fsync or by the way; or that fails: then
\* it is not tried again, and everyone who has the device open will be told.
WriteBack(c) ==
  /\ c \in dirty /\ dirty' = dirty \ {c}
  /\ todo' = [w \in Workers |-> todo[w] \ {c}]
  /\ \/ disk' = [disk EXCEPT ![c] = cache[c]] /\ UNCHANGED failed
     \/ failed' = [w \in Workers |-> failed[w] \/ IsOpen(w)] /\ UNCHANGED disk
  /\ UNCHANGED <<cache, pc, req, moved, calls, crashes, durable, floor>>

\* The workers are gone and their requests are never answered; the server is
\* started again.  Without power the cache is lost as well.
WorkersGone ==
  /\ crashes < MaxCrashes /\ crashes' = crashes + 1
  /\ pc' = [w \in Workers |-> "idle"] /\ todo' = [w \in Workers |-> {}]
  /\ UNCHANGED <<disk, req, moved, failed, calls, durable, floor>>

ServerEnds == WorkersGone /\ UNCHANGED <<cache, dirty>>

PowerFails == WorkersGone /\ cache' = disk /\ dirty' = {}

Next ==
  \/ \E w \in Workers, r \in Requests : Begin(w, r)
  \/ \E w \in Workers : Open(w) \/ MoveCell(w) \/ XferEnds(w) \/ FsyncReturns(w) \/ Reply(w)
  \/ \E c \in Cells : WriteBack(c)
  \/ ServerEnds \/ PowerFails

Spec == Init /\ [][Next]_vars

-----------------------------------------------------------------------------
(* Properties.                                                              *)

\* Type invariant.
TypeOK ==
  /\ cache \in [Cells -> Nat] /\ disk \in [Cells -> Nat] /\ durable \in [Cells -> Nat]
  /\ dirty \subseteq Cells
  /\ pc \in [Workers -> {"idle", "open", "xfer", "fsync", "ok", "refused"}]
  /\ req \in [Workers -> Requests]
  /\ moved \in [Workers -> Seq(Nat)]
  /\ \A w \in Workers : Len(moved[w]) <= req[w].len
  /\ todo \in [Workers -> SUBSET Cells]
  /\ failed \in [Workers -> BOOLEAN]
  /\ calls \in 0..MaxCalls /\ crashes \in 0..MaxCrashes
  /\ floor \in [Workers -> [Cells -> Nat]]

\* A write that was reported as done is on the medium, or a newer one is:
\* diskWrite returns 0 only after an fsync that succeeded.
AcknowledgedIsOnDisk == \A c \in Cells : durable[c] <= disk[c]

\* A read that succeeds has every byte of the request, and none is older than a
\* write acknowledged before it began, crashes in between included.
ReadsSeeAcknowledged ==
  \A w \in Workers : pc[w] = "ok" /\ ~req[w].write =>
    /\ Len(moved[w]) = req[w].len
    /\ \A i \in 1..Len(moved[w]) : moved[w][i] >= floor[w][req[w].addr + i - 1]

\* The requests keep the promise of DurableDisk.
Durable == INSTANCE DurableDisk WITH low <- durable, high <- cache
ImplementsDurable == Durable!Spec

=============================================================================
