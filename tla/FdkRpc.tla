-------------------------------- MODULE FdkRpc --------------------------------
(***************************************************************************)
(* What a memory request promises the program that makes it, whatever the  *)
(* connection does in between: the bytes are moved one at a time and in    *)
(* ascending order, each at most once; a call that returns success has     *)
(* moved them all and nothing of it happens later; a call that failed      *)
(* because the connection broke may have moved some, and may still move    *)
(* more.  FdkSession is shown to implement this.                           *)
(***************************************************************************)
EXTENDS Naturals, Sequences

CONSTANTS Conns,  \* connections, each with one call at a time
          Calls,  \* [write, addr, bytes]; of a read only the number of bytes counts
          Words   \* what the device may change the memory to

VARIABLES mem,      \* the memory cells, a sequence of bytes
          call,     \* the current or last call of a connection
          outcome,  \* "idle", "pending", "ok", "refused" or "failed"
          moved,    \* bytes of it moved so far
          data      \* what its last successful read returned

vars == <<mem, call, outcome, moved, data>>

Init ==
  /\ mem \in Words /\ call \in [Conns -> Calls]
  /\ outcome = [k \in Conns |-> "idle"]
  /\ moved = [k \in Conns |-> <<>>] /\ data = [k \in Conns |-> <<>>]

Begin(k, c) ==
  /\ outcome[k] \in {"idle", "ok", "refused"}
  /\ call' = [call EXCEPT ![k] = c]
  /\ outcome' = [outcome EXCEPT ![k] = "pending"]
  /\ moved' = [moved EXCEPT ![k] = <<>>]
  /\ UNCHANGED <<mem, data>>

Move(k) ==
  LET i == Len(moved[k]) + 1
      a == call[k].addr + i
  IN  /\ outcome[k] \in {"pending", "failed"} /\ i <= Len(call[k].bytes)
      /\ mem' = IF call[k].write THEN [mem EXCEPT ![a] = call[k].bytes[i]] ELSE mem
      /\ moved' = [moved EXCEPT ![k] = Append(@, mem'[a])]
      /\ UNCHANGED <<call, outcome, data>>

Return(k) ==
  /\ outcome[k] = "pending" /\ Len(moved[k]) = Len(call[k].bytes)
  /\ outcome' = [outcome EXCEPT ![k] = "ok"]
  /\ data' = IF call[k].write THEN data ELSE [data EXCEPT ![k] = moved[k]]
  /\ UNCHANGED <<mem, call, moved>>

\* The hardware refused it, possibly after some of the bytes.
Refuse(k) ==
  /\ outcome[k] = "pending" /\ Len(moved[k]) < Len(call[k].bytes)
  /\ outcome' = [outcome EXCEPT ![k] = "refused"]
  /\ UNCHANGED <<mem, call, moved, data>>

Fail(k) ==
  /\ outcome[k] = "pending"
  /\ outcome' = [outcome EXCEPT ![k] = "failed"]
  /\ UNCHANGED <<mem, call, moved, data>>

Hardware == mem' \in Words /\ UNCHANGED <<call, outcome, moved, data>>

Next ==
  \/ \E k \in Conns, c \in Calls : Begin(k, c)
  \/ \E k \in Conns : Move(k) \/ Return(k) \/ Refuse(k) \/ Fail(k)
  \/ Hardware

Spec == Init /\ [][Next]_vars

=============================================================================
