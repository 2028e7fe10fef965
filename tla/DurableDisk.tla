----------------------------- MODULE DurableDisk -----------------------------
(***************************************************************************)
(* What the disk requests of fdkd promise: a write that was acknowledged   *)
(* survives every crash of the target.  The writes of a cell are numbered: *)
(* "high" is the newest that readers can see, "low" the newest that was    *)
(* acknowledged, and a crash goes back to one between them.  Disk is shown *)
(* to implement this.                                                      *)
(***************************************************************************)
EXTENDS Naturals

CONSTANT Cells

VARIABLES low, high

Init == low = [c \in Cells |-> 0] /\ high = [c \in Cells |-> 0]

Write == \E c \in Cells : high' = [high EXCEPT ![c] = @ + 1] /\ UNCHANGED low

Acknowledge ==
  /\ low' = [c \in Cells |-> low'[c]] /\ \A c \in Cells : low'[c] \in low[c]..high[c]
  /\ UNCHANGED high

Crash ==
  /\ high' = [c \in Cells |-> high'[c]] /\ \A c \in Cells : high'[c] \in low[c]..high[c]
  /\ UNCHANGED low

Next == Write \/ Acknowledge \/ Crash

Spec == Init /\ [][Next]_<<low, high>>

=============================================================================
