---------------------------- MODULE MCIndexedPorts ----------------------------
(* IndexedPorts with banks of four cells and functions of eight registers:   *)
(* accesses inside a bank, across both, up to and past the end of a space.    *)
EXTENDS IndexedPorts

MCRequests ==
  {[space |-> s, addr |-> a, len |-> n] : s \in {"cmos"}, a \in {1, 3, 6}, n \in {1, 2, 3}}
    \cup {[space |-> "pci", addr |-> a, len |-> n] : a \in {2, 6, 9}, n \in {2, 3}}

=============================================================================
