------------------------------ MODULE MCFdkdMain ------------------------------
(* FdkdMain with a few connections and a descriptor table that fills up. *)
EXTENDS FdkdMain, TLC

CONSTANTS c1, c2
MCConns == {c1, c2}

=============================================================================
