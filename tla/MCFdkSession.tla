----------------------------- MODULE MCFdkSession -----------------------------
(* FdkSession with two connections and a register of two bytes.              *)
EXTENDS FdkSession, TLC

CONSTANTS k1, k2
MCConns == {k1, k2}

MCWords == {<<0, 0>>, <<1, 1>>}

MCReadByte  == [write |-> FALSE, addr |-> 1, bytes |-> <<0>>]
MCWriteWord == [write |-> TRUE,  addr |-> 0, bytes |-> <<0, 1>>]

\* A write that overlaps a read of its second byte.
MCCalls == {MCReadByte, MCWriteWord}

\* A second call follows the first on one connection, next to one on the other.
MCMaxCalls == (k1 :> 2) @@ (k2 :> 1)

=============================================================================
