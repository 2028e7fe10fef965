------------------------------- MODULE E820Map -------------------------------
(***************************************************************************)
(* e820ReadMap of src_fdkd/linux/libe820.c: the firmware's memory map, read *)
(* from a directory of [start, end, type, ok] in the order readdir gives.  *)
(* ok says that the three files of an entry could be read.                 *)
(***************************************************************************)
EXTENDS Listing

CONSTANT AddressSpace  \* 2^64

ASSUME E820Assumption == AddressSpace \in Nat \ {0}

KnownTypes == {"RAM", "RESERVED", "ACPI", "NVS", "UNUSABLE", "PMEM", "SOFT_RESERVED"}

TypeFromName(name) == IF name \in KnownTypes THEN name ELSE "RESERVED"

\* Mutant: the end of an entry taken for the byte after it.
LengthOfExclusive(e) == (e.end - e.start) % AddressSpace

\* end is inclusive.  A 64-bit length: of the whole address space it is 0.
LengthOf(e) == (e.end - e.start + 1) % AddressSpace

E820Record(e) == [baseAddr |-> e.start, length |-> LengthOf(e), type |-> TypeFromName(e.type)]

IsRange(e) == e.ok /\ e.start <= e.end

\* The maps it may return: entries with the same start come in any order.
E820ReadMap(dir, max) ==
  LET kept == FirstOf({i \in DOMAIN dir : IsRange(dir[i])}, max)
  IN  {[k \in DOMAIN q |-> E820Record(dir[q[k]])] : q \in Sorted(kept, [i \in DOMAIN dir |-> dir[i].start])}

=============================================================================
