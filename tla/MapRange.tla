------------------------------- MODULE MapRange -------------------------------
(***************************************************************************)
(* The page arithmetic of mapRange in src_fdkd/linux/libmem.c, on unsigned *)
(* integers of 64 bits that wrap.                                          *)
(***************************************************************************)
EXTENDS Integers

CONSTANTS PageSize,
          WordSpace  \* 2^64

ASSUME MapRangeAssumption ==
  /\ PageSize \in Nat \ {0} /\ WordSpace \in Nat \ {0} /\ WordSpace % PageSize = 0

\* Rounding down to a page: & ~(pageSize - 1).
PageOf(a) == a - (a % PageSize)

Base(addr) == PageOf(addr)

\* Mutant: the first byte after the range starts no page.
EndExclusive(addr, len) == PageOf((addr + len) % WordSpace)

End(addr, len) == PageOf((addr + len + PageSize - 1) % WordSpace)

\* mapLen, the length given to mmap, and the place of addr in the mapping.
MapLen(addr, len) == (End(addr, len) - Base(addr)) % WordSpace

PtrOffset(addr) == addr - Base(addr)

\* What mapLen must be: the whole range, and no page more than it needs.
HoldsRange(addr, len, mapLen) ==
  /\ PtrOffset(addr) + len <= mapLen
  /\ mapLen < PtrOffset(addr) + len + PageSize

=============================================================================
