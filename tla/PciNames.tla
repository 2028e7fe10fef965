------------------------------- MODULE PciNames -------------------------------
(***************************************************************************)
(* The names of PCI devices: src_cfdk/pciids.c, which picks a database     *)
(* file and looks the devices of the listing up in one pass over it.       *)
(*                                                                         *)
(* A line is [kind, id, name, rest].  The kinds: "vendor" (four hex digits *)
(* at the start), "device" (the same after a tab), "sub" (two tabs, or no  *)
(* digits after one), "comment" (a blank line too), "class" ("C " at the   *)
(* start) and "junk" (anything else at the start).  rest is "none", or the *)
(* kind of what is left of a line of more than FDK_MAX_READBUF - 1 bytes;  *)
(* it is not an ID line, which would need four hex digits and a blank just *)
(* there.  A file is [version, lines]; version is a number, 0 for a file   *)
(* that is missing or has none.                                            *)
(***************************************************************************)
EXTENDS Integers, Sequences

CONSTANT NoName  \* "Unknown vendor", "Unknown device"

\* Mutant: a line that is not a vendor leaves the last vendor in place.
VendorAfterKept(s, line) == IF line.kind = "vendor" THEN line.id ELSE s.vendor

\* The vendor whose devices follow, -1 for none.
VendorAfter(s, line) ==
  IF line.kind = "vendor" THEN line.id ELSE IF line.kind = "junk" THEN -1 ELSE s.vendor

\* One turn of the loop of loadPciNames.
NameStep(devs, s, line) ==
  IF s.done \/ line.kind = "class" THEN [s EXCEPT !.done = TRUE]
  ELSE [s EXCEPT
    !.vendor = VendorAfter(s, line),
    !.ven = [i \in DOMAIN devs |->
       IF line.kind = "vendor" /\ devs[i].vendor = line.id THEN line.name ELSE @[i]],
    !.dev = [i \in DOMAIN devs |->
       IF line.kind = "device" /\ s.vendor >= 0 /\ devs[i].vendor = s.vendor /\ devs[i].device = line.id
       THEN line.name ELSE @[i]]]

\* fgets gives a long line in pieces, and the next piece is taken for a line.
LineStep(devs, s, line) ==
  LET t == NameStep(devs, s, line)
  IN  IF line.rest = "none" THEN t ELSE NameStep(devs, t, [line EXCEPT !.kind = line.rest])

Unknown(devs) == [i \in DOMAIN devs |-> NoName]

\* The names after each line.
NameStates(devs, lines) ==
  LET s[n \in 0..Len(lines)] ==
        IF n = 0 THEN [done |-> FALSE, vendor |-> -1, ven |-> Unknown(devs), dev |-> Unknown(devs)]
        ELSE LineStep(devs, s[n - 1], lines[n])
  IN  s

LoadPciNames(devs, lines) ==
  LET s == NameStates(devs, lines)[Len(lines)]
  IN  [i \in DOMAIN devs |-> [ven |-> s.ven[i], dev |-> s.dev[i]]]

\* Mutant: of equal versions the last file.
BeatsOrEquals(v, best) == best = 0 \/ v >= best

Beats(v, best) == best = 0 \/ v > best

\* findPciIdsFile: which candidate is used, 0 if none.
FindPciIdsFile(files) ==
  LET best[n \in 0..Len(files)] ==
        IF n = 0 THEN 0
        ELSE LET b == best[n - 1]
             IN  IF files[n].version # 0 /\ Beats(files[n].version, IF b = 0 THEN 0 ELSE files[b].version)
                 THEN n ELSE b
  IN  best[Len(files)]

=============================================================================
