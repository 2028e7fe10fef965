-------------------------------- MODULE Tables --------------------------------
(***************************************************************************)
(* The pure parts of the programs, each against a definition of what it    *)
(* should compute: the PCI listing, the firmware memory map, the names of  *)
(* devices, the arguments of memvr and the page arithmetic of mapRange.    *)
(* An input is picked, and a step computes the output.                     *)
(***************************************************************************)
EXTENDS PciList, E820Map, PciNames, Arguments, MapRange

CONSTANTS PciInputs,    \* [dir, max, legacy, reach]
          E820Inputs,   \* [dir, max]
          NameInputs,   \* [devs, files]
          HexInputs,    \* texts
          PairInputs,   \* texts with a slash
          RangeInputs   \* [addr, len]

PciEntry == [seg : Nat, bus : Nat, dev : Nat, fun : Nat, ok : BOOLEAN]
E820Entry == [start : 0..(AddressSpace - 1), end : 0..(AddressSpace - 1), type : STRING, ok : BOOLEAN]
Line == [kind : {"vendor", "device", "sub", "comment", "class", "junk"}, id : Nat, name : STRING,
         rest : {"none", "comment", "class", "junk"}]

\* The kernel lists a function once; and a range is of a request, whose length
\* leaves two pages of the address space at least.
ASSUME TablesAssumption ==
  /\ PciInputs \subseteq [dir : Seq(PciEntry), max : Nat, legacy : BOOLEAN, reach : Nat]
  /\ \A in \in PciInputs : \A i, j \in DOMAIN in.dir : NameOf(in.dir[i]) = NameOf(in.dir[j]) => i = j
  /\ E820Inputs \subseteq [dir : Seq(E820Entry), max : Nat]
  /\ NameInputs \subseteq [devs : Seq([vendor : Nat, device : Nat]), files : Seq([version : Nat, lines : Seq(Line)])]
  /\ HexInputs \subseteq Seq(Nat) /\ PairInputs \subseteq Seq(Nat)
  /\ RangeInputs \subseteq [addr : 0..(WordSpace - 1), len : Nat \ {0}]
  /\ \A in \in RangeInputs : in.len + 2 * PageSize <= WordSpace

VARIABLES task,    \* "pci", "e820", "names", "hex", "pair" or "range"
          input, output,
          done     \* output is there

tablesVars == <<task, input, output, done>>

TablesInit ==
  /\ \/ task = "pci" /\ input \in PciInputs
     \/ task = "e820" /\ input \in E820Inputs
     \/ task = "names" /\ input \in NameInputs
     \/ task = "hex" /\ input \in HexInputs
     \/ task = "pair" /\ input \in PairInputs
     \/ task = "range" /\ input \in RangeInputs
  /\ output = <<>> /\ done = FALSE

\* pciListDevices: sysfs, or the ports when there is none.
ListPci ==
  /\ task = "pci"
  /\ output' \in IF input.legacy THEN PciListLegacy(input.dir, input.max, input.reach)
                 ELSE PciListSysfs(input.dir, input.max)

ReadMap == task = "e820" /\ output' \in E820ReadMap(input.dir, input.max)

\* The files are those findPciIdsFile looks at, or the one given with -p.
LoadNames ==
  /\ task = "names"
  /\ LET best == FindPciIdsFile(input.files)
     IN  output' = [file |-> best,
                    names |-> LoadPciNames(input.devs, IF best = 0 THEN <<>> ELSE input.files[best].lines)]

ParseOne == task = "hex" /\ output' = ParseHex(input)

ParseTwo == task = "pair" /\ output' = ParseTwoParameters(input)

MapPages == task = "range" /\ output' = MapLen(input.addr, input.len)

TablesNext ==
  /\ ~done /\ done' = TRUE /\ UNCHANGED <<task, input>>
  /\ ListPci \/ ReadMap \/ LoadNames \/ ParseOne \/ ParseTwo \/ MapPages

TablesSpec == TablesInit /\ [][TablesNext]_tablesVars

Done(t) == task = t /\ done

-----------------------------------------------------------------------------
(* Properties.                                                              *)

\* The places in the directory of the functions the listing should show: those
\* with an address and a readable configuration space, and through the ports
\* those of segment 0 before the first access that fails.
Shown(in) ==
  {i \in DOMAIN in.dir :
     LET e == in.dir[i]
     IN  /\ e.ok /\ e.seg < 128 /\ e.bus < 256 /\ e.dev < 32 /\ e.fun < 8
         /\ in.legacy => e.seg = 0 /\ (e.bus * 32 + e.dev) * 8 + e.fun < in.reach}

Present(in) == {NameOf(in.dir[i]) : i \in Shown(in)}

Before(a, b) ==
  \/ a.seg < b.seg
  \/ a.seg = b.seg /\ a.bus < b.bus
  \/ a.seg = b.seg /\ a.bus = b.bus /\ a.dev < b.dev
  \/ a.seg = b.seg /\ a.bus = b.bus /\ a.dev = b.dev /\ a.fun < b.fun

ListsDevices(in, out) ==
  /\ Len(out) = IF Cardinality(Present(in)) < in.max THEN Cardinality(Present(in)) ELSE in.max
  /\ \A i \in DOMAIN out :
       out[i].ids \in Present(in) /\ PciSysfsConfigPath(CalculatePciAddress(out[i])) = out[i].ids
  /\ \A i, j \in DOMAIN out : i < j => Before(out[i].ids, out[j].ids)

\* The listing is in order of segment, bus, device and function, with no device
\* twice; it has every device there is when there is room (and as many as there
\* is room for otherwise); and the address cfdk computes from an entry opens the
\* very device whose IDs the entry shows.
ListedDevicesAreReached == Done("pci") => ListsDevices(input, output)

Ranges(in) == {i \in DOMAIN in.dir : in.dir[i].ok /\ in.dir[i].start <= in.dir[i].end}

InEntry(in, x) == \E i \in Ranges(in) : in.dir[i].start <= x /\ x <= in.dir[i].end

InRecord(out, x) == \E i \in DOMAIN out : out[i].baseAddr <= x /\ x - out[i].baseAddr < out[i].length

CoversEntries(in, out) ==
  /\ \A i \in 1..(Len(out) - 1) : out[i].baseAddr <= out[i + 1].baseAddr
  /\ \A x \in 0..(AddressSpace - 1) : InRecord(out, x) => InEntry(in, x)
  /\ Cardinality(Ranges(in)) <= in.max
       /\ (\A i \in Ranges(in) : in.dir[i].end - in.dir[i].start # AddressSpace - 1) =>
     \A x \in 0..(AddressSpace - 1) : InEntry(in, x) => InRecord(out, x)

\* The memory map is sorted by base address, and a byte is in a record exactly
\* when it is in an entry of the firmware's map, as far as there is room.  An
\* entry that is the whole 64-bit space is excepted: its length does not fit.
MapCoversEntries == Done("e820") => CoversEntries(input, output)

LastOf(S) == IF S = {} THEN 0 ELSE CHOOSE i \in S : \A j \in S : j <= i

Known(files) == {i \in DOMAIN files : files[i].version # 0}

\* The newest of the files, the first if several are.
Newest(files) ==
  {i \in Known(files) : \A j \in Known(files) :
     files[j].version < files[i].version \/ (files[j].version = files[i].version /\ i <= j)}

\* The lines that count are those before the list of classes.
Live(lines) == {i \in DOMAIN lines : \A j \in 1..i : lines[j].kind # "class"}

VendorLines(lines, d) == {i \in Live(lines) : lines[i].kind = "vendor" /\ lines[i].id = d.vendor}

\* The line a device line belongs to: the last unindented one, which may be junk.
Owner(lines, i) == LastOf({j \in 1..i : lines[j].kind \in {"vendor", "junk"}})

DeviceLines(lines, d) ==
  {i \in Live(lines) : lines[i].kind = "device" /\ lines[i].id = d.device /\ Owner(lines, i) \in VendorLines(lines, d)}

NameAt(lines, S) == IF S = {} THEN NoName ELSE lines[LastOf(S)].name

NamesDevices(devs, lines, names) ==
  \A k \in DOMAIN devs :
    LET V == VendorLines(lines, devs[k])
        D == DeviceLines(lines, devs[k])
    IN  /\ names[k].ven \in {NoName} \cup {lines[i].name : i \in V}
        /\ names[k].dev \in {NoName} \cup {lines[i].name : i \in D}
        /\ (\A i \in DOMAIN lines : lines[i].rest = "none") =>
             names[k].ven = NameAt(lines, V) /\ names[k].dev = NameAt(lines, D)

\* A device shows the name its own vendor has for it in the newest database (the
\* first of the candidates if several are): from the last such line before the
\* list of classes, where an unindented line of any other kind closes a vendor's
\* list.  It shows a name whenever there is one and no line is too long for the
\* buffer; such a line may lose names, but never gives a wrong one.
NamesAreOfTheDevice ==
  Done("names") =>
    /\ Newest(input.files) = IF output.file = 0 THEN {} ELSE {output.file}
    /\ Known(input.files) = {} <=> output.file = 0
    /\ NamesDevices(input.devs, IF output.file = 0 THEN <<>> ELSE input.files[output.file].lines, output.names)

IsToken(s) ==
  Len(s) \in 3..(MaxDigits + 2) /\ s[1] = 0 /\ s[2] = X /\ \A i \in 3..Len(s) : IsDigit(s[i])

\* Blanks, a sign or a second prefix, which strtoull takes and parseHex does not
\* look for.
IsLoose(s) == \E i \in 3..Len(s) : s[i] \in {Blank, Minus, Plus, X}

Reads(r, s) ==
  /\ IsToken(s) => r = [ok |-> TRUE, value |-> Number(SubSeq(s, 3, Len(s)))]
  /\ r.ok => (IsToken(s) \/ IsLoose(s)) /\ r.value < Values

\* "0x" with 1 to 16 hex digits gives its value, and nothing else is accepted
\* but what strtoull takes beside it; a pair is two such texts around its first
\* slash.
ArgumentsAreNumbers ==
  /\ Done("hex") => Reads(output, input)
  /\ Done("pair") =>
       \A i \in DOMAIN input :
         input[i] = Slash /\ (\A j \in 1..(i - 1) : input[j] # Slash) =>
           /\ Reads(output[1], SubSeq(input, 1, i - 1))
           /\ Reads(output[2], SubSeq(input, i + 1, Len(input)))

\* The mapping mapRange asks for holds the whole range and no page more than it
\* needs, although addr + len + pageSize - 1 may wrap.
MappingHoldsRange ==
  Done("range") => HoldsRange(input.addr, input.len, output)

=============================================================================
