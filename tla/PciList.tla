------------------------------- MODULE PciList -------------------------------
(***************************************************************************)
(* The PCI device listing: how pciListDevices of                           *)
(* src_fdkd/linux/libpci.c collects and sorts it, what a packet carries of *)
(* it, and how cfdk turns an entry into the address of the device's        *)
(* configuration space and the server turns that back into a device.       *)
(*                                                                         *)
(* A directory entry is [seg, bus, dev, fun, ok], in the order readdir     *)
(* gives it; ok says that its config file could be read.  The IDs found    *)
(* there stand for the function they were read from.  The enable bit of an *)
(* address is left out: nothing looks at it.                               *)
(***************************************************************************)
EXTENDS Listing

PCI_SEG_MASK == 127
PCI_BUS_MASK == 255
PCI_DEV_MASK == 31
PCI_FUNC_MASK == 7

NameOf(e) == [seg |-> e.seg, bus |-> e.bus, dev |-> e.dev, fun |-> e.fun]

\* Mutant: segments of 8 bits.
FitsAnySegment(e) == e.seg <= 255 /\ e.bus <= PCI_BUS_MASK /\ e.dev <= PCI_DEV_MASK /\ e.fun <= PCI_FUNC_MASK

\* An address has room for it.
Fits(e) == e.seg <= PCI_SEG_MASK /\ e.bus <= PCI_BUS_MASK /\ e.dev <= PCI_DEV_MASK /\ e.fun <= PCI_FUNC_MASK

\* fdkPciDev_t; bus is a u16 that has the segment in its high byte.
PciRecord(e) == [bus |-> (e.seg * 256 + e.bus) % 65536, dev |-> e.dev, fun |-> e.fun, ids |-> NameOf(e)]

\* pciComparePciDev compares these.
PciKey(d) == d.bus * 256 + d.dev * 8 + d.fun

KeysOf(dir) == [i \in DOMAIN dir |-> PciKey(PciRecord(dir[i]))]

RecordsOf(dir, places) == [k \in DOMAIN places |-> PciRecord(dir[places[k]])]

\* What pciListSysfs may put into the packet; it stops reading at max.
PciListSysfs(dir, max) ==
  LET kept == FirstOf({i \in DOMAIN dir : Fits(dir[i]) /\ dir[i].ok}, max)
  IN  {RecordsOf(dir, q) : q \in Sorted(kept, KeysOf(dir))}

\* pciListLegacy scans bus by bus, device by device, function by function, until
\* max, or until the ports cannot be accessed: it reaches the first "reach"
\* functions.  Of segment 0 only, and only what answers with a vendor.
PciListLegacy(dir, max, reach) ==
  LET found == {i \in DOMAIN dir :
                  Fits(dir[i]) /\ dir[i].ok /\ dir[i].seg = 0 /\ KeysOf(dir)[i] < reach}
  IN  {RecordsOf(dir, SubSeq(q, 1, IF Len(q) < max THEN Len(q) ELSE max)) : q \in Sorted(found, KeysOf(dir))}

\* calculatePciAddress of src_cfdk/client.c, and the device readPci asks for.
CalculatePciAddress(d) == (d.bus % 32768) * 65536 + (d.dev % 32) * 2048 + (d.fun % 8) * 256

\* PCI_SEG, PCI_BUS, PCI_DEV and PCI_FUNC: the device whose file is opened.
PciSysfsConfigPath(a) ==
  [seg |-> (a \div 16777216) % 128, bus |-> (a \div 65536) % 256,
   dev |-> (a \div 2048) % 32, fun |-> (a \div 256) % 8]

=============================================================================
