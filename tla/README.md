# Verification of FDK

FDK is a firmware debugging kit in C: a server (`fdkd`) that runs on a target
machine and gives access to its memory, I/O ports, PCI configuration space,
disk, CMOS and E820 map, a full-screen client (`cfdk`) and a command-line
client (`memvr`). This directory holds TLA+ models of it, TLC configurations
that check them and TLAPS proofs about them. Every definition that models code
is mapped to its lines in `PROJECT.json` ("map"); line references below are to
the sources.

    tlc -workers 2 -config MCFdkExchange.cfg MCFdkExchange    # a run
    tlapm FdkExchangeProofs.tla                               # the proofs

## 1. The system

| Part | Source | State | Operations | What makes it correct |
| --- | --- | --- | --- | --- |
| Packet protocol | `lib/packet.c`, `include/packet.h` | one packet buffer per side and connection; the bytes in the socket | `readPacket`, `writePacket`, `transferAll`, `executeFunction` | framing never slips; the request carries the call; a response is matched to its call |
| Request handler | `src_fdkd/handler.c` | the connection's buffer, overwritten in place by the response | `handleRequestPacket`, 14 requests | only received bytes are used, the buffer is never left, the answer tells the outcome |
| Server process | `src_fdkd/fdkd.c`, `lib/netsock.c` | `terminate`, the listener, one socket and one `/dev/mem` descriptor per worker | accept loop, signal handler, a detached thread per connection | no descriptor leaks, a signal stops the process, workers let go of departed clients |
| Memory | `src_fdkd/linux/libmem.c` | the target's memory | `memReadBuffer`, `memWriteBuffer`, byte by byte | bytes are moved once, in order, within the range asked for |
| Ports, CMOS | `src_fdkd/linux/libport.c` | index ports 70h and 72h | `portXfer`, `cmosAccess` | the cell accessed is the cell addressed |
| PCI | `src_fdkd/linux/libpci.c` | CF8h, sysfs files | `pciLegacyAccess`, sysfs access, listing | as above; no access runs into the next function |
| Disk | `src_fdkd/linux/libdisk.c` | the disk, and the kernel's cache of it | `diskRead`, `diskWrite` with `fsync` | a reported write survives a power failure |
| E820 | `src_fdkd/linux/libe820.c` | sysfs files | `e820ReadMap`: collect and sort | sorted, every entry with its length, at most what a packet holds |
| `cfdk` life | `src_cfdk/cfdk.c` `main` | the link, the connection to the server, the terminal | open, CONNECT, listings, ncurses, loop, DISCONNECT | every way out closes what was opened |
| `cfdk` UI | `src_cfdk/cfdk.c`, `dumpPanel.c`, `pciListPanel.c` | `fdkUiProperty_t`: function, cursors, edit buffer, panels | one turn of `runUi` per key | the screen shows what is selected, an edit is written where it was started |
| `cfdk` requests | `src_cfdk/client.c` | the device list | reads of a screen, write of a byte, start-up listings | a request is made only for a device there is |
| PCI names | `src_cfdk/pciids.c` | none; one pass over a text database | `findPciIdsFile`, `loadPciNames` | a device gets its own vendor's name for it, from the newest database |
| `memvr` | `src_memvr/` | none across runs | read, write, OR, AND, dump | the exit status and the printed values are what happened |
| Arguments | `lib/libcomm.c` | none | `parseHex`, `ParseOneParameter`, `ParseTwoParameters` | a number in the text is the value, anything else is rejected |

**How they interact.** A client connects over TCP (or, for `cfdk`, a serial
line), sends one request at a time and waits without a timeout for its
response. The server has one thread per connection; threads share nothing in
the program but `terminate`, the descriptor table and the hardware. There are
no locks.

**What is hard.** Concurrency: workers share the index ports and the memory;
signals race with `accept4`. Failure: clients end at any point, connections
break or fall silent, the server exits under its workers, every system call can
fail or be cut short. Boundaries: packet lengths and sizes come off the wire
and are narrowed to 8 and 16 bits. Sequences: any key at any moment of the user
interface. The list of hazards with their lines is "hazards" in `PROJECT.json`.

## 2. The modules

| Module | Models | State and actions |
| --- | --- | --- |
| `FdkPacket` | packet layout, request building, `handleRequestPacket`, response matching | operators only; shared by the model of an exchange and its proofs |
| `FdkExchange` | one connection, call by call, all operations | `packet` is the connection's buffer, `access` the hardware accesses made. `Call`/`CallRejected`/`Return` are `executeFunction`; `Serve` is `handleRequestPacket`; `PeerSends` any other program on the wire; `Break`, `Connect` the connection |
| `PacketChannel` | *abstract:* what `readPacket`/`writePacket` promise | whole packets in order, nothing after the first 0 or -1 |
| `PacketStream` | `transferAll` under both, byte by byte, over a bounded socket | `stream` is the socket, `buf` the receiver's buffer; `WriteSome`/`ReadSome` move any number of bytes; the sender may end and the connection be reset between any two |
| `FdkdMain` | `main`, `handleSignal`, `handleIncomingConnection` as users of descriptors | `mpc` and `worker` are program places, `fds` the descriptor table, `queue` the kernel's listen queue; one action per call |
| `FdkRpc` | *abstract:* what a memory call promises | bytes are moved one by one, each at most once; success means all of them, and nothing after |
| `FdkSession` | several clients, their messages, their workers and the memory | composes the client calls of `memvr` with the worker loop and the byte loops of `libmem.c`; refines `FdkRpc` |
| `IndexedPorts` | `cmosAccess` and `pciLegacyAccess` run by several workers | `index` holds the index ports; the write of the index and the access to the data port are separate steps |
| `CfdkUi` | `runUi` and the key handlers of both panels | `ui` is the part of `fdkUiProperty_t` keys work on; `Turn(key)` is one turn of the loop: dispatch, switch, key handler, write, read, draw |
| `Cfdk` | `main` of `cfdk` around `CfdkUi` | `place` is where `main` is, `terminal` and `session` are what it has taken; one action per step of `main`, each with its failures |
| `Memvr` | several runs of `memvr` (`main`, `doRead`, `doModify`, `dumpMemData`, `client.c`) on one memory | `pc` is the call a run is at, `word` the values it has read; its calls are those of `FdkRpc`, byte by byte |
| `DurableDisk` | *abstract:* an acknowledged write survives every crash | per cell the newest visible and the newest acknowledged write |
| `Disk` | `diskRead` and `diskWrite` of several workers over a cached device | `cache`, `disk` and `dirty` are the kernel's; `pc` is a worker's place between `open` and its reply; write-back may fail, the server end and the power go at any step; refines `DurableDisk` |
| `Listing` | what `e820ReadMap` and `pciListSysfs` have in common: take entries until there is no room, then `qsort` | `FirstOf` the places kept, `Sorted` the orders `qsort` may leave them in (it is not stable, so records with equal keys come in any) |
| `PciList` | `pciListDevices`, the PCI address of `cfdk` and its decoding in the server | operators: `PciListSysfs` and `PciListLegacy` (sets of possible results), `CalculatePciAddress`, `PciSysfsConfigPath` |
| `E820Map` | `e820ReadMap` | the maps that may come of a directory of entries, some unreadable |
| `PciNames` | `findPciIdsFile`, `loadPciNames` | `NameStates` is what `loadPciNames` keeps after each line, with lines classified and some too long for the buffer |
| `Arguments` | `libcomm.c` on `strtoull` | operators over texts as sequences of digits, blanks, signs and others |
| `MapRange` | the page arithmetic of `mapRange` | operators over words that wrap |
| `Tables` | the five above, each against what it should compute | an input is picked and one step computes its output |
| `MC*` | instances for TLC | |
| `FdkExchangeProofs`, `FdkdMainProofs`, `PacketStreamProofs`, `FdkSessionProofs`, `CfdkProofs`, `MemvrProofs`, `DiskProofs` | theorems | about the module each is named after |
| `PortsAndTablesProofs` | theorems | about `IndexedPorts`, and about `Tables` with the modules under it |

**Composition.** `FdkExchange` takes whole packets, which `PacketStream`
justifies; `FdkSession` takes whole and well-formed packets, which both
justify; `FdkdMain` treats a request as something that makes a worker answer
and go on, which `FdkSession` details. `FdkExchange` treats a hardware access as
one that succeeds or fails; `IndexedPorts`, `FdkSession` and `Disk` look inside
it. `Memvr` stands on `FdkRpc`: its runs make the memory calls whose promises
`FdkSession` is shown to keep, so that what holds of `Memvr` holds over the
real messages (`Implements` in `MemvrProofs` and in `FdkSessionProofs`). `Cfdk` extends `CfdkUi`: the loop's turns are steps of the run
from start to exit, and the number of devices is what the start-up listing
gave, at most `MaxDevs`. `Tables` extends the five modules of pure operators,
two of which extend `Listing`.

**Data left out.** Byte values are payload tokens in `FdkExchange`, and in
`CfdkUi` an edit buffer is the place whose byte was drawn and the number of
digits typed over it. In `PacketStream` a byte is its packet and its position,
in `Disk` the number of writes a cell has seen, in `Memvr` the set of its bits.
A line of the names database is its kind, its number and its name.

## 3. The runs

| Run | Checks | Shows |
| --- | --- | --- |
| `exchange` | `TypeOK`, `AccessAsCalled`, `ResultTellsOutcome`, `OnlyReceivedBytes`, `ReplyIsOfThisRequest`, `NackMeansUntouched`, `ClientRequestsAreServed` | calls survive narrowing, results tell what happened, and no packet of any peer makes the handler use stale bytes or leave its buffer |
| `server_main` | `TypeOK`, `DescriptorsAreOwned`, `AtMostOneAfterSignal`, `StopsUnlessMissed`, `LeftIsReleased` | descriptors always have an owner that will close them, a full table included; a signal stops the process except in one window |
| `stream` | `FramingNeverSlips`, `EndIsBetweenPackets`, `ImplementsChannel`, `BegunIsReceived` | short transfers, resets and bad lengths never shift the framing; the stream implements `PacketChannel` |
| `session` | `Lockstep`, `ImplementsRpc`, `CallReturns` | every call keeps the promises of `FdkRpc` and returns unless the other host is silent |
| `index_ports` | `TypeOK`, `CellsAsAddressed`, `StaysInFunction` | accesses reach their cells in and across banks, as long as clients leave each other's index port alone |
| `ui` | `TypeOK`, `CursorsInRange`, `ScreenIsCurrent`, `WritesShownOrTyped`, `EditKeepsItsPlace`, `TerminalIsGivenBack`, `SessionIsClosed` | for every key sequence, cursors stay in range and a write goes where its edit was started, with what was shown or typed; whichever step of `main` fails, the terminal and the server's session are left in order, but for the two ways the properties name |
| `memvr` | `TypeOK`, `ReportsAreTrue`, `OnlyOverlappedUpdatesAreLost` | exit status 0 means that what was asked for was done and the printed values are those of memory; `-o` and `-a` lose an update of others only if it falls between their second read and their write |
| `disk` | `AcknowledgedIsOnDisk`, `ReadsSeeAcknowledged`, `ImplementsDurable` | a write that was reported as done is on the medium whatever fails afterwards; a read that succeeds is complete and current |
| `tables` | `ListedDevicesAreReached`, `MapCoversEntries`, `NamesAreOfTheDevice`, `ArgumentsAreNumbers`, `MappingHoldsRange` | listings are sorted, complete and lead to the device they show; the memory map covers its entries exactly; names, arguments and mappings are those of a reference definition |

Three runs end in a counterexample: what the code does is not what a comment or
the documentation says.

| Run | Property | Counterexample |
| --- | --- | --- |
| `server_stop` | `StopsWhenSignalled` | a signal between `while (!terminate)` and `accept4` (`fdkd.c:184-187`) interrupts nothing; the server stays until the next connection or signal |
| `index_ports_shared` | `CellsAsAddressed` | two workers in one CMOS bank (or in CF8h/CFCh): one moves the index between the other's two steps |
| `ui_edit` | `EditStartsFromTheByte` | Enter as the first key edits a byte that was never drawn; a second Enter writes 00h to address 0 |

### Seen while modelling

Behaviour the models contain or had to leave room for, and that no run reports
as a violation of its own:

- `readPacket` returns 0, "orderly shutdown" (`packet.h:255-256`), for a
  connection that is reset between two packets. `EndIsBetweenPackets` states
  what does hold.
- Memory is read byte by byte, so `memvr -r` (`README.md:132`) of a 32-bit
  register can return a value the register never had. `FdkRpc` promises bytes.
- F1 as the very first key crashes `cfdk`: the dump is drawn with `infoStr`
  still NULL (`dumpPanel.c:90`). `TerminalIsGivenBack` excepts it.
- SIGPIPE is not ignored by the clients: a request into a connection that is
  gone kills `cfdk` with the terminal in ncurses mode, and a `memvr` that has
  done its work exits with an error when the disconnect meets a closed socket.
- `memvr` says that it cannot write when only the read-back failed; `-o` with
  `-a` ORs, with the address and value of whichever came last.
- `parseHex` accepts `0x-1`, `0x 1` and `0x0x1`, which `strtoull` takes
  (`libcomm.c:23` describes a "0x<hex>" token). `ArgumentsAreNumbers` excepts
  such texts.
- A short `pread` of the disk is refused, but what was read stays in the
  response (`libdisk.h:27` says that failed reads are returned as 0xFF).
- An E820 entry that is the whole 64-bit space gets length 0; a line of the
  names database that is longer than the buffer is read as two.
- F3 pressed in the device listing shows device 0, not the highlighted one:
  `switchFunction` resets the listing but keeps `byteBase`, which is 0 there.
- A transport failure of a read leaves the old dump without the *Read failed*
  banner; the result of a write is dropped by `cfdk`.

### Bounds

- `exchange`: the real packet size of 8192 and every operation. Sizes and
  lengths are taken on both sides of each limit (0, one, a page, the largest
  payload of each layout and one more), since the code compares them and does
  nothing else with them.
- `server_main`, `server_stop`: two connections, four descriptors, two signals.
  Two connections need five descriptors with the listener, so the table fills up
  at each of the places that allocate one. A second signal is the one that
  rescues a missed first.
- `stream`: headers of 2 bytes, a buffer of 4, a socket of 3, lengths 1 to 5,
  three packets. A packet may be below a header, a header only, inside, equal to
  and above the buffer, and is always larger than what the socket takes or
  smaller than what it holds.
- `session`: two connections, two calls on one and one on the other, a register
  of two bytes; the calls are a write of the register and a read of its second
  byte, so that they overlap. A second call is what a late answer could be mistaken for.
- `index_ports`, `index_ports_shared`: two workers, banks of four cells,
  functions of eight registers; accesses inside a bank, across both, to the end
  of a space and past it. The loop body is the same at every offset.
- `ui`: a screen of two lines of two bytes, pages of two lines, 0, 1, 2, 3 and 5
  devices (and 6, which is more than there is room for), an I/O space of three
  screens and a memory of four. `DiskBound` stops PgDn on the disk, whose offset
  has no other limit.
- `memvr`: two runs on a word of two bytes of one bit. One ORs or ANDs; the
  other is a run of any kind, of several options included. Two bytes show torn
  values, one bit shows every lost update. A device may reset the word at any
  time.
- `disk`: two workers, two cells, three requests, one crash: a request of one
  cell, of both, over the end of the device, and of no length; two writers of
  one cell overlap, and a request may follow the crash.
- `tables`: directories of up to four PCI functions on both sides of the limits
  of segment, bus, device and function; up to three E820 entries in a space of
  eight addresses; up to four lines of a database, of every kind, and up to four
  databases; texts of up to four characters after a prefix, with room for three
  digits; words of 6 bits with pages of four.

### Deadlock

`exchange`, `index_ports`, `memvr` and `ui` are checked for deadlock; in the
last two, the end of every run is a step of its own (`Ended`, `Gone`), so that a
state in which nothing happens and somebody still waits would be found. The
others have states where the model is meant to stop: the process has exited, the
stream has ended or `MaxPackets` is used up, the calls of `MaxCalls` are made,
the output is there.

### Fairness

- `FdkdMain`: weak fairness of `Main` as one thread and of each worker. The
  kernel runs a thread that can go on, and blocked calls are actions that are
  not enabled. Connections, requests, departures and signals are owed by nobody.
  No fairness chooses between the outcomes of one call (`pthread_create` may
  fail every time).
- `PacketStream`: weak fairness of the transfers of either side. A signal
  that interrupts every single transfer for ever is left out.
- `FdkSession`: weak fairness of a client that waits and of each worker. No
  fairness of calls, of resets, or of a silent network, which is why
  `CallReturns` excepts silence: the code has no timeout.
- The other modules state no fairness; their properties are about what must not
  happen.

## 4. The proofs

For every value of the constants, from the assumptions the modules name:

- `FdkExchangeProofs`. Assumptions: `MaxSzAssumption` (the buffer holds a full
  CMOS reply, which the handler builds without a size check), `CallsAssumption`
  (our clients' CMOS calls are 1 to 256 bytes, ports fit 16 bits, PCI sizes fit
  their field), `PeerPacketsAssumption` (fields hold what their width allows and
  `readPacket` lets through only what fits the buffer). Proved: `TypeOK` and all
  six other invariants of `exchange`. The properties speak of the access that was
  made; on its way there the request is in the buffer, so the invariant adds
  `RequestOnItsWay` (a client's request in the buffer is the one
  built from its call, nothing has been accessed for it yet) and
  `ResponseTellsOutcome` (a response in the buffer agrees with the access). The
  lemmas carry the arithmetic: `LayoutBounds` (fixed fields plus payload limit is
  the buffer), `WellFormedAnswer` (a well-formed request is served and
  answered within the received bytes and the buffer), `RequestCarriesCall`
  (narrowing and the 0 that stands for 256 lose no call), and
  `ClientRequestWellFormed` (the only request of ours the server refuses is an
  oversized read).
- `FdkdMainProofs`. Assumption: `FdkdMainAssumption`. Proved: `TypeOK` and
  `DescriptorsAreOwned` for any number of connections, descriptors and signals.
  The invariant adds `MainHolds` (main holds a connection exactly between
  accept and hand-over) and `QueueIsNew` (a queued connection is queued once, not
  held and not served), without which an accept could hand out a socket twice.
  `AtMostOneAfterSignal` has an invariant of its own, `OnItsWayOut`: once a
  connection was accepted after the signal, main is past accept and has the check
  ahead of it.
- `PortsAndTablesProofs`, on `IndexedPorts`. Assumption:
  `IndexedPortsAssumption` (sizes are positive, a function has a multiple of four
  registers, there is a request). Proved without more: `TypeOK`. Proved under
  `Exclusive`: `CellsAsAddressed` and `StaysInFunction`, for any number of
  workers. The invariant adds `Apart` (no index port serves two accesses under
  way) and `Selected` (between its two steps a worker finds the index it wrote);
  `index_ports_shared` shows that neither holds without `Exclusive`, which the
  code does nothing to ensure. The lemmas `SecondBank` and `SameBlock` do the
  arithmetic with a bank and a function of unknown size, `IndexNamesCell` that
  index and lane give the offset back.
- `PortsAndTablesProofs`, on `Tables`. Proved: all five invariants of `tables`,
  for inputs of any size. Assumptions: `TablesAssumption` (entries hold numbers,
  the kernel lists a PCI function once, and a range leaves two pages of the
  address space, which a length of 32 bits in a space of 64 does),
  `E820Assumption`, `ArgumentsAssumption` (the address space has a size, the
  number of digits is one) and `MapRangeAssumption` (a page divides the space). A
  step of `Tables` answers one input, so the invariant only adds that the input
  is one (`InputOK`); the work is in what the answers are:
  - *Induction.* A recursion over data is a recursive function in the modules,
    and an induction is over a set of numbers: `UpTo` takes the least number
    outside of it. `Recursion` shows by it that the function exists, without
    which nothing could be said of it; `NumberIs`, `ValuesIs`, `BestIs` and
    `NamesAre` apply it to the loops.
  - *Listings.* `FirstOf` keeps everything when there is room and exactly `max`
    otherwise (`AllAreKept`, `HowManyAreKept`), and some order always exists
    (`SortedExists`, hence `AnswersExist`). `KeysOrder` and `KeyOfDevice` show
    that the 24-bit key of `pciComparePciDev` orders devices by segment, bus,
    device and function, `PickedIsOpened` that the address `cfdk` makes of an
    entry opens the config file of that device, and `KeysTellDevices` that no two
    devices compare equal. `LengthIs` says which length of a memory range does
    not fit. Together: `DevicesAreReached` and `EntriesAreCovered`.
  - *Arguments.* `StrtoullIs` says that what `strtoull` reads is a run of digits
    up to where it stops, with nothing but blanks, a sign and a prefix before it,
    `StrtoullOfDigits` that it reads all of a text of digits, and `NumberFits` that
    `MaxDigits` digits never overflow. Together: `ArgumentsAreRead`.
  - *Names.* `FileIs` says that `findPciIdsFile` takes the newest database.
    `RightAt` is kept by every line: an open list is one of the vendor that owns
    it, and what a device shows is a name its vendor has for it. `FullAt`, that it
    shows the last one so far, is kept by lines that fit the buffer.
    `DevicesHaveTheirNames` follows for the whole file.
  - *Mappings.* `MappingHolds` is `HoldsRange` for every page size and every word
    the page size divides. The sum that may wrap is whole pages and a remainder,
    and the wrap takes away whole pages only. `RangeIsHeld` is the invariant.
- `PacketStreamProofs`. Assumption: `PacketStreamAssumption` (the buffer holds a
  header, the socket a byte). Proved: `TypeOK`, `FramingNeverSlips`,
  `EndIsBetweenPackets`, that what was returned is a prefix of what was sent
  (`OrderHolds`), and the refinement `ImplementsChannel`, for every header,
  buffer and socket size, any lengths and any number of packets. The bytes in the
  reader's buffer, those in the socket and those still to be written are one line
  without a gap. `StreamInv` says it of the socket: each byte is followed by the
  next one of its packet or by the first of the next packet. That alone does not
  say where the byte `k` places on is without an induction over `k`, so the
  invariant states the place of every later byte of the same packet as well, and
  `ReadSome`, which takes any number of bytes at once but never past the end of
  its packet, keeps it. It also says that the last byte in the socket is followed by
  the byte written next, and `MeetInv` that the first one is the byte the reader
  lacks. In the simulation of `PacketChannel` the call of `writePacket` is a
  `Send`, the read of the last byte of a packet a `Deliver`, the end or the bad
  length a `Stop`, and every other transfer a stutter.
- `FdkSessionProofs`. Assumption: `FdkSessionAssumption` (there is a call, and
  the memory keeps its cells). Proved: `TypeOK`, `Lockstep` and the refinement
  `ImplementsRpc` for any number of connections and calls, with clients that
  leave, resets, silence and an exit of the server at any step. The invariant
  adds `Messages`: a worker has taken no more requests than were made, those on
  their way included. `InStepIsLockstep` restates `Lockstep` as the cases the
  steps tell apart. The refinement needs more than that a call is in one
  place: `AllFlight` says what is in that place, that the request on its way is
  the pending call, the worker's job is that call with the bytes it has moved,
  and the response on its way is its answer (`OneTrace`). Then a worker that moves a
  byte is a move of the call the client waits for, and a response that is taken
  is its return.
- `CfdkProofs`. Assumption: `CfdkUiAssumption` (screens and pages are not empty,
  and the I/O and memory spaces are a whole number of screens, as `cfdk.h` has
  them). Proved, over the whole run of `main` and not only the loop: `TypeOK`,
  `CursorsInRange`, `ScreenIsCurrent`, `WritesShownOrTyped`, `EditKeepsItsPlace`,
  `TerminalIsGivenBack` and `SessionIsClosed`, for every device count, screen and
  space and every sequence of keys. `Good` is what every handler keeps of the
  record it works on, so that the lemmas about `Dispatch`, the listing's keys and
  the dump's keys compose into one about a turn; it adds that there is no edit
  outside of a dump and that `infoStr` is set in every dump. `Drawn` says
  that the edit buffer is of the place that is shown unless the edit began before
  anything was drawn; without it a write would have no origin. `MainInv` says
  what `main` has taken at each place.
- `MemvrProofs`. Assumption: `MemvrAssumption` (a value has at least one byte and
  fits the memory, an operation names an address whose value lies in memory, and a
  run has an operation). Proved: `TypeOK`, `ReportsAreTrue`,
  `OnlyOverlappedUpdatesAreLost` and that a system of runs implements `FdkRpc`
  (`Implements`), for any number of runs with any lists of
  options, any size of value and memory, and a device that may change the memory at
  any step. `CallInv` says that the call under way is the one the run is at,
  `StatusInv` counts the bytes of its one write, and `ContentInv` ties what a run
  has read to memory as long as nobody else changed it; `clean` is emptied by every
  change of others, so their steps keep `ContentInv` (`OtherRun`). That the value of
  several options is that of the last one needs a greatest index (`Greatest`), from
  the well-founded order of the naturals.
- `DiskProofs`. Assumption: `DiskAssumption`. Proved: `TypeOK`,
  `AcknowledgedIsOnDisk`, `ReadsSeeAcknowledged` and the refinement
  `ImplementsDurable`, for any number of workers, any device and any requests.
  The invariant adds `Between` (the medium is between what was acknowledged and
  what can be seen) and `Transfer`: until its fsync is over, each cell a worker
  wrote is on the medium, is dirty (after it has entered fsync: waited for), or
  the worker will be told that write-back failed. Without it nothing
  would tie the success of fsync to the cells of this very request.

Only model-checked: the liveness properties (`StopsUnlessMissed`,
`LeftIsReleased`, `BegunIsReceived`, `CallReturns`), since the prover has
neither fairness nor ENABLED. Every other property of a passing run is stated by
a theorem. The type invariants of `FdkSession`, `Disk` and `PacketStream` are
proved and in no run.

## 5. Not modelled

- Drawing with ncurses, the help window, the bit view and the clock: they change
  no state the properties are about. `INIT` keeps the one thing that matters of
  them, that drawing needs `infoStr`.
- The command lines of `fdkd` and `cfdk` and `-h` of `memvr`, `daemon()`, the
  warnings of `probeEnvironment`, name resolution, `DisplayInBits`: they choose
  constants or print.
- Which disk `diskFindDefault` finds; only that it may find none.
- PCI access through sysfs: one call of the kernel, a success or a failure in
  `FdkExchange`. Plain ports likewise.
- The width-exact accessors of `libmem.c`: they have no caller.
- The sign of `off_t`: which offset `mmap` refuses is the kernel's.
- A serial line that loses bytes and goes on: `cfdk` has no resynchronisation.
- SIGBUS from a mapping the kernel takes back, and the kernel's own use of
  CF8h/CFCh.
- Build files, the screenshot script and the data files: no logic of the
  programs.

## 6. Plan

Done, in this order: `FdkPacket`, `FdkExchange` and its proofs (the most
exposed code: it interprets bytes of a peer); `FdkdMain` and its proofs;
`PacketChannel` and `PacketStream`; `FdkRpc` and `FdkSession`; `IndexedPorts` and
its proofs; `CfdkUi`; `Memvr` over `FdkRpc`; `Disk` and `DurableDisk` and their
proofs; the pure modules under `Tables`; `Cfdk` around `CfdkUi`; the proofs of
`FdkSession`; the proofs of `PacketStream` with the refinement of
`PacketChannel`, of `FdkSession` => `FdkRpc`, of `Cfdk` with its user interface and
of `Memvr`; the proofs of the pure modules, for which their loops became
recursive functions and `qsort` a choice among orders.

Next: a property for the result of a write, which `cfdk` drops (what the user
sees after it is the byte that was read again).
