-------------------------------- MODULE CfdkUi --------------------------------
(***************************************************************************)
(* The user interface of cfdk: runUi in src_cfdk/cfdk.c with the key       *)
(* handlers of the dump panel (dumpPanel.c) and of the PCI listing         *)
(* (pciListPanel.c), and the requests it makes for them (client.c).  One   *)
(* turn of the loop takes one key, and is one action: it may switch the    *)
(* function, move a cursor or edit a byte, then reads the current screen   *)
(* and draws it.                                                           *)
(*                                                                         *)
(* The values of bytes are left out.  What matters of the edit buffer is   *)
(* where its value comes from: the place whose byte was drawn, and how     *)
(* many hex digits were typed over it.  Drawing is reduced to which place  *)
(* the screen shows; the help window, the bit view and the clock are left  *)
(* out.                                                                    *)
(***************************************************************************)
EXTENDS Integers

CONSTANTS DevCounts,  \* numbers of PCI devices a target may report
          RecPerPage, \* FDK_REC_PER_PAGE, lines of the PCI listing
          LineBytes, \* FDK_DUMP_BYTE_PER_LINE
          Lines,     \* lines of a dump
          IoSpace,   \* bytes of the I/O space, FDK_MAXADDR_IO + 1
          MemSpace,  \* bytes of the memory space, 2^64
          DiskBound  \* bound: PgDn stops here on the disk

FDK_BYTE_PER_SCREEN == LineBytes * Lines

ASSUME CfdkUiAssumption ==
  /\ DevCounts \subseteq Nat /\ RecPerPage \in Nat \ {0} /\ LineBytes \in Nat \ {0} /\ Lines \in Nat \ {0}
  /\ IoSpace \in Nat \ {0} /\ IoSpace % FDK_BYTE_PER_SCREEN = 0
  /\ MemSpace \in Nat \ {0} /\ MemSpace % FDK_BYTE_PER_SCREEN = 0
  /\ DiskBound \in Nat

VARIABLES numOfPciDevice,  \* what readPciList got before the loop
          ui,      \* the part of fdkUiProperty_t the keys work on
          running, \* "yes", "quit", "crashed" or "killed" (SIGPIPE)
          link,    \* "up" or "broken"
          screen,  \* what it shows: the Place of a dump, Listing or NoPlace
          wrote,   \* the write request of the last turn
          hasty    \* history: this edit began before anything was drawn

vars == <<numOfPciDevice, ui, running, link, screen, wrote, hasty>>

DumpFuncs == {"MEM", "IO", "PCI", "IDE", "CMOS"}
Funcs     == DumpFuncs \cup {"INIT", "PCIL"}

Keys == {"F1", "F2", "F3", "F4", "F5", "F6", "F7", "Esc", "Enter", "Digit",
         "Up", "Down", "Left", "Right", "PgUp", "PgDn", "Other"}  \* Other: a timeout too

NoPlace == [func |-> "INIT", base |-> 0, off |-> 0]
NoWrite == [at |-> NoPlace, from |-> NoPlace, digits |-> 0]

Listing == [func |-> "PCIL", base |-> 0, off |-> 0]

Place(u) == [func |-> u.func, base |-> u.base, off |-> u.off]

Init ==
  /\ numOfPciDevice \in DevCounts
  /\ ui = [func |-> "INIT", base |-> 0, off |-> 0, info |-> FALSE, editing |-> FALSE,
           from |-> NoPlace, digits |-> 0, hl |-> 0, page |-> 0]
  /\ running = "yes" /\ link = "up" /\ screen = NoPlace /\ wrote = NoWrite /\ hasty = FALSE

-----------------------------------------------------------------------------
(* The function keys.                                                       *)

FuncOfKey == [F2 |-> "PCIL", F3 |-> "PCI", F4 |-> "IO", F5 |-> "MEM", F6 |-> "IDE", F7 |-> "CMOS"]

NextFunc(u, key) ==
  IF key \in DOMAIN FuncOfKey THEN FuncOfKey[key]
  ELSE IF u.func = "INIT" /\ key \notin {"F1", "Esc"} THEN "MEM"
  ELSE u.func

\* Mutant: an edit goes on in the next function.
SwitchFunctionKeepsEdit(u, func) ==
  [u EXCEPT !.func = func, !.off = 0, !.hl = 0, !.page = 0,
            !.base = IF u.func = "PCIL" /\ func = "PCI" THEN @ ELSE 0,
            !.info = @ \/ func # "PCIL"]

\* switchFunction: everything starts again, but for the device that was picked.
SwitchFunction(u, func) ==
  [u EXCEPT !.func = func, !.off = 0, !.hl = 0, !.page = 0, !.editing = FALSE,
            !.base = IF u.func = "PCIL" /\ func = "PCI" THEN @ ELSE 0,
            !.info = @ \/ func # "PCIL"]

\* Esc ends an edit; outside of one it quits, see Quit.
Dispatch(u, key) ==
  LET v == IF key = "Esc" THEN [u EXCEPT !.editing = FALSE] ELSE u
      f == NextFunc(u, key)
  IN  IF f = u.func THEN v ELSE SwitchFunction(v, f)

-----------------------------------------------------------------------------
(* The PCI listing.                                                         *)

Least(a, b) == IF a < b THEN a ELSE b

\* Mutant: the last page is not moved back to be full.
ListPageDownLoose(u) ==
  [u EXCEPT !.page = Least(u.page + RecPerPage, numOfPciDevice - 1), !.hl = RecPerPage - 1]

ListPageDown(u) ==
  [u EXCEPT !.page = Least(u.page + RecPerPage, numOfPciDevice - RecPerPage), !.hl = RecPerPage - 1]

ListPageUp(u) ==
  [u EXCEPT !.page = IF @ >= RecPerPage THEN @ - RecPerPage ELSE 0, !.hl = 0]

ListUp(u) ==
  IF u.hl > 0 THEN [u EXCEPT !.hl = @ - 1]
  ELSE IF u.page > 0 THEN [u EXCEPT !.page = @ - 1] ELSE u

ListDown(u) ==
  IF u.hl < RecPerPage - 1 /\ u.page + u.hl < numOfPciDevice - 1 THEN [u EXCEPT !.hl = @ + 1]
  ELSE IF u.page + RecPerPage < numOfPciDevice THEN [u EXCEPT !.page = @ + 1] ELSE u

\* handleKeyPressForPciListPanel, and the switch when Enter opens a device.
ListKey(u, key) ==
  IF key = "Up" THEN ListUp(u)
  ELSE IF key = "Down" THEN ListDown(u)
  ELSE IF key = "PgUp" /\ numOfPciDevice >= RecPerPage THEN ListPageUp(u)
  ELSE IF key = "PgDn" /\ numOfPciDevice >= RecPerPage THEN ListPageDown(u)
  ELSE IF key = "Enter" /\ numOfPciDevice > 0
       THEN SwitchFunction([u EXCEPT !.base = u.hl + u.page], "PCI")
  ELSE u

-----------------------------------------------------------------------------
(* The dump.                                                                *)

Column(u) == u.off % LineBytes

\* Mutant: PgUp on the first device goes below it.
PageDumpNoWrap(u, down) ==
  LET step == IF down THEN FDK_BYTE_PER_SCREEN ELSE -FDK_BYTE_PER_SCREEN
  IN  IF u.func = "PCI" /\ numOfPciDevice > 0
      THEN IF down THEN (u.base + 1) % numOfPciDevice ELSE u.base - 1
      ELSE IF u.func = "IO" THEN (u.base + step) % IoSpace
      ELSE IF u.func = "IDE" /\ (down \/ u.base >= FDK_BYTE_PER_SCREEN) THEN u.base + step
      ELSE IF u.func \in {"MEM", "INIT"} THEN (u.base + step) % MemSpace
      ELSE u.base

\* pageDump: the next byteBase.  The CMOS and the start of the disk stay.
PageDump(u, down) ==
  LET step == IF down THEN FDK_BYTE_PER_SCREEN ELSE -FDK_BYTE_PER_SCREEN
  IN  IF u.func = "PCI" /\ numOfPciDevice > 0
      THEN (u.base + (IF down THEN 1 ELSE numOfPciDevice - 1)) % numOfPciDevice
      ELSE IF u.func = "IO" THEN (u.base + step) % IoSpace
      ELSE IF u.func = "IDE" /\ (down \/ u.base >= FDK_BYTE_PER_SCREEN) THEN u.base + step
      ELSE IF u.func \in {"MEM", "INIT"} THEN (u.base + step) % MemSpace
      ELSE u.base

\* handleKeyPressForDumpPanel without the write.
DumpKey(u, key) ==
  IF u.editing
  THEN IF key = "Enter" THEN [u EXCEPT !.editing = FALSE]
       ELSE IF key = "Digit" THEN [u EXCEPT !.digits = Least(@ + 1, 2)]
       ELSE u
  ELSE IF key = "Up"
       THEN [u EXCEPT !.off = (@ - LineBytes + FDK_BYTE_PER_SCREEN) % FDK_BYTE_PER_SCREEN]
  ELSE IF key = "Down" THEN [u EXCEPT !.off = (@ + LineBytes) % FDK_BYTE_PER_SCREEN]
  ELSE IF key = "Left" THEN [u EXCEPT !.off = IF Column(u) > 0 THEN @ - 1 ELSE @ + LineBytes - 1]
  ELSE IF key = "Right"
       THEN [u EXCEPT !.off = IF Column(u) < LineBytes - 1 THEN @ + 1 ELSE @ - LineBytes + 1]
  ELSE IF key \in {"PgUp", "PgDn"} THEN [u EXCEPT !.base = PageDump(u, key = "PgDn")]
  ELSE IF key = "Enter" THEN [u EXCEPT !.editing = TRUE]
  ELSE u

\* getPciDevice finds no device: neither readPci nor writePciByEditing sends.
Requests(u) == u.func = "PCI" => u.base < numOfPciDevice

\* The write Enter makes at the end of an edit, by writeEditedByte.
Writes(u, key) == u.editing /\ key = "Enter" /\ Requests(u) /\ u.func \in DumpFuncs

\* The edit buffer after drawing: the byte under the cursor unless it is edited.
Draw(u) == IF u.editing THEN u ELSE [u EXCEPT !.from = Place(u), !.digits = 0]

-----------------------------------------------------------------------------
(* One turn of the loop.                                                    *)

\* Mutant: the windows of the previous function are not destroyed.
ClearedNot(u) == screen

\* What the windows show once switchFunction has cleared them.
Cleared(u) == IF u.func # ui.func THEN NoPlace ELSE screen

\* A turn that ends in the listing: nothing is requested.
ListTurn(u) ==
  /\ ui' = u /\ screen' = Listing /\ wrote' = NoWrite
  /\ UNCHANGED <<numOfPciDevice, running, link>>

\* A turn that ends in a dump; d is the state the dump's key handler finds.
DumpTurn(d, key) ==
  LET u == DumpKey(d, key)
  IN  /\ wrote' = IF Writes(d, key) /\ link = "up"
                  THEN [at |-> Place(d), from |-> d.from, digits |-> d.digits] ELSE NoWrite
      /\ IF ~Requests(u)
         THEN ui' = u /\ screen' = Cleared(u) /\ UNCHANGED running
         ELSE IF link = "broken"
         THEN ui' = u /\ screen' = Cleared(u) /\ running' \in {"yes", "killed"}
         \* printBaseAddress takes the length of infoStr, which may still be NULL.
         ELSE IF ~u.info
         THEN ui' = u /\ screen' = Cleared(u) /\ running' = "crashed"
         ELSE ui' = Draw(u) /\ screen' = Place(u) /\ UNCHANGED running
      /\ UNCHANGED <<numOfPciDevice, link>>

Turn(key) ==
  LET u == Dispatch(ui, key)
      v == ListKey(u, key)
  IN  /\ running = "yes" /\ ~(key = "Esc" /\ ~ui.editing)
      /\ ~(key = "PgDn" /\ u.func = "IDE" /\ u.base >= DiskBound)
      /\ hasty' = ((ui.func = "INIT" /\ key = "Enter") \/ (hasty /\ ui.editing))
      /\ IF u.func # "PCIL" THEN DumpTurn(u, key)
         ELSE IF v.func = "PCIL" THEN ListTurn(v)
         ELSE DumpTurn(v, "Other")

Quit ==
  /\ running = "yes" /\ ~ui.editing /\ running' = "quit"
  /\ UNCHANGED <<numOfPciDevice, ui, link, screen, wrote, hasty>>

Break ==
  /\ link = "up" /\ link' = "broken"
  /\ UNCHANGED <<numOfPciDevice, ui, running, screen, wrote, hasty>>

Next == (\E key \in Keys : Turn(key)) \/ Quit \/ Break

Spec == Init /\ [][Next]_vars

-----------------------------------------------------------------------------
(* Properties.                                                              *)

PlaceRecord == [func : Funcs, base : Nat, off : Nat]

\* Type invariant.
TypeOK ==
  /\ ui \in [func : Funcs, base : Nat, off : Nat, info : BOOLEAN, editing : BOOLEAN,
             from : PlaceRecord, digits : 0..2, hl : Nat, page : Nat]
  /\ running \in {"yes", "quit", "crashed", "killed"} /\ link \in {"up", "broken"}
  /\ numOfPciDevice \in DevCounts /\ screen \in PlaceRecord
  /\ wrote \in [at : PlaceRecord, from : PlaceRecord, digits : 0..2] /\ hasty \in BOOLEAN

\* Whatever keys are pressed, the highlighted line of the listing is a device,
\* the dump shown is of a device there is, or of a whole screen inside the I/O
\* space or the CMOS, and the cursor is on it.
CursorsInRange ==
  /\ ui.off \in 0..FDK_BYTE_PER_SCREEN - 1
  /\ ui.hl \in 0..RecPerPage - 1 /\ ui.page >= 0
  /\ IF numOfPciDevice = 0 THEN ui.hl + ui.page = 0 ELSE ui.hl + ui.page < numOfPciDevice
  /\ ui.base >= 0
  /\ ui.func = "PCI" => ui.base = 0 \/ ui.base < numOfPciDevice
  /\ ui.func = "IO" => ui.base + FDK_BYTE_PER_SCREEN <= IoSpace
  /\ ui.func = "CMOS" => ui.base = 0
  /\ ui.func \in {"IO", "MEM", "IDE"} => ui.base % FDK_BYTE_PER_SCREEN = 0

\* While the connection is up the screen shows the current function, base
\* address and cursor: no turn leaves an older dump, or a dump behind the
\* listing.
ScreenIsCurrent ==
  (link = "up" /\ running = "yes" /\ ui.func # "INIT") =>
    screen = IF ui.func = "PCIL" THEN Listing
             ELSE IF Requests(ui) THEN Place(ui) ELSE NoPlace

\* An edit stays with the byte it was started on: nothing but its end can move
\* the cursor, the page or the function, and its write goes to that byte.
EditKeepsItsPlace ==
  [][/\ ui.editing /\ ui'.editing => Place(ui') = Place(ui)
     /\ wrote' # NoWrite /\ wrote' # wrote => ui.editing /\ wrote'.at = Place(ui)]_vars

\* What is written is what was typed, or the byte as it was drawn at that very
\* place: never the byte of another place.  Edits started before the first
\* screen was drawn are excepted.
WritesShownOrTyped ==
  (wrote # NoWrite /\ ~hasty) => wrote.digits = 2 \/ wrote.from = wrote.at

\* Enter starts editing the byte under the cursor (README, the table of keys).
EditStartsFromTheByte ==
  (ui.editing /\ ui.digits = 0 /\ link = "up") => ui.from = Place(ui)

=============================================================================
