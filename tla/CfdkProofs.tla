------------------------------ MODULE CfdkProofs ------------------------------
(* A run of cfdk, for every number of devices, every size of the screen and  *)
(* of the spaces it shows, and every sequence of keys and breaks of the      *)
(* link: the cursors stay in range, the screen and the edit buffer are of    *)
(* the place the user looks at, and main gives back what it took.            *)
EXTENDS Cfdk, TLAPS

\* fdkUiProperty_t, which TypeOK spells out field by field.
UiRecord == [func : Funcs, base : Nat, off : Nat, info : BOOLEAN, editing : BOOLEAN,
             from : PlaceRecord, digits : 0..2, hl : Nat, page : Nat]

\* The cursors, as CursorsInRange has them, of any fdkUiProperty_t; outside of a
\* dump there is no edit, and infoStr is set in every dump.
Good(u) ==
  /\ u \in UiRecord
  /\ u.off < FDK_BYTE_PER_SCREEN /\ u.hl < RecPerPage
  /\ IF numOfPciDevice = 0 THEN u.hl = 0 /\ u.page = 0 ELSE u.hl + u.page < numOfPciDevice
  /\ u.func = "PCI" => u.base = 0 \/ u.base < numOfPciDevice
  /\ u.func = "IO" => u.base + FDK_BYTE_PER_SCREEN <= IoSpace
  /\ u.func = "CMOS" => u.base = 0
  /\ u.func \in {"IO", "MEM", "IDE"} => u.base % FDK_BYTE_PER_SCREEN = 0
  /\ u.func \in {"INIT", "PCIL"} => u.base = 0 /\ ~u.editing
  /\ u.func = "INIT" => ~u.info
  /\ u.func \in DumpFuncs => u.info

\* A dump that was drawn left the edit buffer with the place it shows, but for an
\* edit begun before anything was drawn.
Drawn ==
  link = "up" /\ running = "yes" /\ ui.func \in DumpFuncs /\ Requests(ui) =>
    (ui.editing /\ hasty) \/ ui.from = Place(ui)

\* No screen is drawn before the first function is chosen, and a write takes the
\* byte of its own place.
LoopInv ==
  /\ ui.func = "INIT" => screen = NoPlace
  /\ wrote # NoWrite /\ ~hasty => wrote.from = wrote.at
  /\ Drawn

\* The loop: what a turn keeps.
UiInv == TypeOK /\ Good(ui) /\ ScreenIsCurrent /\ LoopInv

\* What the loop starts with.
FirstUi == [func |-> "INIT", base |-> 0, off |-> 0, info |-> FALSE, editing |-> FALSE,
            from |-> NoPlace, digits |-> 0, hl |-> 0, page |-> 0]

\* main around the loop: nothing of the loop has happened before it, curses are on
\* in the loop only, and connected is set before anything can fail with a session
\* open.
MainInv ==
  /\ place \in {"start", "connect", "pcilist", "e820", "screen", "ui", "exit", "gone"}
  /\ via \in {"tty", "socket"} /\ terminal \in {"normal", "curses"}
  /\ connected \in BOOLEAN /\ session \in {"none", "open", "closed"} /\ code \in {0, 1}
  /\ place \in {"start", "connect", "pcilist", "e820", "screen"} => ui = FirstUi
  /\ place \notin {"exit", "gone"} => running = "yes"
  /\ place = "exit" => running \in {"yes", "quit"}
  /\ place # "gone" => (code = 0 <=> running = "quit")
  /\ place \notin {"ui", "gone"} => terminal = "normal"
  /\ session = "open" => connected
  /\ place \in {"start", "connect"} => session = "none"

\* The inductive invariant.
IInv == UiInv /\ MainInv /\ TerminalIsGivenBack /\ SessionIsClosed

-----------------------------------------------------------------------------
(* Arithmetic of addresses.                                                 *)

\* Quotient and remainder, also of a negative number.
LEMMA DivMod ==
  ASSUME NEW m \in Nat \ {0}, NEW x \in Int
  PROVE  /\ x % m \in 0..(m - 1) /\ x \div m \in Int
         /\ x = m * (x \div m) + (x % m) /\ 0 <= x % m /\ x % m < m
OBVIOUS

\* A multiple leaves no remainder.
LEMMA ModMult ==
  ASSUME NEW m \in Nat \ {0}, NEW q \in Int
  PROVE  (m * q) % m = 0
OBVIOUS

\* Sums and differences of multiples are multiples.
LEMMA ModZero ==
  ASSUME NEW m \in Nat \ {0}, NEW x \in Int, NEW y \in Int, x % m = 0, y % m = 0
  PROVE  (x + y) % m = 0 /\ (x - y) % m = 0
<1>1. x = m * (x \div m) /\ y = m * (y \div m) /\ x \div m \in Int /\ y \div m \in Int
  OBVIOUS
<1>2. x + y = m * ((x \div m) + (y \div m)) /\ x - y = m * ((x \div m) - (y \div m))
  BY <1>1
<1>3. (x \div m) + (y \div m) \in Int /\ (x \div m) - (y \div m) \in Int
  BY <1>1
<1> QED BY <1>2, <1>3, ModMult

\* Wrapping around at a multiple leaves a multiple.
LEMMA WrapZero ==
  ASSUME NEW m \in Nat \ {0}, NEW b \in Nat \ {0}, b % m = 0, NEW x \in Int, x % m = 0
  PROVE  (x % b) % m = 0
<1> DEFINE d == b \div m
           q == x \div b
           r == x % b
<1>1. b = m * d /\ d \in Int
  OBVIOUS
<1>2. x = b * q + r /\ q \in Int /\ r \in Int
  OBVIOUS
<1>3. r % m = 0
  <2> HIDE DEF d, q, r
  <2>1. b * q = m * (d * q) /\ d * q \in Int
    BY <1>1, <1>2
  <2>2. (b * q) % m = 0 /\ b * q \in Int
    BY <1>2, <2>1, ModMult
  <2> DEFINE e == b * q
  <2>3. e % m = 0 /\ e \in Int /\ x = e + r
    BY <1>2, <2>2
  <2> HIDE DEF e
  <2>4. r = x - e
    BY <1>2, <2>3
  <2>5. (x - e) % m = 0
    BY <2>3, ModZero
  <2> QED BY <2>4, <2>5
<1> QED BY <1>3

\* Below a multiple there is room for a whole block.
LEMMA RoomForBlock ==
  ASSUME NEW m \in Nat \ {0}, NEW b \in Nat, b % m = 0, NEW x \in Nat, x % m = 0, x < b
  PROVE  x + m <= b
<1>0. b \in Int /\ x \in Int
  OBVIOUS
<1>1. (b - x) % m = 0
  BY <1>0, ModZero
<1>4. b - x \in Nat \ {0}
  OBVIOUS
<1>2. ASSUME NEW z \in Nat \ {0}, z % m = 0 PROVE m <= z
  BY <1>2
<1>3. m <= b - x
  BY <1>1, <1>2, <1>4
<1> QED BY <1>3

\* A screen is some whole lines.
LEMMA ScreenProperties ==
  /\ FDK_BYTE_PER_SCREEN \in Nat \ {0} /\ FDK_BYTE_PER_SCREEN % LineBytes = 0
  /\ LineBytes \in Nat \ {0} /\ LineBytes <= FDK_BYTE_PER_SCREEN
<1>1. LineBytes * Lines \in Nat \ {0} /\ (LineBytes * Lines) % LineBytes = 0 /\ LineBytes \in Nat \ {0}
  BY CfdkUiAssumption, ModMult
<1>2. LineBytes <= LineBytes * Lines
  BY <1>1, ModZero, RoomForBlock
<1> QED BY <1>1, <1>2 DEF FDK_BYTE_PER_SCREEN

\* The columns of a line: from the first a step left goes to the last of the same
\* line, and from the last a step right to the first.
LEMMA ColumnStep ==
  ASSUME NEW x \in 0..(FDK_BYTE_PER_SCREEN - 1)
  PROVE  /\ x % LineBytes \in 0..(LineBytes - 1) /\ x % LineBytes <= x
         /\ x - (x % LineBytes) + LineBytes <= FDK_BYTE_PER_SCREEN
<1> DEFINE S == FDK_BYTE_PER_SCREEN
           c == x % LineBytes
           l == x - c
<1>1. c \in 0..(LineBytes - 1) /\ S \in Nat \ {0} /\ LineBytes \in Nat \ {0} /\ x \in Nat
  BY ScreenProperties, DivMod
<1>2. c <= x
  BY <1>1, ScreenProperties
<1>3. l % LineBytes = 0
  <2>1. x = LineBytes * (x \div LineBytes) + c /\ x \div LineBytes \in Int
    BY <1>1, DivMod
  <2>2. l = LineBytes * (x \div LineBytes)
    <3> DEFINE d == LineBytes * (x \div LineBytes)
    <3>1. d \in Int
      BY <1>1, <2>1
    <3> HIDE DEF d, c
    <3> QED BY <1>1, <2>1, <3>1 DEF d
  <2> QED BY <1>1, <2>1, <2>2, ModMult
<1>4. l \in Nat /\ l < S
  BY <1>1, <1>2
<1> HIDE DEF S, c, l
<1>5. l + LineBytes <= S
  BY <1>1, <1>3, <1>4, ScreenProperties, RoomForBlock DEF S
<1> QED BY <1>1, <1>2, <1>5 DEF S, c, l

-----------------------------------------------------------------------------
(* The key handlers keep the cursors in range.                              *)

\* The number of devices is a number.
LEMMA Devices == ASSUME TypeOK PROVE numOfPciDevice \in Nat
BY CfdkUiAssumption DEF TypeOK

\* A function starts at its first byte, or at the device that was picked.
LEMMA SwitchFunctionGood ==
  ASSUME NEW u \in UiRecord, NEW f \in Funcs \ {"INIT"}, numOfPciDevice \in Nat,
         u.func = "PCIL" /\ f = "PCI" => u.base = 0 \/ u.base < numOfPciDevice
  PROVE  /\ Good(SwitchFunction(u, f))
         /\ SwitchFunction(u, f).func = f /\ ~SwitchFunction(u, f).editing
         /\ u.func = "PCIL" /\ f = "PCI" => SwitchFunction(u, f).base = u.base
<1> DEFINE v == SwitchFunction(u, f)
<1>1. /\ v \in UiRecord
      /\ v.func = f /\ v.off = 0 /\ v.hl = 0 /\ v.page = 0
      /\ v.base = (IF u.func = "PCIL" /\ f = "PCI" THEN u.base ELSE 0)
      /\ v.editing = FALSE
      /\ v.info = (u.info \/ f # "PCIL")
  BY DEF SwitchFunction, UiRecord
<1>2. FDK_BYTE_PER_SCREEN <= IoSpace /\ 0 % FDK_BYTE_PER_SCREEN = 0
  <2>1. 0 % FDK_BYTE_PER_SCREEN = 0
    BY ScreenProperties
  <2>2. 0 + FDK_BYTE_PER_SCREEN <= IoSpace
    BY <2>1, ScreenProperties, CfdkUiAssumption, RoomForBlock
  <2> QED BY <2>1, <2>2, ScreenProperties, CfdkUiAssumption
<1> HIDE DEF v
<1>3. Good(v)
  <2>1. 0 < FDK_BYTE_PER_SCREEN /\ 0 < RecPerPage
    BY ScreenProperties, CfdkUiAssumption
  <2>2. v.func = "PCI" => v.base = 0 \/ v.base < numOfPciDevice
    BY <1>1
  <2>3. v.func \in {"IO", "MEM", "IDE", "CMOS", "PCIL"} => v.base = 0
    BY <1>1
  <2>4. 0 + FDK_BYTE_PER_SCREEN <= IoSpace
    BY <1>2, ScreenProperties
  <2>5. IF numOfPciDevice = 0 THEN v.hl = 0 /\ v.page = 0 ELSE v.hl + v.page < numOfPciDevice
    BY <1>1
  <2>6. f # "INIT" /\ (f \in DumpFuncs => f # "PCIL")
    BY DEF DumpFuncs
  <2>7. v.func \in DumpFuncs => v.info
    BY <1>1, <2>6
  <2> QED BY <1>1, <1>2, <2>1, <2>2, <2>3, <2>4, <2>5, <2>6, <2>7 DEF Good
<1> QED BY <1>1, <1>3 DEF v

\* A key in the listing moves the highlighted line to a device, or picks it.
LEMMA ListKeyGood ==
  ASSUME NEW u, Good(u), u.func = "PCIL", NEW key, numOfPciDevice \in Nat
  PROVE  /\ Good(ListKey(u, key))
         /\ ListKey(u, key).func \in {"PCIL", "PCI"} /\ ~ListKey(u, key).editing
<1> DEFINE n == numOfPciDevice
<1> USE CfdkUiAssumption
<1>1. u \in UiRecord /\ n \in Nat /\ u.hl \in Nat /\ u.page \in Nat /\ RecPerPage \in Nat \ {0}
  BY DEF Good, UiRecord
<1>2. ASSUME NEW h \in Nat, NEW q \in Nat, h < RecPerPage,
             IF n = 0 THEN h = 0 /\ q = 0 ELSE h + q < n,
             NEW v, v = [u EXCEPT !.hl = h] \/ v = [u EXCEPT !.page = q] \/ v = [u EXCEPT !.page = q, !.hl = h],
             v.hl = h, v.page = q
      PROVE  Good(v) /\ v.func = "PCIL" /\ ~v.editing
  <2>1. /\ v \in UiRecord /\ v.func = u.func /\ v.off = u.off /\ v.base = u.base
        /\ v.editing = u.editing /\ v.info = u.info
    BY <1>1, <1>2 DEF UiRecord
  <2> QED BY <1>2, <2>1 DEF Good, DumpFuncs
<1>3. Good(ListUp(u)) /\ ListUp(u).func = "PCIL" /\ ~ListUp(u).editing
  <2>1. CASE u.hl > 0
    <3> DEFINE v == [u EXCEPT !.hl = @ - 1]
    <3>1. u.hl - 1 \in Nat /\ u.hl - 1 < RecPerPage /\ n # 0 /\ (u.hl - 1) + u.page < n
      BY <1>1, <2>1 DEF Good
    <3>2. ListUp(u) = v /\ v = [u EXCEPT !.hl = u.hl - 1] /\ v.hl = u.hl - 1 /\ v.page = u.page
      BY <1>1, <2>1 DEF ListUp, UiRecord
    <3> HIDE DEF v
    <3> QED BY <1>1, <1>2, <3>1, <3>2
  <2>2. CASE ~(u.hl > 0) /\ u.page > 0
    <3> DEFINE v == [u EXCEPT !.page = @ - 1]
    <3>1. u.page - 1 \in Nat /\ u.hl < RecPerPage /\ n # 0 /\ u.hl + (u.page - 1) < n
      BY <1>1, <2>2 DEF Good
    <3>2. ListUp(u) = v /\ v = [u EXCEPT !.page = u.page - 1] /\ v.page = u.page - 1 /\ v.hl = u.hl
      BY <1>1, <2>2 DEF ListUp, UiRecord
    <3> DEFINE q == u.page - 1
    <3>3. q \in Nat /\ (IF n = 0 THEN u.hl = 0 /\ q = 0 ELSE u.hl + q < n)
      BY <3>1
    <3> HIDE DEF v, q, n
    <3>4. v = [u EXCEPT !.page = q] /\ v.page = q
      BY <3>2 DEF q
    <3>5. u.hl \in Nat /\ u.hl < RecPerPage
      BY <1>1, <3>1
    <3>6. Good(v) /\ v.func = "PCIL" /\ ~v.editing
      BY <1>2, <3>2, <3>3, <3>4, <3>5
    <3> QED BY <3>2, <3>6
  <2>3. CASE ~(u.hl > 0) /\ ~(u.page > 0)
    BY <2>3 DEF ListUp, Good
  <2> QED BY <2>1, <2>2, <2>3
<1>4. Good(ListDown(u)) /\ ListDown(u).func = "PCIL" /\ ~ListDown(u).editing
  <2>1. CASE u.hl < RecPerPage - 1 /\ u.page + u.hl < n - 1
    <3> DEFINE v == [u EXCEPT !.hl = @ + 1]
    <3>1. u.hl + 1 \in Nat /\ u.hl + 1 < RecPerPage /\ n # 0 /\ (u.hl + 1) + u.page < n
      BY <1>1, <2>1
    <3>2. ListDown(u) = v /\ v = [u EXCEPT !.hl = u.hl + 1] /\ v.hl = u.hl + 1 /\ v.page = u.page
      BY <1>1, <2>1 DEF ListDown, UiRecord
    <3> HIDE DEF v
    <3> QED BY <1>1, <1>2, <3>1, <3>2
  <2>2. CASE ~(u.hl < RecPerPage - 1 /\ u.page + u.hl < n - 1) /\ u.page + RecPerPage < n
    <3> DEFINE v == [u EXCEPT !.page = @ + 1]
    <3>1. u.page + 1 \in Nat /\ u.hl < RecPerPage /\ n # 0 /\ u.hl + (u.page + 1) < n
      BY <1>1, <2>2 DEF Good
    <3>2. ListDown(u) = v /\ v = [u EXCEPT !.page = u.page + 1] /\ v.page = u.page + 1 /\ v.hl = u.hl
      BY <1>1, <2>2 DEF ListDown, UiRecord
    <3> DEFINE q == u.page + 1
    <3>3. q \in Nat /\ (IF n = 0 THEN u.hl = 0 /\ q = 0 ELSE u.hl + q < n)
      BY <3>1
    <3> HIDE DEF v, q, n
    <3>4. v = [u EXCEPT !.page = q] /\ v.page = q
      BY <3>2 DEF q
    <3>5. u.hl \in Nat /\ u.hl < RecPerPage
      BY <1>1, <3>1
    <3>6. Good(v) /\ v.func = "PCIL" /\ ~v.editing
      BY <1>2, <3>2, <3>3, <3>4, <3>5
    <3> QED BY <3>2, <3>6
  <2>3. CASE ~(u.hl < RecPerPage - 1 /\ u.page + u.hl < n - 1) /\ ~(u.page + RecPerPage < n)
    BY <2>3 DEF ListDown, Good
  <2> QED BY <2>1, <2>2, <2>3
<1>5. Good(ListPageUp(u)) /\ ListPageUp(u).func = "PCIL" /\ ~ListPageUp(u).editing
  <2> DEFINE q == IF u.page >= RecPerPage THEN u.page - RecPerPage ELSE 0
             v == [u EXCEPT !.page = q, !.hl = 0]
  <2>1. q \in Nat /\ q <= u.page
    BY <1>1
  <2>2. 0 < RecPerPage /\ (IF n = 0 THEN 0 = 0 /\ q = 0 ELSE 0 + q < n)
    <3> HIDE DEF q
    <3> QED BY <1>1, <2>1 DEF Good
  <2>3. ListPageUp(u) = v /\ v.page = q /\ v.hl = 0
    BY <1>1 DEF ListPageUp, UiRecord
  <2> HIDE DEF q
  <2>4. v = [u EXCEPT !.page = q, !.hl = 0]
    OBVIOUS
  <2> HIDE DEF v
  <2> QED BY <1>1, <1>2, <2>1, <2>2, <2>3, <2>4
<1>6. ASSUME n >= RecPerPage
      PROVE  Good(ListPageDown(u)) /\ ListPageDown(u).func = "PCIL" /\ ~ListPageDown(u).editing
  <2> DEFINE q == Least(u.page + RecPerPage, n - RecPerPage)
             h == RecPerPage - 1
             v == [u EXCEPT !.page = q, !.hl = h]
  <2>1. q \in Nat /\ q <= n - RecPerPage /\ h \in Nat
    BY <1>1, <1>6 DEF Least
  <2>2. h < RecPerPage /\ n # 0 /\ h + q < n
    <3> HIDE DEF q
    <3> QED BY <1>1, <1>6, <2>1
  <2>3. ListPageDown(u) = v /\ v.page = q /\ v.hl = h
    BY <1>1 DEF ListPageDown, UiRecord
  <2> HIDE DEF q, h
  <2>4. v = [u EXCEPT !.page = q, !.hl = h]
    OBVIOUS
  <2> HIDE DEF v
  <2> QED BY <1>1, <1>2, <2>1, <2>2, <2>3, <2>4
<1>7. ASSUME n > 0
      PROVE  LET w == SwitchFunction([u EXCEPT !.base = u.hl + u.page], "PCI")
             IN  Good(w) /\ w.func = "PCI" /\ ~w.editing
  <2> DEFINE v == [u EXCEPT !.base = u.hl + u.page]
  <2>1. v \in UiRecord /\ v.base < n
    BY <1>1, <1>7 DEF UiRecord, Good
  <2> HIDE DEF v
  <2> QED BY <1>1, <2>1, SwitchFunctionGood DEF v, Funcs, DumpFuncs
<1> QED BY <1>3, <1>4, <1>5, <1>6, <1>7 DEF ListKey, Good

\* Paging wraps around to a whole screen, or to a device.
LEMMA PageDumpGood ==
  ASSUME NEW u, Good(u), u.func \in DumpFuncs, NEW down \in BOOLEAN, numOfPciDevice \in Nat
  PROVE  LET b == PageDump(u, down)
         IN  /\ b \in Nat
             /\ u.func = "PCI" => b = 0 \/ b < numOfPciDevice
             /\ u.func = "IO" => b + FDK_BYTE_PER_SCREEN <= IoSpace
             /\ u.func = "CMOS" => b = 0
             /\ u.func \in {"IO", "MEM", "IDE"} => b % FDK_BYTE_PER_SCREEN = 0
<1> DEFINE n == numOfPciDevice
           S == FDK_BYTE_PER_SCREEN
           step == IF down THEN S ELSE -S
           b == PageDump(u, down)
<1> USE CfdkUiAssumption
<1>1. u.base \in Nat /\ n \in Nat /\ S \in Nat \ {0}
  BY ScreenProperties DEF Good, UiRecord
<1>2. b = IF u.func = "PCI" /\ n > 0
          THEN (u.base + (IF down THEN 1 ELSE n - 1)) % n
          ELSE IF u.func = "IO" THEN (u.base + step) % IoSpace
          ELSE IF u.func = "IDE" /\ (down \/ u.base >= S) THEN u.base + step
          ELSE IF u.func \in {"MEM", "INIT"} THEN (u.base + step) % MemSpace
          ELSE u.base
  BY DEF PageDump
<1>3. step \in Int /\ (down => step = S) /\ (~down => step = -S)
  BY <1>1
<1>4. step % S = 0
  <2>1. S = S * 1 /\ -S = S * (-1)
    BY <1>1
  <2>2. (S * 1) % S = 0 /\ (S * (-1)) % S = 0
    BY <1>1, ModMult
  <2> QED BY <1>3, <2>1, <2>2
<1> HIDE DEF b, step, S
<1>5. CASE u.func = "PCI"
  <2>1. CASE n > 0
    <3> DEFINE x == u.base + (IF down THEN 1 ELSE n - 1)
    <3>1. x \in Int
      BY <1>1
    <3> HIDE DEF x
    <3>2. x % n \in 0..(n - 1)
      BY <1>1, <2>1, <3>1, DivMod, SMTT(40)
    <3>3. b = x % n
      BY <1>2, <1>5, <2>1 DEF x
    <3> QED BY <1>1, <1>5, <2>1, <3>2, <3>3 DEF b
  <2>2. CASE ~(n > 0)
    <3>1. b = u.base
      BY <1>2, <1>5, <2>2
    <3> QED BY <1>1, <1>5, <3>1 DEF b, Good
  <2> QED BY <2>1, <2>2
<1>6. ASSUME NEW I \in Nat \ {0}, I % S = 0, u.base % S = 0
      PROVE  LET r == (u.base + step) % I IN r \in Nat /\ r % S = 0 /\ r + S <= I
  <2> DEFINE x == u.base + step
  <2>1. x \in Int /\ x % S = 0
    BY <1>1, <1>3, <1>4, <1>6, ModZero
  <2> HIDE DEF x
  <2>2. x % I \in Nat /\ x % I < I
    BY <2>1, DivMod, SMTT(40)
  <2>3. (x % I) % S = 0
    BY <1>1, <1>6, <2>1, WrapZero
  <2> DEFINE r == x % I
  <2>4. r \in Nat /\ r < I /\ r % S = 0
    BY <2>2, <2>3
  <2> HIDE DEF r
  <2>5. r + S <= I
    BY <1>1, <1>6, <2>4, RoomForBlock
  <2> QED BY <2>4, <2>5 DEF r, x
<1>7. CASE u.func = "IO"
  <2>1. b = (u.base + step) % IoSpace
    BY <1>2, <1>7
  <2>2. u.base % S = 0 /\ IoSpace % S = 0
    BY <1>7 DEF Good, S
  <2> QED BY <1>6, <1>7, <2>1, <2>2 DEF b, S
<1>8. CASE u.func = "MEM"
  <2>1. b = (u.base + step) % MemSpace
    BY <1>2, <1>8
  <2>2. u.base % S = 0 /\ MemSpace % S = 0
    BY <1>8 DEF Good, S
  <2> QED BY <1>6, <1>8, <2>1, <2>2 DEF b, S
<1>9. CASE u.func = "IDE"
  <2>1. u.base % S = 0
    BY <1>9 DEF Good, S
  <2>2. CASE down \/ u.base >= S
    <3>1. b = u.base + step
      BY <1>2, <1>9, <2>2
    <3>2. u.base + step \in Nat
      BY <1>1, <1>3, <2>2
    <3>3. (u.base + step) % S = 0
      BY <1>1, <1>3, <1>4, <2>1, ModZero
    <3> QED BY <1>9, <3>1, <3>2, <3>3 DEF b, S
  <2>3. CASE ~(down \/ u.base >= S)
    <3>1. b = u.base
      BY <1>2, <1>9, <2>3
    <3> QED BY <1>1, <1>9, <2>1, <3>1 DEF b, S
  <2> QED BY <2>2, <2>3
<1>10. CASE u.func = "CMOS"
  <2>1. b = u.base
    BY <1>2, <1>10
  <2> QED BY <1>1, <1>10, <2>1 DEF b, Good
<1> QED BY <1>5, <1>7, <1>8, <1>9, <1>10 DEF DumpFuncs

\* A key in a dump moves the cursor or the page, or starts or ends an edit; it
\* never does both, and never leaves the function.
LEMMA DumpKeyGood ==
  ASSUME NEW u, Good(u), u.func \in DumpFuncs, NEW key, numOfPciDevice \in Nat
  PROVE  /\ Good(DumpKey(u, key))
         /\ DumpKey(u, key).func = u.func /\ DumpKey(u, key).from = u.from
         /\ u.editing \/ DumpKey(u, key).editing => Place(DumpKey(u, key)) = Place(u)
         /\ ~u.editing /\ DumpKey(u, key).editing => key = "Enter"
<1> DEFINE S == FDK_BYTE_PER_SCREEN
           Result(v) == /\ Good(v) /\ v.func = u.func /\ v.from = u.from
                        /\ u.editing \/ v.editing => Place(v) = Place(u)
                        /\ ~u.editing /\ v.editing => key = "Enter"
<1>1. /\ u \in UiRecord /\ u.off \in 0..(S - 1) /\ u.digits \in 0..2 /\ u.base \in Nat
      /\ S \in Nat \ {0} /\ LineBytes \in Nat \ {0} /\ LineBytes <= S
  BY ScreenProperties DEF Good, UiRecord
<1>2. ASSUME NEW o \in 0..(S - 1), ~u.editing PROVE Result([u EXCEPT !.off = o])
  <2> DEFINE v == [u EXCEPT !.off = o]
  <2>1. /\ v \in UiRecord /\ v.off = o /\ v.func = u.func /\ v.base = u.base /\ v.hl = u.hl
        /\ v.page = u.page /\ v.info = u.info /\ v.editing = u.editing /\ v.from = u.from
    BY <1>1 DEF UiRecord
  <2> HIDE DEF v
  <2>2. v.off < S
    BY <1>1, <2>1
  <2>3. Good(v)
    BY <2>1, <2>2 DEF Good
  <2> QED BY <1>2, <2>1, <2>3 DEF v
<1>3. ASSUME NEW e \in BOOLEAN, e => key = "Enter"
      PROVE  Result([u EXCEPT !.editing = e])
  <2> DEFINE v == [u EXCEPT !.editing = e]
  <2>1. /\ v \in UiRecord /\ v.off = u.off /\ v.func = u.func /\ v.base = u.base /\ v.hl = u.hl
        /\ v.page = u.page /\ v.info = u.info /\ v.editing = e /\ v.from = u.from
    BY <1>1 DEF UiRecord
  <2> HIDE DEF v
  <2>2. Good(v)
    BY <2>1 DEF Good, DumpFuncs
  <2> QED BY <1>3, <2>1, <2>2 DEF v, Place
<1>4. ASSUME u.editing PROVE Result([u EXCEPT !.digits = Least(@ + 1, 2)])
  <2> DEFINE v == [u EXCEPT !.digits = Least(@ + 1, 2)]
  <2>1. Least(u.digits + 1, 2) \in 0..2
    BY <1>1 DEF Least
  <2>2. /\ v \in UiRecord /\ v.off = u.off /\ v.func = u.func /\ v.base = u.base /\ v.hl = u.hl
        /\ v.page = u.page /\ v.info = u.info /\ v.editing = u.editing /\ v.from = u.from
    BY <1>1, <2>1 DEF UiRecord
  <2> HIDE DEF v
  <2>3. Good(v)
    BY <2>2 DEF Good
  <2> QED BY <1>4, <2>2, <2>3 DEF v, Place
<1>5. ASSUME NEW down \in BOOLEAN, ~u.editing
      PROVE  Result([u EXCEPT !.base = PageDump(u, down)])
  <2> DEFINE b == PageDump(u, down)
             v == [u EXCEPT !.base = b]
  <2>1. /\ b \in Nat
        /\ u.func = "PCI" => b = 0 \/ b < numOfPciDevice
        /\ u.func = "IO" => b + FDK_BYTE_PER_SCREEN <= IoSpace
        /\ u.func = "CMOS" => b = 0
        /\ u.func \in {"IO", "MEM", "IDE"} => b % FDK_BYTE_PER_SCREEN = 0
    BY PageDumpGood
  <2> HIDE DEF b
  <2>2. /\ v \in UiRecord /\ v.off = u.off /\ v.func = u.func /\ v.base = b /\ v.hl = u.hl
        /\ v.page = u.page /\ v.info = u.info /\ v.editing = u.editing /\ v.from = u.from
    BY <1>1, <2>1 DEF UiRecord
  <2> HIDE DEF v
  <2>3. Good(v)
    BY <2>1, <2>2 DEF Good, DumpFuncs
  <2> QED BY <1>5, <2>2, <2>3 DEF v, b
<1>6. Result(u)
  OBVIOUS
<1>7. LET c == u.off % LineBytes
      IN  /\ (u.off - LineBytes + S) % S \in 0..(S - 1)
          /\ (u.off + LineBytes) % S \in 0..(S - 1)
          /\ (IF c > 0 THEN u.off - 1 ELSE u.off + LineBytes - 1) \in 0..(S - 1)
          /\ (IF c < LineBytes - 1 THEN u.off + 1 ELSE u.off - LineBytes + 1) \in 0..(S - 1)
  <2> DEFINE x == u.off
             c == x % LineBytes
  <2>1. c \in 0..(LineBytes - 1) /\ c <= x /\ x - c + LineBytes <= S /\ x \in 0..(S - 1)
    BY <1>1, ColumnStep
  <2>2. (x - LineBytes + S) % S \in 0..(S - 1) /\ (x + LineBytes) % S \in 0..(S - 1)
    <3> HIDE DEF S, x
    <3>1. S \in Nat \ {0} /\ x \in Int /\ LineBytes \in Int
      BY <1>1, <2>1
    <3>2. x - LineBytes + S \in Int /\ x + LineBytes \in Int
      BY <3>1
    <3> QED BY <3>1, <3>2, DivMod
  <2> HIDE DEF x, c, S
  <2>3. /\ (IF c > 0 THEN x - 1 ELSE x + LineBytes - 1) \in 0..(S - 1)
        /\ (IF c < LineBytes - 1 THEN x + 1 ELSE x - LineBytes + 1) \in 0..(S - 1)
    BY <1>1, <2>1
  <2> QED BY <2>2, <2>3 DEF x, c, S
<1> HIDE DEF Result
<1>8. CASE u.editing
  <2>1. DumpKey(u, key) \in {[u EXCEPT !.editing = FALSE], [u EXCEPT !.digits = Least(@ + 1, 2)], u}
    BY <1>8 DEF DumpKey
  <2>2. Result([u EXCEPT !.editing = FALSE])
    BY <1>3
  <2> QED BY <1>4, <1>6, <1>8, <2>1, <2>2 DEF Result
<1>9. CASE ~u.editing
  <2>1. Result(DumpKey(u, key))
    <3>1. CASE key = "Up"
      BY <1>2, <1>7, <1>9, <3>1 DEF DumpKey
    <3>2. CASE key = "Down"
      BY <1>2, <1>7, <1>9, <3>2 DEF DumpKey
    <3>3. CASE key = "Left"
      BY <1>2, <1>7, <1>9, <3>3 DEF DumpKey, Column
    <3>4. CASE key = "Right"
      BY <1>2, <1>7, <1>9, <3>4 DEF DumpKey, Column
    <3>5. CASE key \in {"PgUp", "PgDn"}
      <4>1. DumpKey(u, key) = [u EXCEPT !.base = PageDump(u, key = "PgDn")] /\ (key = "PgDn") \in BOOLEAN
        BY <1>9, <3>5 DEF DumpKey
      <4> QED BY <1>5, <1>9, <4>1
    <3>6. CASE key = "Enter"
      BY <1>3, <1>9, <3>6 DEF DumpKey
    <3>7. CASE key \notin {"Up", "Down", "Left", "Right", "PgUp", "PgDn", "Enter"}
      BY <1>6, <1>9, <3>7 DEF DumpKey
    <3> QED BY <3>1, <3>2, <3>3, <3>4, <3>5, <3>6, <3>7
  <2> QED BY <2>1 DEF Result
<1> QED BY <1>8, <1>9

\* The edit buffer takes the byte under the cursor, or keeps what was typed.
LEMMA DrawGood ==
  ASSUME NEW u, Good(u)
  PROVE  /\ Good(Draw(u)) /\ Draw(u).func = u.func /\ Draw(u).editing = u.editing
         /\ Place(Draw(u)) = Place(u) /\ Draw(u).base = u.base
         /\ Draw(u).from = IF u.editing THEN u.from ELSE Place(u)
<1> DEFINE v == [u EXCEPT !.from = Place(u), !.digits = 0]
<1>1. u \in UiRecord
  BY DEF Good
<1>2. Place(u) \in PlaceRecord
  BY <1>1 DEF Place, PlaceRecord, UiRecord
<1>3. /\ v \in UiRecord /\ v.off = u.off /\ v.func = u.func /\ v.base = u.base /\ v.hl = u.hl
      /\ v.page = u.page /\ v.info = u.info /\ v.editing = u.editing /\ v.from = Place(u)
  <2> DEFINE p == Place(u)
  <2>1. p \in PlaceRecord
    BY <1>2
  <2> HIDE DEF p
  <2>2. /\ v = [u EXCEPT !.from = p, !.digits = 0] /\ 0 \in 0..2
    BY DEF p
  <2> HIDE DEF v
  <2> QED BY <1>1, <2>1, <2>2 DEF UiRecord, p
<1> HIDE DEF v
<1>4. Good(v) /\ Place(v) = Place(u)
  BY <1>3 DEF Good, Place
<1>5. Draw(u) = IF u.editing THEN u ELSE v
  BY DEF Draw, v
<1> QED BY <1>3, <1>4, <1>5

\* A function key chooses any function but the one of the start.
LEMMA NextFuncProperties ==
  ASSUME NEW u \in UiRecord, NEW key \in Keys
  PROVE  /\ NextFunc(u, key) \in Funcs
         /\ NextFunc(u, key) = "INIT" => u.func = "INIT" /\ key \in {"F1", "Esc"}
         /\ key = "Enter" => NextFunc(u, key) = u.func \/ u.func = "INIT"
         /\ NextFunc(u, key) # u.func /\ u.func # "INIT" => key \in {"F2", "F3", "F4", "F5", "F6", "F7"}
<1>1. DOMAIN FuncOfKey = {"F2", "F3", "F4", "F5", "F6", "F7"}
  BY DEF FuncOfKey
<1>2. \A q \in DOMAIN FuncOfKey : FuncOfKey[q] \in Funcs \ {"INIT"}
  BY <1>1 DEF FuncOfKey, Funcs, DumpFuncs
<1>3. u.func \in Funcs
  BY DEF UiRecord
<1>4. "MEM" \in Funcs
  BY DEF Funcs, DumpFuncs
<1> QED BY <1>1, <1>2, <1>3, <1>4 DEF NextFunc

\* The state of a dump or the listing a key finds once the function keys and Esc
\* were looked at: an edit that is still going on is the one that was.
LEMMA DispatchGood ==
  ASSUME Good(ui), NEW key \in Keys, numOfPciDevice \in Nat
  PROVE  LET d == Dispatch(ui, key)
         IN  /\ Good(d) /\ (d.editing => d = ui)
             /\ key = "Enter" => d = ui \/ ui.func = "INIT"
             /\ d.func = "INIT" => ui.func = "INIT" /\ key \in {"F1", "Esc"}
<1> DEFINE v == IF key = "Esc" THEN [ui EXCEPT !.editing = FALSE] ELSE ui
           f == NextFunc(ui, key)
           d == Dispatch(ui, key)
<1>1. ui \in UiRecord
  BY DEF Good
<1>2. /\ f \in Funcs /\ (f = "INIT" => ui.func = "INIT" /\ key \in {"F1", "Esc"})
      /\ key = "Enter" => f = ui.func \/ ui.func = "INIT"
  BY <1>1, NextFuncProperties
<1>3. Good(v) /\ v.func = ui.func /\ v.base = ui.base /\ (key # "Esc" => v = ui) /\ (key = "Esc" => ~v.editing)
  <2> DEFINE e == [ui EXCEPT !.editing = FALSE]
  <2>1. /\ e \in UiRecord /\ e.off = ui.off /\ e.func = ui.func /\ e.base = ui.base /\ e.hl = ui.hl
        /\ e.page = ui.page /\ e.info = ui.info /\ e.editing = FALSE /\ e.from = ui.from
    BY <1>1 DEF UiRecord
  <2> HIDE DEF e
  <2>2. Good(e)
    BY <2>1 DEF Good
  <2>3. v = IF key = "Esc" THEN e ELSE ui
    BY DEF e
  <2> HIDE DEF v
  <2> QED BY <2>1, <2>2, <2>3
<1>4. d = IF f = ui.func THEN v ELSE SwitchFunction(v, f)
  BY DEF Dispatch
<1> HIDE DEF v, f, d
<1>5. CASE f = ui.func
  <2>1. d = v /\ d.func = ui.func
    BY <1>3, <1>4, <1>5
  <2> QED BY <1>2, <1>3, <1>5, <2>1 DEF d
<1>6. CASE f # ui.func
  <2>1. d = SwitchFunction(v, f) /\ f # "INIT" /\ v \in UiRecord
    BY <1>2, <1>3, <1>4, <1>6 DEF Good
  <2>2. v.func = "PCIL" => v.base = 0
    BY <1>3 DEF Good
  <2>3. Good(d) /\ d.func = f /\ ~d.editing
    BY <1>2, <2>1, <2>2, SwitchFunctionGood
  <2> QED BY <1>2, <1>6, <2>1, <2>3 DEF d
<1> QED BY <1>5, <1>6

-----------------------------------------------------------------------------
(* One turn of the loop.                                                    *)

\* What main's loop relies on in a turn, and what EditKeepsItsPlace says of it.
TurnStep ==
  /\ numOfPciDevice' = numOfPciDevice /\ link' = link
  /\ running' \in {"yes", "killed", "crashed"}
  /\ running' = "killed" => link = "broken"
  /\ running' = "crashed" => ui'.func = "INIT" /\ screen' = NoPlace
  /\ ui.editing /\ ui'.editing => Place(ui') = Place(ui)
  /\ wrote' # NoWrite => ui.editing /\ wrote'.at = Place(ui)

\* The places that are no bytes are places.
LEMMA Places ==
  /\ NoPlace \in PlaceRecord /\ Listing \in PlaceRecord
  /\ NoWrite \in [at : PlaceRecord, from : PlaceRecord, digits : 0..2]
BY DEF NoPlace, Listing, NoWrite, PlaceRecord, Funcs, DumpFuncs

\* A turn in a dump: the write goes to the edited byte, and then the dump is read
\* and drawn, unless the link breaks it off.
LEMMA DumpTurnKeeps ==
  ASSUME UiInv, running = "yes", NEW key, NEW d, Good(d), d.func # "PCIL",
         d.editing => d = ui,
         key = "Enter" => d = ui \/ ui.func = "INIT",
         d.func = "INIT" => ui.func = "INIT" /\ key \in {"F1", "Esc"},
         hasty' \in BOOLEAN, ui.func = "INIT" /\ key = "Enter" => hasty',
         hasty /\ ui.editing => hasty',
         DumpTurn(d, key)
  PROVE  UiInv' /\ TurnStep
<1> DEFINE u == DumpKey(d, key)
<1>0. numOfPciDevice \in Nat /\ Good(ui) /\ ui \in UiRecord /\ d \in UiRecord /\ link \in {"up", "broken"}
  BY Devices DEF UiInv, Good, TypeOK
<1>1. /\ Good(u) /\ u.func = d.func /\ u.from = d.from
      /\ d.editing \/ u.editing => Place(u) = Place(d)
      /\ ~d.editing /\ u.editing => key = "Enter"
  <2>1. CASE d.func = "INIT"
    <3>1. ~d.editing /\ key \in {"F1", "Esc"}
      BY <2>1 DEF Good
    <3>2. u = d
      BY <3>1 DEF DumpKey
    <3> QED BY <3>1, <3>2
  <2>2. CASE d.func # "INIT"
    <3>1. d.func \in DumpFuncs
      BY <1>0, <2>2 DEF UiRecord, Funcs
    <3> QED BY <1>0, <3>1, DumpKeyGood
  <2> QED BY <2>1, <2>2
<1>2. /\ numOfPciDevice' = numOfPciDevice /\ link' = link
      /\ wrote' = IF Writes(d, key) /\ link = "up"
                  THEN [at |-> Place(d), from |-> d.from, digits |-> d.digits] ELSE NoWrite
  BY DEF DumpTurn
<1>3. \/ ~Requests(u) /\ ui' = u /\ screen' = Cleared(u) /\ running' = running
      \/ /\ Requests(u) /\ link = "broken"
         /\ ui' = u /\ screen' = Cleared(u) /\ running' \in {"yes", "killed"}
      \/ /\ Requests(u) /\ ~u.info
         /\ ui' = u /\ screen' = Cleared(u) /\ running' = "crashed"
      \/ /\ Requests(u) /\ u.info
         /\ ui' = Draw(u) /\ screen' = Place(u) /\ running' = running
  BY DEF DumpTurn
<1> HIDE DEF u
<1>4. /\ Good(Draw(u)) /\ Draw(u).func = u.func /\ Draw(u).editing = u.editing
      /\ Place(Draw(u)) = Place(u) /\ Draw(u).base = u.base
      /\ Draw(u).from = IF u.editing THEN u.from ELSE Place(u)
  BY <1>1, DrawGood
<1>5. Place(u) \in PlaceRecord /\ Place(d) \in PlaceRecord /\ d.from \in PlaceRecord /\ d.digits \in 0..2
  BY <1>0, <1>1 DEF Good, UiRecord, Place, PlaceRecord
<1>6. /\ Good(ui') /\ ui'.func = u.func /\ ui'.editing = u.editing /\ Place(ui') = Place(u)
      /\ ui'.base = u.base
  BY <1>1, <1>3, <1>4
<1>7. Cleared(u) \in PlaceRecord /\ (u.func # ui.func => Cleared(u) = NoPlace)
      /\ (u.func = ui.func => Cleared(u) = screen)
  BY Places DEF Cleared, UiInv, TypeOK
<1>8. u.func \in DumpFuncs => u.info
  BY <1>1 DEF Good
<1>9. u.func # "INIT" => u.func \in DumpFuncs
  BY <1>1 DEF Good, UiRecord, Funcs
<1>10. wrote' # NoWrite =>
         /\ d = ui /\ ui.editing /\ Requests(ui) /\ ui.func \in DumpFuncs /\ link = "up"
         /\ wrote'.at = Place(ui) /\ wrote'.from = ui.from
  BY <1>2 DEF Writes
<1>11. Good(ui)'
  BY <1>2, <1>6 DEF Good
<1>12. TypeOK'
  <2>1. wrote' \in [at : PlaceRecord, from : PlaceRecord, digits : 0..2]
    BY <1>2, <1>5, Places
  <2>2. screen' \in PlaceRecord /\ running' \in {"yes", "killed", "crashed"}
    BY <1>3, <1>5, <1>7
  <2>3. ui' \in UiRecord
    BY <1>6 DEF Good
  <2> QED BY <1>0, <1>2, <2>1, <2>2, <2>3 DEF TypeOK, UiInv, UiRecord
<1>13. ScreenIsCurrent'
  <2> SUFFICES ASSUME link' = "up", running' = "yes", ui'.func # "INIT"
               PROVE  screen' = (IF ui'.func = "PCIL" THEN Listing
                                 ELSE IF Requests(ui') THEN Place(ui') ELSE NoPlace)
                      /\ (Requests(ui') <=> Requests(ui)')
    BY <1>2 DEF ScreenIsCurrent, Requests
  <2>1. Requests(ui') <=> Requests(u)
    BY <1>6 DEF Requests
  <2>2. Requests(ui') <=> Requests(ui)'
    BY <1>2 DEF Requests
  <2>3. ui'.func # "PCIL"
    BY <1>1, <1>6
  <2>4. CASE Requests(u)
    <3>1. screen' = Place(u)
      BY <1>2, <1>3, <2>4
    <3> QED BY <1>6, <2>1, <2>2, <2>3, <2>4, <3>1
  <2>5. CASE ~Requests(u)
    <3>1. screen' = Cleared(u)
      BY <1>3, <2>5
    <3>2. u.func = "PCI" /\ numOfPciDevice = 0
      <4>1. u.func = "PCI" /\ ~(u.base < numOfPciDevice) /\ u.base = 0
        BY <1>1, <2>5 DEF Requests, Good
      <4> QED BY <1>0, <4>1
    <3>3. CASE u.func = ui.func
      <4>1. ~Requests(ui)
        <5>1. ui.base \in Nat
          BY <1>0 DEF UiRecord
        <5> QED BY <3>2, <3>3, <5>1 DEF Requests
      <4>2. screen = NoPlace
        BY <1>2, <3>2, <3>3, <4>1 DEF UiInv, ScreenIsCurrent
      <4> QED BY <1>7, <2>1, <2>2, <2>3, <2>5, <3>1, <3>3, <4>2
    <3>4. CASE u.func # ui.func
      BY <1>7, <2>1, <2>2, <2>3, <2>5, <3>1, <3>4
    <3> QED BY <3>3, <3>4
  <2> QED BY <2>4, <2>5
<1>14. LoopInv'
  <2>1. (ui.func = "INIT" => screen = NoPlace)'
    <3>1. ASSUME u.func = "INIT" PROVE screen' = NoPlace
      <4>1. ui.func = "INIT" /\ screen = NoPlace /\ ~u.info
        BY <1>1, <3>1 DEF UiInv, LoopInv, Good
      <4> QED BY <1>3, <1>7, <3>1, <4>1
    <3> QED BY <1>6, <3>1
  <2>2. (wrote # NoWrite /\ ~hasty => wrote.from = wrote.at)'
    BY <1>10 DEF UiInv, LoopInv, Drawn
  <2>3. Drawn'
    <3> SUFFICES ASSUME link' = "up", running' = "yes", ui'.func \in DumpFuncs, Requests(u)
                 PROVE  (ui'.editing /\ hasty') \/ ui'.from = Place(ui')
      BY <1>2, <1>6 DEF Drawn, Requests, Place
    <3>1. ui' = Draw(u)
      BY <1>2, <1>3
    <3>2. CASE ~u.editing
      BY <1>4, <3>1, <3>2
    <3>3. CASE u.editing /\ d.editing
      <4>1. d = ui /\ ui.func \in DumpFuncs /\ Requests(ui) /\ ui.editing
        BY <1>1, <1>6, <3>3 DEF Requests, Place
      <4>2. (ui.editing /\ hasty) \/ ui.from = Place(ui)
        BY <1>2, <4>1 DEF UiInv, LoopInv, Drawn
      <4> QED BY <1>1, <1>4, <3>1, <3>3, <4>1, <4>2
    <3>4. CASE u.editing /\ ~d.editing
      <4>1. key = "Enter" /\ Place(u) = Place(d)
        BY <1>1, <3>4
      <4>2. CASE ui.func = "INIT"
        BY <1>4, <3>1, <3>4, <4>1, <4>2
      <4>3. CASE d = ui
        <5>1. ui.func \in DumpFuncs /\ Requests(ui) /\ ~ui.editing
          BY <1>1, <1>6, <3>4, <4>1, <4>3 DEF Requests, Place
        <5>2. ui.from = Place(ui)
          BY <1>2, <5>1 DEF UiInv, LoopInv, Drawn
        <5> QED BY <1>1, <1>4, <3>1, <3>4, <4>1, <4>3, <5>2
      <4> QED BY <4>1, <4>2, <4>3
    <3> QED BY <3>2, <3>3, <3>4
  <2> QED BY <2>1, <2>2, <2>3 DEF LoopInv
<1>15. TurnStep
  <2>1. running' \in {"yes", "killed", "crashed"} /\ (running' = "killed" => link = "broken")
    BY <1>3
  <2>2. running' = "crashed" => ui'.func = "INIT" /\ screen' = NoPlace
    <3>1. running' = "crashed" => ~u.info
      BY <1>3
    <3>2. running' = "crashed" => ui'.func = "INIT"
      BY <1>6, <1>8, <1>9, <3>1
    <3> QED BY <1>14, <3>2 DEF LoopInv
  <2>3. ui.editing /\ ui'.editing => Place(ui') = Place(ui)
    <3>1. ui.editing => ui.func # "INIT"
      BY <1>0 DEF Good
    <3>2. u.editing /\ ui.editing => d = ui /\ Place(u) = Place(d)
      BY <1>1, <3>1
    <3> QED BY <1>6, <3>2
  <2> QED BY <1>2, <1>10, <2>1, <2>2, <2>3 DEF TurnStep
<1> QED BY <1>11, <1>12, <1>13, <1>14, <1>15 DEF UiInv

\* Any turn: the first key, one in the listing, or one in a dump.
LEMMA TurnKeeps ==
  ASSUME UiInv, NEW key \in Keys, Turn(key)
  PROVE  UiInv' /\ TurnStep /\ running = "yes"
<1> DEFINE u == Dispatch(ui, key)
           v == ListKey(u, key)
<1>1. /\ running = "yes" /\ numOfPciDevice \in Nat /\ Good(ui)
      /\ hasty' = ((ui.func = "INIT" /\ key = "Enter") \/ (hasty /\ ui.editing))
  BY Devices DEF Turn, UiInv
<1>2. /\ hasty' \in BOOLEAN /\ (hasty /\ ui.editing => hasty')
      /\ (ui.func = "INIT" /\ key = "Enter" => hasty')
  BY <1>1
<1>3. /\ Good(u) /\ (u.editing => u = ui)
      /\ key = "Enter" => u = ui \/ ui.func = "INIT"
      /\ u.func = "INIT" => ui.func = "INIT" /\ key \in {"F1", "Esc"}
  BY <1>1, DispatchGood
<1>4. \/ u.func # "PCIL" /\ DumpTurn(u, key)
      \/ u.func = "PCIL" /\ v.func = "PCIL" /\ ListTurn(v)
      \/ u.func = "PCIL" /\ v.func # "PCIL" /\ DumpTurn(v, "Other")
  BY DEF Turn
<1> HIDE DEF u
<1>5. u.func = "PCIL" => Good(v) /\ v.func \in {"PCIL", "PCI"} /\ ~v.editing
  BY <1>1, <1>3, ListKeyGood
<1> HIDE DEF v
<1>6. CASE u.func # "PCIL" /\ DumpTurn(u, key)
  BY <1>1, <1>2, <1>3, <1>6, DumpTurnKeeps
<1>7. CASE u.func = "PCIL" /\ v.func # "PCIL" /\ DumpTurn(v, "Other")
  BY <1>1, <1>2, <1>5, <1>7, DumpTurnKeeps
<1>8. CASE u.func = "PCIL" /\ v.func = "PCIL" /\ ListTurn(v)
  <2>1. /\ ui' = v /\ screen' = Listing /\ wrote' = NoWrite
        /\ numOfPciDevice' = numOfPciDevice /\ running' = running /\ link' = link
    BY <1>8 DEF ListTurn
  <2>2. Good(ui)' /\ TypeOK'
    BY <1>2, <1>5, <1>8, <2>1, Places DEF Good, UiInv, TypeOK, UiRecord
  <2>3. ScreenIsCurrent' /\ LoopInv' /\ TurnStep
    BY <1>1, <1>5, <1>8, <2>1 DEF ScreenIsCurrent, LoopInv, Drawn, TurnStep, DumpFuncs
  <2> QED BY <1>1, <2>2, <2>3 DEF UiInv
<1> QED BY <1>4, <1>6, <1>7, <1>8

-----------------------------------------------------------------------------
(* main around the loop.                                                    *)

\* The loop starts well, whatever the listing of devices said.
LEMMA FirstUiGood == ASSUME numOfPciDevice \in Nat PROVE Good(FirstUi)
<1>1. FirstUi \in UiRecord
  BY Places DEF FirstUi, UiRecord, Funcs, DumpFuncs
<1> QED BY <1>1, ScreenProperties, CfdkUiAssumption DEF FirstUi, Good, DumpFuncs

\* cfdk starts in the invariant.
LEMMA InitIInv == CfdkInit => IInv
<1> SUFFICES ASSUME CfdkInit PROVE IInv
  OBVIOUS
<1>1. ui = FirstUi /\ numOfPciDevice \in Nat /\ numOfPciDevice \in DevCounts
  BY CfdkUiAssumption DEF CfdkInit, Init, FirstUi
<1>2. Good(ui)
  BY <1>1, FirstUiGood
<1>3. TypeOK
  BY <1>1, <1>2, Places DEF CfdkInit, Init, TypeOK, Good, UiRecord
<1>4. ScreenIsCurrent /\ LoopInv
  BY <1>1 DEF CfdkInit, Init, FirstUi, ScreenIsCurrent, LoopInv, Drawn, DumpFuncs
<1>5. /\ place = "start" /\ via \in {"tty", "socket"} /\ terminal = "normal" /\ session = "none"
      /\ code = 1 /\ code # 0 /\ running = "yes"
  BY DEF CfdkInit, Init
<1>6. connected \in BOOLEAN
  BY DEF CfdkInit
<1>7. MainInv /\ TerminalIsGivenBack /\ SessionIsClosed
  BY <1>1, <1>5, <1>6 DEF MainInv, TerminalIsGivenBack, SessionIsClosed
<1> QED BY <1>2, <1>3, <1>4, <1>7 DEF IInv, UiInv

\* A step that leaves the loop's variables alone, but that cfdk ends or the link
\* breaks.
LEMMA SameUi ==
  ASSUME UiInv, UNCHANGED <<numOfPciDevice, ui, screen, wrote, hasty>>,
         running' = running \/ running' \in {"quit", "killed"}, link' \in {link, "broken"}
  PROVE  UiInv'
<1>1. Good(ui)'
  BY DEF UiInv, Good
<1>2. TypeOK'
  BY DEF UiInv, TypeOK
<1>3. ScreenIsCurrent' /\ LoopInv'
  BY DEF UiInv, TypeOK, ScreenIsCurrent, LoopInv, Drawn, Requests
<1> QED BY <1>1, <1>2, <1>3 DEF UiInv

\* The steps of main that leave the loop's variables alone.
LEMMA MainSteps ==
  ASSUME IInv, OpenTty \/ OpenSocket \/ Connect \/ GetE820List \/ RequestFails \/ RequestKills
               \/ OpenScreen \/ LeaveUi \/ Exit \/ LinkBreaks \/ Gone \/ UNCHANGED cfdkVars
  PROVE  IInv' /\ ui' = ui /\ wrote' = wrote
<1> USE DEF vars, mainVars, cfdkVars
<1>1. UiInv /\ MainInv /\ TerminalIsGivenBack /\ SessionIsClosed
  BY DEF IInv
<1>2. /\ UNCHANGED <<numOfPciDevice, ui, screen, wrote, hasty>>
      /\ running' = running \/ running' \in {"quit", "killed"}
      /\ link' \in {link, "broken"}
  BY DEF OpenTty, OpenSocket, Connect, GetE820List, RequestFails, RequestKills, OpenScreen,
         LeaveUi, Quit, Exit, LinkBreaks, Break, Gone
<1>3. UiInv'
  BY <1>1, <1>2, SameUi
<1>4. CASE OpenTty \/ OpenSocket \/ GetE820List
  <2>1. /\ place \in {"start", "e820"} /\ ui' = ui /\ running' = running
        /\ UNCHANGED <<via, terminal, connected, session, code>>
        /\ place' \in {"gone", "exit", "connect", "screen"}
        /\ place' \in {"gone", "connect"} => place = "start"
    BY <1>4 DEF OpenTty, OpenSocket, GetE820List
  <2>2. session = "open" => place # "start"
    BY <1>1 DEF MainInv
  <2>3. MainInv'
    BY <1>1, <2>1 DEF MainInv
  <2>4. TerminalIsGivenBack' /\ SessionIsClosed'
    BY <1>1, <2>1, <2>2 DEF MainInv, TerminalIsGivenBack, SessionIsClosed
  <2> QED BY <1>2, <1>3, <2>3, <2>4 DEF IInv
<1>9. CASE Connect
  <2>1. /\ place = "connect" /\ place' = "pcilist" /\ session' = "open"
        /\ ui' = ui /\ running' = running /\ UNCHANGED <<via, terminal, code>>
    BY <1>9 DEF Connect
  <2>2. connected' /\ connected' \in BOOLEAN
    BY <1>9 DEF Connect
  <2>3. MainInv'
    BY <1>1, <2>1, <2>2 DEF MainInv
  <2>4. TerminalIsGivenBack' /\ SessionIsClosed'
    BY <2>1 DEF TerminalIsGivenBack, SessionIsClosed
  <2> QED BY <1>2, <1>3, <2>3, <2>4 DEF IInv
<1>5. CASE RequestFails \/ RequestKills \/ OpenScreen
  BY <1>1, <1>3, <1>5 DEF IInv, MainInv, TerminalIsGivenBack, SessionIsClosed, RequestFails, RequestKills, OpenScreen
<1>6. CASE LeaveUi
  BY <1>1, <1>3, <1>6 DEF IInv, MainInv, TerminalIsGivenBack, SessionIsClosed, LeaveUi, Quit
<1>7. CASE Exit
  BY <1>1, <1>3, <1>7 DEF IInv, MainInv, TerminalIsGivenBack, SessionIsClosed, Exit
<1>8. CASE LinkBreaks \/ Gone \/ UNCHANGED cfdkVars
  BY <1>1, <1>3, <1>8 DEF IInv, MainInv, TerminalIsGivenBack, SessionIsClosed, LinkBreaks, Break, Gone
<1> QED BY <1>2, <1>4, <1>5, <1>6, <1>7, <1>8, <1>9

\* The number of devices is set before any cursor moves.
LEMMA GetPciListIInv ==
  ASSUME IInv, GetPciList
  PROVE  IInv' /\ ui' = ui /\ wrote' = wrote
<1>1. /\ ui = FirstUi /\ ui' = ui /\ running' = running /\ link' = link /\ screen' = screen
      /\ wrote' = wrote /\ hasty' = hasty /\ UNCHANGED <<via, terminal, connected, session, code>>
      /\ place = "pcilist" /\ place' \in {"e820", "exit"} /\ numOfPciDevice' \in DevCounts
  BY DEF GetPciList, IInv, MainInv, UiInv, TypeOK
<1>2. Good(ui)'
  <2>1. numOfPciDevice' \in Nat
    BY <1>1, CfdkUiAssumption
  <2>2. FirstUi \in UiRecord
    BY <1>1 DEF IInv, UiInv, Good
  <2> QED BY <1>1, <2>1, <2>2, ScreenProperties, CfdkUiAssumption DEF FirstUi, Good, DumpFuncs
<1>3. TypeOK'
  BY <1>1 DEF IInv, UiInv, TypeOK
<1>4. ScreenIsCurrent' /\ LoopInv'
  BY <1>1 DEF IInv, UiInv, FirstUi, ScreenIsCurrent, LoopInv, Drawn, DumpFuncs
<1>5. MainInv' /\ TerminalIsGivenBack' /\ SessionIsClosed'
  BY <1>1 DEF IInv, MainInv, TerminalIsGivenBack, SessionIsClosed
<1> QED BY <1>1, <1>2, <1>3, <1>4, <1>5 DEF IInv, UiInv

\* A turn of the loop, in main.
LEMMA UiTurnIInv ==
  ASSUME IInv, UiTurn
  PROVE  IInv' /\ TurnStep
<1>1. PICK key \in Keys : Turn(key)
  BY DEF UiTurn
<1>2. UiInv' /\ TurnStep /\ running = "yes"
  BY <1>1, TurnKeeps DEF IInv
<1>3. /\ place = "ui" /\ (via = "tty" => running' # "killed")
      /\ place' = (IF running' = "yes" THEN "ui" ELSE "gone")
      /\ UNCHANGED <<via, terminal, connected, session, code>>
  BY DEF UiTurn
<1>4. MainInv'
  BY <1>2, <1>3 DEF IInv, MainInv, TurnStep
<1>5. TerminalIsGivenBack'
  BY <1>2, <1>3 DEF IInv, MainInv, TurnStep, TerminalIsGivenBack
<1>6. SessionIsClosed'
  BY <1>2, <1>3 DEF TurnStep, SessionIsClosed
<1> QED BY <1>2, <1>4, <1>5, <1>6 DEF IInv

\* Every state of a run is in the invariant.
LEMMA Inductive == CfdkSpec => []IInv
<1>1. IInv /\ [CfdkNext]_cfdkVars => IInv'
  BY MainSteps, GetPciListIInv, UiTurnIInv DEF CfdkNext
<1> QED BY InitIInv, <1>1, PTL DEF CfdkSpec

-----------------------------------------------------------------------------

\* Every variable of cfdk keeps its type; no cursor is ever negative.
THEOREM TypeCorrect == CfdkSpec => []TypeOK
<1>1. IInv => TypeOK
  BY DEF IInv, UiInv
<1> QED BY Inductive, <1>1, PTL

\* Whatever keys are pressed in runUi, the highlighted line is a device, the dump
\* is of a device or a whole screen of its space, and the cursor is on it.
THEOREM CursorsHold == CfdkSpec => []CursorsInRange
<1>1. IInv => CursorsInRange
  <2> SUFFICES ASSUME IInv PROVE CursorsInRange
    OBVIOUS
  <2>1. Good(ui) /\ ui \in UiRecord /\ numOfPciDevice \in Nat
    BY Devices DEF IInv, UiInv, Good
  <2>2. ui.off \in Nat /\ ui.hl \in Nat /\ ui.page \in Nat /\ ui.base \in Nat
    BY <2>1 DEF UiRecord
  <2>3. ui.off \in 0..(FDK_BYTE_PER_SCREEN - 1) /\ ui.hl \in 0..(RecPerPage - 1)
    BY <2>1, <2>2, ScreenProperties, CfdkUiAssumption DEF Good
  <2>4. IF numOfPciDevice = 0 THEN ui.hl + ui.page = 0 ELSE ui.hl + ui.page < numOfPciDevice
    BY <2>1, <2>2 DEF Good
  <2> QED BY <2>1, <2>2, <2>3, <2>4 DEF Good, CursorsInRange
<1> QED BY Inductive, <1>1, PTL

\* While the connection is up, runUi shows the current function, base address and
\* cursor after every turn.
THEOREM ScreenHolds == CfdkSpec => []ScreenIsCurrent
<1>1. IInv => ScreenIsCurrent
  BY DEF IInv, UiInv
<1> QED BY Inductive, <1>1, PTL

\* writeEditedByte writes what was typed, or the byte as it was drawn at that very
\* place, but for an edit begun before anything was drawn.
THEOREM WritesHold == CfdkSpec => []WritesShownOrTyped
<1>1. IInv => WritesShownOrTyped
  BY DEF IInv, UiInv, LoopInv, WritesShownOrTyped
<1> QED BY Inductive, <1>1, PTL

\* No key moves the place of an edit that goes on, and the write that ends it goes
\* to the place it began at.
THEOREM EditsHold == CfdkSpec => EditKeepsItsPlace
<1>1. ASSUME IInv, [CfdkNext]_cfdkVars
      PROVE  [/\ ui.editing /\ ui'.editing => Place(ui') = Place(ui)
              /\ wrote' # NoWrite /\ wrote' # wrote => ui.editing /\ wrote'.at = Place(ui)]_vars
  <2>1. TurnStep \/ (ui' = ui /\ wrote' = wrote)
    BY <1>1, MainSteps, GetPciListIInv, UiTurnIInv DEF CfdkNext
  <2> QED BY <2>1 DEF TurnStep, Place
<1> QED BY Inductive, <1>1, PTL DEF CfdkSpec, EditKeepsItsPlace

\* main gives back the terminal however it ends, but for a SIGPIPE on the socket
\* and the crash of the first F1.
THEOREM TerminalHolds == CfdkSpec => []TerminalIsGivenBack
<1>1. IInv => TerminalIsGivenBack
  BY DEF IInv
<1> QED BY Inductive, <1>1, PTL

\* Unless cfdk was killed or crashed, main ends the session it began over a link
\* that is up, whichever step failed, and returns 0 only when the user left the
\* loop.
THEOREM SessionHolds == CfdkSpec => []SessionIsClosed
<1>1. IInv => SessionIsClosed
  BY DEF IInv
<1> QED BY Inductive, <1>1, PTL

===============================================================================
