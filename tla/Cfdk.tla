--------------------------------- MODULE Cfdk ---------------------------------
(***************************************************************************)
(* A run of cfdk from its start to its end: main of src_cfdk/cfdk.c around *)
(* the loop of CfdkUi.  It opens the link, connects to the server, asks    *)
(* for the two listings, takes over the terminal, runs the loop, and       *)
(* leaves by the label Exit, or is killed or crashes on the way.           *)
(*                                                                         *)
(* The server's side is reduced to whether it is between a CONNECT and a   *)
(* DISCONNECT.  An answer may be missing, unexpected or too long while the *)
(* link is up; a request into a broken socket may kill cfdk, a tty does    *)
(* not.                                                                    *)
(***************************************************************************)
EXTENDS CfdkUi

CONSTANT MaxDevs  \* devices there is room for in the buffer

VARIABLES place,     \* where main is
          via,       \* "tty" (-d) or "socket"
          terminal,  \* "normal" or "curses"
          connected, \* main's flag
          session,   \* what the server got: "none", "open" or "closed"
          code       \* what main returns

mainVars == <<place, via, terminal, connected, session, code>>
cfdkVars == <<vars, mainVars>>

CfdkInit ==
  /\ Init /\ numOfPciDevice = 0
  /\ place = "start" /\ via \in {"tty", "socket"} /\ terminal = "normal"
  /\ connected = FALSE /\ session = "none" /\ code = 1

-----------------------------------------------------------------------------
(* Up to the loop.                                                          *)

\* The tty cannot be opened, or configured, or both went well.
OpenTty ==
  /\ place = "start" /\ via = "tty" /\ place' \in {"gone", "exit", "connect"}
  /\ UNCHANGED <<vars, via, terminal, connected, session, code>>

OpenSocket ==
  /\ place = "start" /\ via = "socket" /\ place' \in {"gone", "connect"}
  /\ UNCHANGED <<vars, via, terminal, connected, session, code>>

\* Mutant: main does not note that the server is connected.
ConnectUnnoted ==
  /\ place = "connect" /\ link = "up" /\ session' = "open" /\ place' = "pcilist"
  /\ UNCHANGED <<vars, via, terminal, connected, code>>

Connect ==
  /\ place = "connect" /\ link = "up" /\ session' = "open" /\ connected' = TRUE /\ place' = "pcilist"
  /\ UNCHANGED <<vars, via, terminal, code>>

\* readPciList refuses a listing that cannot have fitted.
GetPciList ==
  /\ place = "pcilist" /\ link = "up"
  /\ \E n \in DevCounts :
       \/ n <= MaxDevs /\ numOfPciDevice' = n /\ place' = "e820"
       \/ n > MaxDevs /\ place' = "exit" /\ UNCHANGED numOfPciDevice
  /\ UNCHANGED <<ui, running, link, screen, wrote, hasty, via, terminal, connected, session, code>>

GetE820List ==
  /\ place = "e820" /\ link = "up" /\ place' = "screen"
  /\ UNCHANGED <<vars, via, terminal, connected, session, code>>

\* The server refuses, answers with something else, or the link is gone.
RequestFails ==
  /\ place \in {"connect", "pcilist", "e820"} /\ place' = "exit"
  /\ UNCHANGED <<vars, via, terminal, connected, session, code>>

\* SIGPIPE.
RequestKills ==
  /\ place \in {"connect", "pcilist", "e820"} /\ via = "socket" /\ link = "broken"
  /\ running' = "killed" /\ place' = "gone"
  /\ UNCHANGED <<numOfPciDevice, ui, link, screen, wrote, hasty, via, terminal, connected, session, code>>

\* Mutant: the message about the size is printed with curses still on.
OpenScreenKeeps ==
  /\ place = "screen" /\ place' \in {"ui", "exit"} /\ terminal' = "curses"
  /\ UNCHANGED <<vars, via, connected, session, code>>

\* A terminal that is too small is given back at once.
OpenScreen ==
  /\ place = "screen"
  /\ \/ place' = "ui" /\ terminal' = "curses"
     \/ place' = "exit" /\ UNCHANGED terminal
  /\ UNCHANGED <<vars, via, connected, session, code>>

-----------------------------------------------------------------------------
(* The loop and the end.                                                    *)

UiTurn ==
  /\ place = "ui"
  /\ \E key \in Keys : Turn(key)
  /\ via = "tty" => running' # "killed"
  /\ place' = IF running' = "yes" THEN "ui" ELSE "gone"
  /\ UNCHANGED <<via, terminal, connected, session, code>>

LeaveUi ==
  /\ place = "ui" /\ Quit /\ place' = "exit" /\ terminal' = "normal" /\ code' = 0
  /\ UNCHANGED <<via, connected, session>>

\* The label Exit; what becomes of the DISCONNECT does not matter to main.
Exit ==
  /\ place = "exit" /\ place' = "gone"
  /\ session' = IF connected /\ link = "up" THEN "closed" ELSE session
  /\ running' \in {running} \cup
       (IF connected /\ via = "socket" /\ link = "broken" THEN {"killed"} ELSE {})
  /\ UNCHANGED <<numOfPciDevice, ui, link, screen, wrote, hasty, via, terminal, connected, code>>

LinkBreaks == place \notin {"start", "gone"} /\ Break /\ UNCHANGED mainVars

Gone == place = "gone" /\ UNCHANGED cfdkVars

CfdkNext ==
  \/ OpenTty \/ OpenSocket \/ Connect \/ GetPciList \/ GetE820List \/ RequestFails \/ RequestKills
  \/ OpenScreen \/ UiTurn \/ LeaveUi \/ Exit \/ LinkBreaks \/ Gone

CfdkSpec == CfdkInit /\ [][CfdkNext]_cfdkVars

-----------------------------------------------------------------------------
(* Properties.                                                              *)

\* However cfdk ends, the terminal is given back, but for two ways out of the
\* loop: SIGPIPE on a socket whose peer is gone, and the crash of F1 as the very
\* first key.
TerminalIsGivenBack ==
  place = "gone" /\ terminal = "curses" =>
    \/ running = "killed" /\ via = "socket" /\ link = "broken"
    \/ running = "crashed" /\ ui.func = "INIT" /\ screen = NoPlace

\* A server that got a CONNECT gets a DISCONNECT over a link that is still up,
\* whichever step of main failed, unless cfdk crashed; and main returns 0 only
\* when the user left the loop.
SessionIsClosed ==
  place = "gone" /\ running \in {"yes", "quit"} =>
    /\ link = "up" => session # "open"
    /\ code = 0 <=> running = "quit"

=============================================================================
