-------------------------------- MODULE Memvr --------------------------------
(***************************************************************************)
(* Whole runs of memvr (main, doRead, doModify and dumpMemData of          *)
(* src_memvr/memvr.c over src_memvr/client.c), several of them at once on  *)
(* one memory.  A run is its options, a connection, up to four memory      *)
(* calls and an exit status.  The calls keep the promises of FdkRpc and no *)
(* more, which FdkSession shows of the real ones: they move single bytes,  *)
(* are refused, or fail with some of their bytes moved and some still to   *)
(* come.  A device may change the memory by itself.                        *)
(*                                                                         *)
(* A byte is the set of its bits that are 1.                               *)
(***************************************************************************)
EXTENDS Naturals, Sequences, SequencesExt

CONSTANTS Runs,         \* runs of memvr, each on a connection of its own
          OptionLists,  \* of a run, the lists of options it may get
          Bits,         \* the bits of a byte
          Width,        \* bytes in a value: 4
          MemSize,      \* bytes in the memory, those the operations are about
          Words         \* contents the device gives the memory by itself

Byte == SUBSET Bits
Addresses == 0..MemSize - Width
Option == [opt : {"r", "d", "w", "o", "a"}, addr : Addresses, value : [1..Width -> Byte]]

ASSUME MemvrAssumption ==
  /\ Width \in Nat \ {0} /\ MemSize \in Nat /\ Width <= MemSize
  /\ Words \subseteq [1..MemSize -> Byte]
  /\ DOMAIN OptionLists = Runs
  /\ \A p \in Runs : \A l \in OptionLists[p] : l \in Seq(Option) /\ l # <<>>

VARIABLES mem, call, outcome, moved, data,  \* as in FdkRpc
          options,  \* the options a run was started with
          pc,       \* the call a run is at, "connect", "disconnect" or "exit"
          asked,    \* that call was made and its result is awaited
          word,     \* the values read: "orig", "tmp", "res", or "read" and "dump"
          status,   \* exit status: 0, 1, or 2 while there is none
          wrote,    \* auxiliary: bytes its write has put in memory
          clean     \* auxiliary: reads begun since the last change by others

rpcVars == <<mem, call, outcome, moved, data>>
runVars == <<options, pc, asked, word, status>>
auxVars == <<wrote, clean>>
vars == <<rpcVars, runVars, auxVars>>

ReadOps == {"read", "dump", "orig", "tmp", "res"}
MemCalls == ReadOps \cup {"write"}

-----------------------------------------------------------------------------
(* Options: each names an operation, all of them share one address and     *)
(* value, and the operation is chosen by a fixed precedence.                *)

Zeros == [i \in 1..Width |-> {}]

Flags(p) == {options[p][i].opt : i \in DOMAIN options[p]}
Address(p) == Last(options[p]).addr

\* -r and -d leave the value alone.
Value(p) ==
  LET i == SelectLastInSeq(options[p], LAMBDA o : o.opt \in {"w", "o", "a"})
  IN  IF i = 0 THEN Zeros ELSE options[p][i].value

Modifies(p) == "r" \notin Flags(p) /\ Flags(p) \cap {"w", "o", "a"} # {}

FirstCall(p) ==
  IF "r" \in Flags(p) THEN "read" ELSE IF Modifies(p) THEN "orig" ELSE "dump"

\* memoryWriteDWord, memoryORDWord or memoryANDDWord, on a byte.
Combine(p, byte, value) ==
  IF "w" \in Flags(p) THEN value
  ELSE IF "o" \in Flags(p) THEN byte \cup value ELSE byte \cap value

\* Mutant: the value doModify has already read.
NewWordOfOrigin(p) == [i \in 1..Width |-> Combine(p, word[p]["orig"][i], Value(p)[i])]

NewWord(p) == [i \in 1..Width |-> Combine(p, word[p]["tmp"][i], Value(p)[i])]

RpcCalls == [write : BOOLEAN, addr : Addresses, bytes : [1..Width -> Byte]]
Rpc == INSTANCE FdkRpc WITH Conns <- Runs, Calls <- RpcCalls

-----------------------------------------------------------------------------
Unread == Zeros  \* uninitialized locals; never used before they are set

Init ==
  /\ mem \in Words
  /\ outcome = [p \in Runs |-> "idle"]
  /\ moved = [p \in Runs |-> <<>>] /\ data = [p \in Runs |-> <<>>]
  /\ call = [p \in Runs |-> [write |-> FALSE, addr |-> 0, bytes |-> Unread]]
  /\ options \in [Runs -> UNION Range(OptionLists)]
  /\ \A p \in Runs : options[p] \in OptionLists[p]
  /\ pc = [p \in Runs |-> "connect"] /\ asked = [p \in Runs |-> FALSE]
  /\ word = [p \in Runs |-> [r \in ReadOps |-> Unread]]
  /\ status = [p \in Runs |-> 2]
  /\ wrote = [p \in Runs |-> 0] /\ clean = [p \in Runs |-> {}]

\* connectSocket and connectToFdkServer, or either fails.
Connect(p) ==
  /\ pc[p] = "connect"
  /\ \/ pc' = [pc EXCEPT ![p] = FirstCall(p)] /\ UNCHANGED status
     \/ pc' = [pc EXCEPT ![p] = "exit"] /\ status' = [status EXCEPT ![p] = 1]
  /\ UNCHANGED <<rpcVars, options, asked, word, auxVars>>

\* memoryReadBuffer and memoryWriteDWord, up to the wait for the response.
Ask(p) ==
  /\ pc[p] \in MemCalls /\ ~asked[p]
  /\ Rpc!Begin(p, [write |-> pc[p] = "write", addr |-> Address(p),
                   bytes |-> IF pc[p] = "write" THEN NewWord(p) ELSE Unread])
  /\ asked' = [asked EXCEPT ![p] = TRUE]
  /\ clean' = IF pc[p] = "write" THEN clean ELSE [clean EXCEPT ![p] = @ \cup {pc[p]}]
  /\ UNCHANGED <<options, pc, word, status, wrote>>

\* The order of the calls of doModify: -w reads no value to combine with.
NextPlace(p) ==
  IF pc[p] = "orig" /\ "w" \notin Flags(p) THEN "tmp"
  ELSE IF pc[p] \in {"orig", "tmp"} THEN "write"
  ELSE IF pc[p] = "write" THEN "res" ELSE "disconnect"

\* Mutant: the error of the write is lost, and the last read decides.
ResultWriteUnchecked(p) ==
  IF outcome[p] = "ok" \/ (pc[p] = "write" /\ outcome[p] = "refused")
  THEN NextPlace(p) ELSE "disconnect"

\* Mutant: a refused write is tried again.
ResultRetriesWrite(p) ==
  IF outcome[p] = "ok" THEN NextPlace(p)
  ELSE IF pc[p] = "write" /\ outcome[p] = "refused" THEN "write" ELSE "disconnect"

\* The next place after the call has returned.
Result(p) == IF outcome[p] = "ok" THEN NextPlace(p) ELSE "disconnect"

\* A call returns: go on, or report the failure and end.  ret is not 0 exactly
\* when a call did not succeed.
Returned(p) ==
  /\ pc[p] \in MemCalls /\ asked[p] /\ outcome[p] # "pending"
  /\ pc' = [pc EXCEPT ![p] = Result(p)] /\ asked' = [asked EXCEPT ![p] = FALSE]
  /\ word' = IF outcome[p] = "ok" /\ pc[p] # "write"
             THEN [word EXCEPT ![p][pc[p]] = data[p]] ELSE word
  /\ status' = IF pc'[p] # "disconnect" THEN status
               ELSE [status EXCEPT ![p] = IF outcome[p] = "ok" THEN 0 ELSE 1]
  /\ UNCHANGED <<rpcVars, options, auxVars>>

\* disconnectFromFdkServer and the end.  In a connection that is gone by now the
\* request raises SIGPIPE, which memvr does not ignore: it ends with a status
\* that is not 0, whatever it has done.
Disconnect(p) ==
  /\ pc[p] = "disconnect"
  /\ pc' = [pc EXCEPT ![p] = "exit"]
  /\ UNCHANGED status \/ status' = [status EXCEPT ![p] = 1]
  /\ word' = [word EXCEPT ![p] = [r \in ReadOps |-> Unread]]
  /\ clean' = [clean EXCEPT ![p] = {}]
  /\ UNCHANGED <<rpcVars, options, asked, wrote>>

\* The server moves a byte of a call.
Serve(p) ==
  /\ Rpc!Move(p)
  /\ wrote' = IF call[p].write THEN [wrote EXCEPT ![p] = @ + 1] ELSE wrote
  /\ clean' = [q \in Runs |-> IF q # p /\ mem' # mem THEN {} ELSE clean[q]]
  /\ UNCHANGED runVars

Answer(p) ==
  /\ Rpc!Return(p) \/ Rpc!Refuse(p) \/ Rpc!Fail(p)
  /\ UNCHANGED <<runVars, auxVars>>

Hardware ==
  /\ Rpc!Hardware /\ mem' # mem
  /\ clean' = [q \in Runs |-> {}]
  /\ UNCHANGED <<runVars, wrote>>

\* All runs are over: the only state in which nothing has to happen.
Ended == (\A p \in Runs : pc[p] = "exit") /\ UNCHANGED vars

Next ==
  \/ Ended
  \/ \E p \in Runs : Connect(p) \/ Ask(p) \/ Returned(p) \/ Disconnect(p)
  \/ \E p \in Runs : Serve(p) \/ Answer(p)
  \/ Hardware

Spec == Init /\ [][Next]_vars

-----------------------------------------------------------------------------
(* Properties.                                                              *)

\* Type invariant; a run whose call is pending waits for it, and it never writes
\* more than one value.
TypeOK ==
  /\ mem \in [1..MemSize -> Byte] /\ call \in [Runs -> RpcCalls]
  /\ moved \in [Runs -> Seq(Byte)] /\ data \in [Runs -> Seq(Byte)]
  /\ \A p \in Runs : options[p] \in OptionLists[p]
  /\ word \in [Runs -> [ReadOps -> [1..Width -> Byte]]]
  /\ outcome \in [Runs -> {"idle", "pending", "ok", "refused", "failed"}]
  /\ pc \in [Runs -> MemCalls \cup {"connect", "disconnect", "exit"}]
  /\ asked \in [Runs -> BOOLEAN] /\ status \in [Runs -> 0..2]
  /\ wrote \in [Runs -> 0..Width] /\ clean \in [Runs -> SUBSET ReadOps]
  /\ \A p \in Runs : (outcome[p] = "pending") => asked[p] /\ pc[p] \in MemCalls

\* -o sets bits and -a clears bits of what is in memory and touches no other
\* bit, unless somebody else changed the memory after doModify's second read
\* (memoryORDWord, memoryANDDWord): only then is an update lost.  What was
\* changed between its first and its second read is kept.
OnlyOverlappedUpdatesAreLost ==
  [][\A p \in Runs :
       pc[p] = "write" /\ moved'[p] # moved[p] /\ asked[p] /\ asked'[p] /\ "tmp" \in clean[p]
       => LET a == call[p].addr + Len(moved'[p])
          IN  mem'[a] = Combine(p, mem[a], Value(p)[Len(moved'[p])])]_vars

\* Exit status 0 means that what was asked for was done, a write once and in
\* full, and no run writes unless it ends as a modification.  (Another status
\* does not mean that nothing was written: the last read or the disconnect may
\* have failed.)
StatusIsTrue(p) ==
  /\ status[p] = 0 => wrote[p] = IF Modifies(p) THEN Width ELSE 0
  /\ wrote[p] > 0 => Modifies(p) /\ call[p].addr = Address(p)

\* Unless somebody else changed the memory meanwhile, the value a read prints is
\* in memory, and the "Origin" and "Result" of a modification, which come from
\* the first and the last of its three reads, differ by the operation.
OutputIsTrue(p) ==
  IF Modifies(p)
  THEN "orig" \in clean[p] =>
         word[p]["res"] = [i \in 1..Width |-> Combine(p, word[p]["orig"][i], Value(p)[i])]
  ELSE FirstCall(p) \in clean[p] =>
         word[p][FirstCall(p)] = SubSeq(mem, Address(p) + 1, Address(p) + Width)

\* What a run says it did is what happened.
ReportsAreTrue ==
  \A p \in Runs :
    StatusIsTrue(p) /\ (pc[p] = "disconnect" /\ status[p] = 0 => OutputIsTrue(p))

=============================================================================
