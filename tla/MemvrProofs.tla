----------------------------- MODULE MemvrProofs -----------------------------
(* Runs of memvr on one memory, for every number of runs, all lists of       *)
(* options, every size of a value and of the memory, and every way the       *)
(* device changes it: what a run reports is what happened, and an update of  *)
(* others is lost only when it falls between a read and the write.           *)
EXTENDS Memvr, SequenceTheorems, WellFoundedInduction, TLAPS

\* Byte i of the memory after the operation of a run on byte b.
After(p, i, b) == Combine(p, b, Value(p)[i])

\* The bytes of s are in memory, from the address of a run on.
Seen(p, s) == \A i \in 1..Len(s) : s[i] = mem[Address(p) + i]

\* The call a run is at is the one it asked for, with its own address and, of a
\* write, the value made of the last read; it has an outcome of its own.
CallInv(p) ==
  /\ pc[p] \in {"orig", "tmp", "write", "res"} => Modifies(p)
  /\ pc[p] \in {"read", "dump"} => ~Modifies(p) /\ pc[p] = FirstCall(p)
  /\ pc[p] = "tmp" => "w" \notin Flags(p)
  /\ asked[p] =>
       /\ pc[p] \in MemCalls /\ outcome[p] # "idle"
       /\ call[p].write <=> pc[p] = "write"
       /\ call[p].addr = Address(p)
       /\ pc[p] = "write" => call[p].bytes = NewWord(p)
  /\ ~asked[p] => outcome[p] # "pending"
  /\ ~asked[p] /\ pc[p] \in MemCalls => outcome[p] \in {"idle", "ok"}
  /\ pc[p] = "connect" => outcome[p] = "idle" /\ ~asked[p]
  /\ Len(moved[p]) <= Width
  /\ outcome[p] = "ok" => Len(moved[p]) = Width
  /\ outcome[p] = "ok" /\ ~call[p].write => data[p] = moved[p]

\* wrote counts the bytes of the one write of a run, and there is a status only
\* at the end.
StatusInv(p) ==
  /\ pc[p] \notin {"disconnect", "exit"} => status[p] = 2
  /\ status[p] = 0 => outcome[p] = "ok" /\ wrote[p] = IF Modifies(p) THEN Width ELSE 0
  /\ call[p].write => wrote[p] = Len(moved[p])
  /\ call[p].write \/ wrote[p] > 0 => Modifies(p) /\ call[p].addr = Address(p)
  /\ pc[p] \in {"connect", "orig", "tmp", "read", "dump"} => ~call[p].write /\ wrote[p] = 0
  /\ pc[p] = "write" /\ ~asked[p] => ~call[p].write /\ wrote[p] = 0
  /\ pc[p] = "res" => wrote[p] = Width

\* What a run has read, and has written so far, is in memory as long as nobody
\* else has changed it since the read began.
ContentInv(p) ==
  /\ asked[p] /\ pc[p] \in clean[p] => Seen(p, moved[p])
  /\ pc[p] = "tmp" /\ "orig" \in clean[p] =>
       Seen(p, word[p]["orig"]) /\ (asked[p] => "tmp" \in clean[p])
  /\ pc[p] = "write" /\ "w" \notin Flags(p) /\ "tmp" \in clean[p] =>
       \A i \in 1..Width : (asked[p] => i > Len(moved[p])) => mem[Address(p) + i] = word[p]["tmp"][i]
  /\ pc[p] = "write" /\ "orig" \in clean[p] =>
       /\ \A i \in 1..Width : After(p, i, word[p]["tmp"][i]) = After(p, i, word[p]["orig"][i])
       /\ asked[p] => \A i \in 1..Len(moved[p]) : mem[Address(p) + i] = After(p, i, word[p]["orig"][i])
  /\ pc[p] = "res" /\ "orig" \in clean[p] =>
       /\ \A i \in 1..Width : mem[Address(p) + i] = After(p, i, word[p]["orig"][i])
       /\ asked[p] => "res" \in clean[p]
  /\ pc[p] = "disconnect" /\ status[p] = 0 => OutputIsTrue(p)

\* What the steps of a run keep, whatever the others do.
RunInv(p) == CallInv(p) /\ StatusInv(p) /\ ContentInv(p)

\* The inductive invariant.
IInv == TypeOK /\ \A p \in Runs : RunInv(p)

-----------------------------------------------------------------------------
(* The options.                                                             *)

\* A set of some of the first n numbers has a greatest one.
LEMMA Greatest ==
  ASSUME NEW n \in Nat, NEW I \in SUBSET (1..n), I # {}
  PROVE  Max(I) \in I
<1> DEFINE T == {n - i : i \in I}
           R == {uv \in Nat \X Nat : uv[1] < uv[2]}
<1>1. \A i \in I : i \in 1..n
  OBVIOUS
<1>2. T \subseteq Nat
  BY <1>1
<1>3. T # {}
  <2>1. PICK j \in I : TRUE
    OBVIOUS
  <2> QED BY <2>1
<1>4. IsWellFoundedOn(R, Nat)
  BY NatLessThanWellFounded DEF OpToRel
<1>5. PICK t \in T : \A u \in T : ~(<<u, t>> \in R)
  <2> HIDE DEF T, R
  <2> QED BY <1>2, <1>3, <1>4, WFMin
<1>6. \A u \in T : ~(u < t)
  BY <1>2, <1>5
<1>7. PICK m \in I : t = n - m
  OBVIOUS
<1>8. \A i \in I : m >= i
  <2> TAKE i \in I
  <2>1. ~(n - i < n - m)
    BY <1>6, <1>7
  <2>2. m \in 1..n /\ i \in 1..n
    BY <1>1, <1>7
  <2> HIDE DEF T, R
  <2> QED BY <2>1, <2>2
<1> QED BY <1>7, <1>8, Zenon DEF Max

\* A value is a sequence of Width bytes.
LEMMA WordIsSeq ==
  /\ \A f \in [1..Width -> Byte] : f \in Seq(Byte) /\ Len(f) = Width
  /\ \A s \in Seq(Byte) : Len(s) = Width => s \in [1..Width -> Byte]
BY MemvrAssumption

\* Zeros is a value.
LEMMA ZerosType == Zeros \in [1..Width -> Byte]
BY DEF Zeros, Byte

\* The address and the value are those of an option.
LEMMA OptionsOfRun ==
  ASSUME NEW p \in Runs, options[p] \in OptionLists[p]
  PROVE  /\ Address(p) \in Nat /\ Address(p) \in Addresses
         /\ Value(p) \in [1..Width -> Byte]
<1> DEFINE l == options[p]
<1>1. l \in Seq(Option) /\ l # <<>>
  BY MemvrAssumption
<1>2. Len(l) \in Nat \ {0} /\ \A i \in 1..Len(l) : l[i] \in Option
  BY <1>1
<1>3. Address(p) \in Addresses
  BY <1>2 DEF Address, Last, Option
<1>4. Value(p) \in [1..Width -> Byte]
  <2> DEFINE I == {i \in 1..Len(l) : l[i].opt \in {"w", "o", "a"}}
  <2>1. Value(p) = LET i == IF I # {} THEN Max(I) ELSE 0
                   IN  IF i = 0 THEN Zeros ELSE l[i].value
    BY DEF Value, SelectLastInSeq
  <2>2. CASE I = {}
    BY <2>1, <2>2, ZerosType
  <2>3. CASE I # {}
    <3>1. Max(I) \in I
      BY <1>2, <2>3, Greatest
    <3> DEFINE m == Max(I)
    <3>2. m \in 1..Len(l) /\ m # 0
      BY <3>1
    <3>3. Value(p) = l[m].value
      BY <2>1, <2>3, <3>2
    <3> HIDE DEF m
    <3> QED BY <1>2, <3>2, <3>3 DEF Option
  <2> QED BY <2>2, <2>3
<1>5. Address(p) \in Nat
  BY <1>3, MemvrAssumption DEF Addresses
<1> QED BY <1>3, <1>4, <1>5

\* Bits set and cleared make a byte again.
LEMMA CombineType ==
  ASSUME NEW p, NEW b \in Byte, NEW v \in Byte
  PROVE  Combine(p, b, v) \in Byte
BY DEF Combine, Byte

\* What doModify writes is a value.
LEMMA NewWordType ==
  ASSUME NEW p \in Runs, options[p] \in OptionLists[p], word[p] \in [ReadOps -> [1..Width -> Byte]]
  PROVE  NewWord(p) \in [1..Width -> Byte]
<1>1. \A i \in 1..Width : word[p]["tmp"][i] \in Byte /\ Value(p)[i] \in Byte
  BY OptionsOfRun DEF ReadOps
<1> QED BY <1>1, CombineType DEF NewWord

\* The options of a run never change, nor does what is asked of it.
LEMMA OptionsKept ==
  ASSUME NEW p, options' = options
  PROVE  /\ Address(p)' = Address(p) /\ Value(p)' = Value(p) /\ Flags(p)' = Flags(p)
         /\ Modifies(p)' <=> Modifies(p)
         /\ FirstCall(p)' = FirstCall(p)
<1>1. Flags(p)' = Flags(p)
  BY DEF Flags
<1>2. Address(p)' = Address(p)
  BY DEF Address
<1>3. Value(p)' = Value(p)
  BY DEF Value, SelectLastInSeq
<1>4. Modifies(p)' <=> Modifies(p)
  BY <1>1 DEF Modifies
<1> QED BY <1>1, <1>2, <1>3, <1>4 DEF FirstCall

-----------------------------------------------------------------------------
(* What the steps of the others leave of a run.                             *)

\* Nothing of a run changes, and the memory only if it is told in clean.
SameRun(p) ==
  /\ pc'[p] = pc[p] /\ asked'[p] = asked[p] /\ word'[p] = word[p] /\ status'[p] = status[p]
  /\ call'[p] = call[p] /\ outcome'[p] = outcome[p] /\ moved'[p] = moved[p] /\ data'[p] = data[p]
  /\ wrote'[p] = wrote[p]
  /\ (clean'[p] = clean[p] /\ mem' = mem) \/ clean'[p] = {}

\* A step that changes nothing of a run keeps its invariant.
LEMMA OtherRun ==
  ASSUME NEW p \in Runs, RunInv(p), options' = options, SameRun(p)
  PROVE  RunInv(p)'
<1>k. /\ Address(p)' = Address(p) /\ Value(p)' = Value(p) /\ Flags(p)' = Flags(p)
      /\ Modifies(p)' <=> Modifies(p)
      /\ FirstCall(p)' = FirstCall(p)
  BY OptionsKept
<1>c. \A b, v : Combine(p, b, v)' = Combine(p, b, v)
  BY <1>k DEF Combine
<1> USE <1>k DEF SameRun
<1>1. CallInv(p)'
  <2>1. NewWord(p)' = NewWord(p)
    <3>1. \A i \in 1..Width : Combine(p, word[p]["tmp"][i], Value(p)[i])' = Combine(p, word[p]["tmp"][i], Value(p)[i])
      BY DEF Combine
    <3> QED BY <3>1 DEF NewWord
  <2> QED BY <2>1 DEF RunInv, CallInv
<1>2. StatusInv(p)'
  BY DEF RunInv, StatusInv
<1>3. ContentInv(p)'
  <2>1. CASE clean'[p] = {}
    BY <2>1 DEF RunInv, ContentInv, OutputIsTrue
  <2>2. CASE clean'[p] = clean[p] /\ mem' = mem
    <3>1. OutputIsTrue(p)' <=> OutputIsTrue(p)
      BY <2>2 DEF OutputIsTrue, Combine
    <3>2. \A s : Seen(p, s)' <=> Seen(p, s)
      BY <2>2 DEF Seen
    <3>3. \A i : /\ After(p, i, word[p]["tmp"][i])' = After(p, i, word[p]["tmp"][i])
                 /\ After(p, i, word[p]["orig"][i])' = After(p, i, word[p]["orig"][i])
      BY DEF After, Combine
    <3>4. ContentInv(p)
      BY DEF RunInv
    <3>5. Seen(p, moved[p])' <=> Seen(p, moved[p])
      BY <2>2 DEF Seen
    <3>6. Seen(p, word[p]["orig"])' <=> Seen(p, word[p]["orig"])
      BY <2>2 DEF Seen
    <3> QED BY <2>2, <3>1, <3>3, <3>4, <3>5, <3>6 DEF ContentInv
  <2> QED BY <2>1, <2>2
<1> QED BY <1>1, <1>2, <1>3 DEF RunInv

-----------------------------------------------------------------------------
(* The steps of a run.                                                      *)

\* Connecting: the first call is that of the options.
LEMMA ConnectStep ==
  ASSUME IInv, NEW p \in Runs, Connect(p)
  PROVE  TypeOK' /\ RunInv(p)' /\ options' = options /\ \A q \in Runs \ {p} : SameRun(q)
<1> USE DEF rpcVars, auxVars
<1>1. TypeOK /\ RunInv(p)
  BY DEF IInv
<1>k. /\ Address(p)' = Address(p) /\ Value(p)' = Value(p) /\ Flags(p)' = Flags(p)
      /\ Modifies(p)' <=> Modifies(p)
      /\ FirstCall(p)' = FirstCall(p)
  BY OptionsKept DEF Connect
<1>2. FirstCall(p) \in {"read", "orig", "dump"}
      /\ (FirstCall(p) = "orig" <=> Modifies(p))
  BY DEF FirstCall, Modifies
<1>3. /\ pc[p] = "connect" /\ options' = options /\ asked' = asked /\ word' = word
      /\ mem' = mem /\ call' = call /\ outcome' = outcome /\ moved' = moved /\ data' = data
      /\ wrote' = wrote /\ clean' = clean
      /\ \/ pc' = [pc EXCEPT ![p] = FirstCall(p)] /\ status' = status
         \/ pc' = [pc EXCEPT ![p] = "exit"] /\ status' = [status EXCEPT ![p] = 1]
  BY DEF Connect
<1>5. /\ \/ pc'[p] = FirstCall(p) /\ status'[p] = status[p]
         \/ pc'[p] = "exit" /\ status'[p] = 1
      /\ \A q \in Runs \ {p} : pc'[q] = pc[q] /\ status'[q] = status[q]
  BY <1>1, <1>3 DEF TypeOK
<1>4. TypeOK'
  <2> DEFINE P == MemCalls \cup {"connect", "disconnect", "exit"}
  <2>0. pc \in [Runs -> P] /\ status \in [Runs -> 0..2]
    BY <1>1 DEF TypeOK
  <2>4. FirstCall(p) \in P /\ "exit" \in P /\ 1 \in 0..2
    BY <1>2 DEF MemCalls, ReadOps
  <2>1. pc' \in [Runs -> P]
    <3> HIDE DEF P
    <3> QED BY <1>3, <2>0, <2>4
  <2>2. status' \in [Runs -> 0..2]
    BY <1>3, <2>0, <2>4
  <2>3. \A q \in Runs : outcome'[q] = "pending" => asked'[q] /\ pc'[q] \in MemCalls
    BY <1>1, <1>3, <1>5 DEF TypeOK, RunInv, CallInv, MemCalls, ReadOps
  <2> QED BY <1>1, <1>3, <2>1, <2>2, <2>3 DEF TypeOK
<1>7. CallInv(p)' /\ StatusInv(p)'
  BY <1>1, <1>2, <1>3, <1>5, <1>k DEF TypeOK, RunInv, CallInv, StatusInv, MemCalls, ReadOps
<1>6. ContentInv(p)'
  BY <1>1, <1>2, <1>3, <1>5, <1>k DEF TypeOK, RunInv, CallInv, StatusInv, ContentInv, MemCalls, ReadOps
<1> QED BY <1>3, <1>4, <1>5, <1>6, <1>7 DEF RunInv, SameRun

\* A call begins with nothing moved; a read counts as clean from here on.
LEMMA AskStep ==
  ASSUME IInv, NEW p \in Runs, Ask(p)
  PROVE  TypeOK' /\ RunInv(p)' /\ options' = options /\ \A q \in Runs \ {p} : SameRun(q)
<1> USE DEF rpcVars, auxVars
<1>1. TypeOK /\ RunInv(p) /\ options' = options
  BY DEF IInv, Ask
<1>k. /\ Address(p)' = Address(p) /\ Value(p)' = Value(p) /\ Flags(p)' = Flags(p)
      /\ Modifies(p)' <=> Modifies(p)
      /\ FirstCall(p)' = FirstCall(p)
  BY <1>1, OptionsKept
<1> DEFINE c == [write |-> pc[p] = "write", addr |-> Address(p),
                 bytes |-> IF pc[p] = "write" THEN NewWord(p) ELSE Unread]
<1>2. c \in RpcCalls /\ (c.write <=> pc[p] = "write") /\ c.addr = Address(p)
      /\ (pc[p] = "write" => c.bytes = NewWord(p))
  <2>1. NewWord(p) \in [1..Width -> Byte] /\ Unread \in [1..Width -> Byte] /\ Address(p) \in Addresses
    BY <1>1, NewWordType, ZerosType, OptionsOfRun DEF TypeOK, Unread
  <2> QED BY <2>1 DEF RpcCalls
<1> HIDE DEF c
<1>3. /\ pc[p] \in MemCalls /\ ~asked[p] /\ pc' = pc /\ word' = word /\ status' = status
      /\ mem' = mem /\ data' = data /\ wrote' = wrote
      /\ call' = [call EXCEPT ![p] = c] /\ outcome' = [outcome EXCEPT ![p] = "pending"]
      /\ moved' = [moved EXCEPT ![p] = <<>>] /\ asked' = [asked EXCEPT ![p] = TRUE]
      /\ clean' = IF pc[p] = "write" THEN clean ELSE [clean EXCEPT ![p] = @ \cup {pc[p]}]
  BY DEF Ask, Rpc!Begin, c
<1>n. NewWord(p)' = NewWord(p)
  <2>1. \A i \in 1..Width : Combine(p, word[p]["tmp"][i], Value(p)[i])' = Combine(p, word[p]["tmp"][i], Value(p)[i])
    BY <1>k, <1>3 DEF Combine
  <2> QED BY <1>3, <2>1 DEF NewWord
<1>4. /\ asked'[p] /\ outcome'[p] = "pending" /\ moved'[p] = <<>> /\ call'[p] = c
      /\ clean'[p] = IF pc[p] = "write" THEN clean[p] ELSE clean[p] \cup {pc[p]}
      /\ Len(moved'[p]) = 0
  <2>1. Len(<<>>) = 0
    OBVIOUS
  <2> QED BY <1>1, <1>3, <2>1 DEF TypeOK
<1>5. TypeOK'
  <2>1. <<>> \in Seq(Byte)
    OBVIOUS
  <2>2. moved' \in [Runs -> Seq(Byte)]
    BY <1>1, <1>3, <2>1 DEF TypeOK
  <2>3. call' \in [Runs -> RpcCalls]
    BY <1>1, <1>2, <1>3 DEF TypeOK
  <2>4. clean' \in [Runs -> SUBSET ReadOps]
    BY <1>1, <1>3 DEF TypeOK, MemCalls
  <2>5. asked' \in [Runs -> BOOLEAN] /\ outcome' \in [Runs -> {"idle", "pending", "ok", "refused", "failed"}]
    BY <1>1, <1>3 DEF TypeOK
  <2>6. \A q \in Runs : outcome'[q] = "pending" => asked'[q] /\ pc'[q] \in MemCalls
    BY <1>1, <1>3 DEF TypeOK
  <2> QED BY <1>1, <1>3, <2>2, <2>3, <2>4, <2>5, <2>6 DEF TypeOK
<1>6. CallInv(p)'
  BY <1>1, <1>2, <1>3, <1>4, <1>k, <1>n, MemvrAssumption DEF RunInv, CallInv, MemCalls, ReadOps
<1>7. StatusInv(p)'
  BY <1>1, <1>2, <1>3, <1>4, <1>k, MemvrAssumption DEF TypeOK, RunInv, CallInv, StatusInv, MemCalls, ReadOps
<1>8. ContentInv(p)'
  <2>1. Seen(p, moved[p])'
    BY <1>4 DEF Seen
  <2>2. Seen(p, word[p]["orig"])' <=> Seen(p, word[p]["orig"])
    BY <1>3, <1>k DEF Seen
  <2>3. \A i : /\ After(p, i, word[p]["tmp"][i])' = After(p, i, word[p]["tmp"][i])
               /\ After(p, i, word[p]["orig"][i])' = After(p, i, word[p]["orig"][i])
    BY <1>3, <1>k DEF After, Combine
  <2>4. ContentInv(p)
    BY <1>1 DEF RunInv
  <2> QED BY <1>3, <1>4, <1>k, <2>1, <2>2, <2>3, <2>4 DEF ContentInv, MemCalls, ReadOps
<1>9. \A q \in Runs \ {p} : SameRun(q)
  BY <1>1, <1>3 DEF TypeOK, SameRun
<1> QED BY <1>1, <1>5, <1>6, <1>7, <1>8, <1>9 DEF RunInv

\* The end of a run.
LEMMA DisconnectStep ==
  ASSUME IInv, NEW p \in Runs, Disconnect(p)
  PROVE  TypeOK' /\ RunInv(p)' /\ options' = options /\ \A q \in Runs \ {p} : SameRun(q)
<1> USE DEF rpcVars, auxVars
<1>1. TypeOK /\ RunInv(p) /\ options' = options
  BY DEF IInv, Disconnect
<1>k. /\ Address(p)' = Address(p) /\ Value(p)' = Value(p) /\ Flags(p)' = Flags(p)
      /\ Modifies(p)' <=> Modifies(p)
      /\ FirstCall(p)' = FirstCall(p)
  BY <1>1, OptionsKept
<1> DEFINE w == [r \in ReadOps |-> Unread]
<1>2. w \in [ReadOps -> [1..Width -> Byte]]
  BY ZerosType DEF Unread
<1> HIDE DEF w
<1>3. /\ pc[p] = "disconnect" /\ asked' = asked /\ wrote' = wrote
      /\ mem' = mem /\ call' = call /\ outcome' = outcome /\ moved' = moved /\ data' = data
      /\ pc' = [pc EXCEPT ![p] = "exit"]
      /\ status' = status \/ status' = [status EXCEPT ![p] = 1]
      /\ word' = [word EXCEPT ![p] = w] /\ clean' = [clean EXCEPT ![p] = {}]
  BY DEF Disconnect, w
<1>4. /\ pc'[p] = "exit" /\ clean'[p] = {} /\ (status'[p] = status[p] \/ status'[p] = 1)
  BY <1>1, <1>3 DEF TypeOK
<1>5. TypeOK'
  <2>1. pc' \in [Runs -> MemCalls \cup {"connect", "disconnect", "exit"}]
    BY <1>1, <1>3 DEF TypeOK
  <2>2. status' \in [Runs -> 0..2]
    <3>1. status \in [Runs -> 0..2] /\ 1 \in 0..2
      BY <1>1 DEF TypeOK
    <3> QED BY <1>3, <3>1
  <2>3. word' \in [Runs -> [ReadOps -> [1..Width -> Byte]]]
    BY <1>1, <1>2, <1>3 DEF TypeOK
  <2>4. clean' \in [Runs -> SUBSET ReadOps]
    BY <1>1, <1>3 DEF TypeOK
  <2>5. \A q \in Runs : outcome'[q] = "pending" => asked'[q] /\ pc'[q] \in MemCalls
    BY <1>1, <1>3 DEF TypeOK, MemCalls, ReadOps
  <2> QED BY <1>1, <1>3, <2>1, <2>2, <2>3, <2>4, <2>5 DEF TypeOK
<1>6. CallInv(p)' /\ StatusInv(p)'
  BY <1>1, <1>3, <1>4, <1>k DEF TypeOK, RunInv, CallInv, StatusInv, MemCalls, ReadOps
<1>7. ContentInv(p)'
  BY <1>1, <1>3, <1>4, <1>k DEF ContentInv
<1>8. \A q \in Runs \ {p} : SameRun(q)
  BY <1>1, <1>3 DEF TypeOK, SameRun
<1> QED BY <1>1, <1>5, <1>6, <1>7, <1>8 DEF RunInv

\* Refuse, Fail and Return: only the outcome changes, and data after a read.
LEMMA AnswerStep ==
  ASSUME IInv, NEW p \in Runs, Answer(p)
  PROVE  TypeOK' /\ RunInv(p)' /\ options' = options /\ \A q \in Runs \ {p} : SameRun(q)
<1> USE DEF runVars, auxVars
<1>1. TypeOK /\ RunInv(p) /\ options' = options
  BY DEF IInv, Answer
<1>k. /\ Address(p)' = Address(p) /\ Value(p)' = Value(p) /\ Flags(p)' = Flags(p)
      /\ Modifies(p)' <=> Modifies(p)
      /\ FirstCall(p)' = FirstCall(p)
  BY <1>1, OptionsKept
<1>2. Len(call[p].bytes) = Width
  BY <1>1, WordIsSeq DEF TypeOK, RpcCalls
<1>3. /\ mem' = mem /\ call' = call /\ moved' = moved /\ pc' = pc /\ asked' = asked
      /\ word' = word /\ status' = status /\ wrote' = wrote /\ clean' = clean
      /\ outcome[p] = "pending"
      /\ \/ /\ Len(moved[p]) = Len(call[p].bytes) /\ outcome' = [outcome EXCEPT ![p] = "ok"]
            /\ data' = IF call[p].write THEN data ELSE [data EXCEPT ![p] = moved[p]]
         \/ data' = data /\ outcome' = [outcome EXCEPT ![p] = "refused"]
         \/ data' = data /\ outcome' = [outcome EXCEPT ![p] = "failed"]
  BY DEF Answer, Rpc!Return, Rpc!Refuse, Rpc!Fail
<1>4. \/ outcome'[p] = "ok" /\ Len(moved[p]) = Width /\ (~call[p].write => data'[p] = moved[p])
      \/ outcome'[p] \in {"refused", "failed"}
  BY <1>1, <1>2, <1>3 DEF TypeOK
<1>5. TypeOK'
  <2>1. outcome' \in [Runs -> {"idle", "pending", "ok", "refused", "failed"}]
    BY <1>1, <1>3, SMTT(40) DEF TypeOK
  <2>2. data' \in [Runs -> Seq(Byte)]
    BY <1>1, <1>3 DEF TypeOK
  <2>3. \A q \in Runs : outcome'[q] = "pending" => asked'[q] /\ pc'[q] \in MemCalls
    BY <1>1, <1>3 DEF TypeOK
  <2> QED BY <1>1, <1>3, <2>1, <2>2, <2>3 DEF TypeOK
<1>6. asked[p] /\ pc[p] \in MemCalls
  BY <1>1, <1>3 DEF TypeOK
<1>7. CallInv(p)'
  <2>1. NewWord(p)' = NewWord(p)
    <3>1. \A i \in 1..Width : Combine(p, word[p]["tmp"][i], Value(p)[i])' = Combine(p, word[p]["tmp"][i], Value(p)[i])
      BY <1>k, <1>3 DEF Combine
    <3> QED BY <1>3, <3>1 DEF NewWord
  <2> QED BY <1>1, <1>3, <1>4, <1>6, <1>k, <2>1 DEF RunInv, CallInv, MemCalls, ReadOps
<1>8. StatusInv(p)'
  BY <1>1, <1>3, <1>4, <1>6, <1>k DEF RunInv, CallInv, StatusInv, MemCalls, ReadOps
<1>9. ContentInv(p)'
  <2>1. Seen(p, moved[p])' <=> Seen(p, moved[p])
    BY <1>3, <1>k DEF Seen
  <2>2. Seen(p, word[p]["orig"])' <=> Seen(p, word[p]["orig"])
    BY <1>3, <1>k DEF Seen
  <2>3. \A i : /\ After(p, i, word[p]["tmp"][i])' = After(p, i, word[p]["tmp"][i])
               /\ After(p, i, word[p]["orig"][i])' = After(p, i, word[p]["orig"][i])
    BY <1>3, <1>k DEF After, Combine
  <2>4. ContentInv(p)
    BY <1>1 DEF RunInv
  <2>5. pc[p] # "disconnect"
    BY <1>6 DEF MemCalls, ReadOps
  <2> QED BY <1>3, <1>k, <2>1, <2>2, <2>3, <2>4, <2>5 DEF ContentInv
<1>10. \A q \in Runs \ {p} : SameRun(q)
  BY <1>1, <1>3 DEF TypeOK, SameRun
<1> QED BY <1>1, <1>5, <1>7, <1>8, <1>9, <1>10 DEF RunInv

\* A change by the device spoils every read.
LEMMA HardwareStep ==
  ASSUME IInv, Hardware
  PROVE  TypeOK' /\ options' = options /\ \A q \in Runs : SameRun(q)
<1> USE DEF runVars
<1>1. /\ mem' \in Words /\ call' = call /\ outcome' = outcome /\ moved' = moved /\ data' = data
      /\ options' = options /\ pc' = pc /\ asked' = asked /\ word' = word /\ status' = status
      /\ wrote' = wrote /\ clean' = [q \in Runs |-> {}]
  BY DEF Hardware, Rpc!Hardware
<1>2. TypeOK'
  BY <1>1, MemvrAssumption DEF IInv, TypeOK
<1>3. \A q \in Runs : SameRun(q)
  BY <1>1 DEF SameRun
<1> QED BY <1>1, <1>2, <1>3

\* What a run knows when its call has returned, and where it goes on.
LEMMA ReturnedFacts ==
  ASSUME IInv, NEW p \in Runs, Returned(p)
  PROVE  /\ pc[p] \in MemCalls /\ asked[p] /\ options' = options
         /\ mem' = mem /\ call' = call /\ outcome' = outcome /\ moved' = moved /\ data' = data
         /\ wrote' = wrote /\ clean' = clean
         /\ pc' = [pc EXCEPT ![p] = Result(p)] /\ asked' = [asked EXCEPT ![p] = FALSE]
         /\ Result(p) \in {"tmp", "write", "res", "disconnect"}
         /\ outcome[p] = "ok" /\ pc[p] # "write" =>
              /\ data[p] = moved[p] /\ data[p] \in [1..Width -> Byte] /\ Len(data[p]) = Width
              /\ word' = [word EXCEPT ![p][pc[p]] = data[p]] /\ pc[p] \in ReadOps
              /\ wrote[p] = 0 \/ pc[p] = "res"
         /\ ~(outcome[p] = "ok" /\ pc[p] # "write") => word' = word
         /\ outcome[p] = "ok" => Result(p) = NextPlace(p)
         /\ outcome[p] # "ok" => Result(p) = "disconnect"
         /\ status' = IF Result(p) # "disconnect" THEN status
                      ELSE [status EXCEPT ![p] = IF outcome[p] = "ok" THEN 0 ELSE 1]
<1> USE DEF rpcVars, auxVars
<1>1. TypeOK /\ RunInv(p)
  BY DEF IInv
<1>2. /\ pc[p] \in MemCalls /\ asked[p] /\ options' = options
      /\ mem' = mem /\ call' = call /\ outcome' = outcome /\ moved' = moved /\ data' = data
      /\ wrote' = wrote /\ clean' = clean
      /\ pc' = [pc EXCEPT ![p] = Result(p)] /\ asked' = [asked EXCEPT ![p] = FALSE]
      /\ outcome[p] = "ok" /\ pc[p] # "write" => word' = [word EXCEPT ![p][pc[p]] = data[p]]
      /\ ~(outcome[p] = "ok" /\ pc[p] # "write") => word' = word
  BY DEF Returned
<1>3. Result(p) \in {"tmp", "write", "res", "disconnect"}
  BY DEF Result, NextPlace
<1>4. pc'[p] = Result(p)
  BY <1>1, <1>2 DEF TypeOK
<1>5. status' = IF Result(p) # "disconnect" THEN status
                ELSE [status EXCEPT ![p] = IF outcome[p] = "ok" THEN 0 ELSE 1]
  BY <1>4 DEF Returned
<1>6. /\ outcome[p] = "ok" => Result(p) = NextPlace(p)
      /\ outcome[p] # "ok" => Result(p) = "disconnect"
  BY DEF Result
<1>7. ASSUME outcome[p] = "ok", pc[p] # "write"
      PROVE  /\ data[p] = moved[p] /\ data[p] \in [1..Width -> Byte] /\ Len(data[p]) = Width
             /\ pc[p] \in ReadOps
             /\ wrote[p] = 0 \/ pc[p] = "res"
  <2>1. data[p] = moved[p] /\ Len(moved[p]) = Width
    BY <1>1, <1>2, <1>7 DEF RunInv, CallInv
  <2>2. moved[p] \in Seq(Byte)
    BY <1>1 DEF TypeOK
  <2>3. pc[p] \in ReadOps
    BY <1>2, <1>7 DEF MemCalls
  <2>4. wrote[p] = 0 \/ pc[p] = "res"
    BY <1>1, <2>3 DEF RunInv, StatusInv, ReadOps
  <2> QED BY <2>1, <2>2, <2>3, <2>4, WordIsSeq
<1> QED BY <1>2, <1>3, <1>5, <1>6, <1>7

\* The return of a call keeps the types, and the other runs.
LEMMA ReturnedType ==
  ASSUME IInv, NEW p \in Runs, Returned(p)
  PROVE  TypeOK' /\ \A q \in Runs \ {p} : SameRun(q)
<1>1. TypeOK
  BY DEF IInv
<1>2. pc' \in [Runs -> MemCalls \cup {"connect", "disconnect", "exit"}]
  <2> DEFINE P == MemCalls \cup {"connect", "disconnect", "exit"}
  <2>1. pc \in [Runs -> P]
    BY <1>1 DEF TypeOK
  <2>2. Result(p) \in P
    BY ReturnedFacts DEF MemCalls, ReadOps
  <2> HIDE DEF P
  <2>3. pc' \in [Runs -> P]
    BY <2>1, <2>2, ReturnedFacts
  <2> QED BY <2>3 DEF P
<1>3. status' \in [Runs -> 0..2]
  <2> DEFINE s == IF outcome[p] = "ok" THEN 0 ELSE 1
  <2>1. status \in [Runs -> 0..2] /\ s \in 0..2
    BY <1>1 DEF TypeOK
  <2>2. status' = status \/ status' = [status EXCEPT ![p] = s]
    BY ReturnedFacts
  <2> HIDE DEF s
  <2> QED BY <2>1, <2>2
<1>4. word' \in [Runs -> [ReadOps -> [1..Width -> Byte]]]
  <2>1. word \in [Runs -> [ReadOps -> [1..Width -> Byte]]]
    BY <1>1 DEF TypeOK
  <2>2. CASE outcome[p] = "ok" /\ pc[p] # "write"
    <3> DEFINE d == data[p]
               k == pc[p]
    <3>1. word' = [word EXCEPT ![p][k] = d] /\ d \in [1..Width -> Byte] /\ k \in ReadOps
      BY <2>2, ReturnedFacts
    <3> DEFINE B == [1..Width -> Byte]
    <3> HIDE DEF d, k, B
    <3>2. d \in B /\ word \in [Runs -> [ReadOps -> B]]
      BY <2>1, <3>1 DEF B
    <3>3. word' \in [Runs -> [ReadOps -> B]]
      BY <3>1, <3>2
    <3> QED BY <3>3 DEF B
  <2>3. CASE ~(outcome[p] = "ok" /\ pc[p] # "write")
    BY <2>1, <2>3, ReturnedFacts
  <2> QED BY <2>2, <2>3
<1>5. asked' \in [Runs -> BOOLEAN]
  BY <1>1, ReturnedFacts DEF TypeOK
<1>6. \A q \in Runs : outcome'[q] = "pending" => asked'[q] /\ pc'[q] \in MemCalls
  <2>1. outcome[p] # "pending"
    BY DEF Returned
  <2>2. outcome' = outcome /\ asked' = [asked EXCEPT ![p] = FALSE] /\ pc' = [pc EXCEPT ![p] = Result(p)]
    BY ReturnedFacts
  <2>3. \A q \in Runs : outcome[q] = "pending" => asked[q] /\ pc[q] \in MemCalls
    BY <1>1 DEF TypeOK
  <2>4. asked \in [Runs -> BOOLEAN] /\ DOMAIN pc = Runs
    BY <1>1 DEF TypeOK
  <2> QED BY <2>1, <2>2, <2>3, <2>4
<1>7. TypeOK'
  BY <1>1, <1>2, <1>3, <1>4, <1>5, <1>6, ReturnedFacts DEF TypeOK
<1>8. \A q \in Runs \ {p} : SameRun(q)
  <2> TAKE q \in Runs \ {p}
  <2> DEFINE s == IF outcome[p] = "ok" THEN 0 ELSE 1
             r == Result(p)
             d == data[p]
             k == pc[p]
  <2>0. /\ pc' = [pc EXCEPT ![p] = r] /\ asked' = [asked EXCEPT ![p] = FALSE]
        /\ status' = status \/ status' = [status EXCEPT ![p] = s]
        /\ word' = word \/ word' = [word EXCEPT ![p][k] = d]
    BY ReturnedFacts
  <2> HIDE DEF s, r, d, k
  <2>1. status'[q] = status[q] /\ pc'[q] = pc[q] /\ asked'[q] = asked[q]
    BY <1>1, <2>0 DEF TypeOK
  <2>2. word'[q] = word[q]
    BY <1>1, <2>0 DEF TypeOK
  <2> QED BY <2>1, <2>2, ReturnedFacts DEF SameRun
<1> QED BY <1>7, <1>8

\* What a read returned is in memory, and so is what the write made of it: one
\* case for each call of doRead, dumpMemData and doModify.
LEMMA ReturnedStep ==
  ASSUME IInv, NEW p \in Runs, Returned(p)
  PROVE  RunInv(p)'
<1> USE DEF MemCalls, ReadOps
<1>1. TypeOK /\ CallInv(p) /\ StatusInv(p) /\ ContentInv(p)
  BY DEF IInv, RunInv
<1>2. /\ pc[p] \in MemCalls /\ asked[p] /\ options' = options
      /\ mem' = mem /\ call' = call /\ outcome' = outcome /\ moved' = moved /\ data' = data
      /\ wrote' = wrote /\ clean' = clean
  BY ReturnedFacts
<1>k. /\ Address(p)' = Address(p) /\ Value(p)' = Value(p) /\ Flags(p)' = Flags(p)
      /\ Modifies(p)' <=> Modifies(p)
      /\ FirstCall(p)' = FirstCall(p)
  BY <1>2, OptionsKept
<1>3. /\ pc'[p] = Result(p) /\ ~asked'[p]
      /\ Result(p) # "disconnect" => status'[p] = status[p]
      /\ Result(p) = "disconnect" => status'[p] = IF outcome[p] = "ok" THEN 0 ELSE 1
  <2> DEFINE r == Result(p)
             s == IF outcome[p] = "ok" THEN 0 ELSE 1
  <2>1. /\ pc' = [pc EXCEPT ![p] = r] /\ asked' = [asked EXCEPT ![p] = FALSE]
        /\ r # "disconnect" => status' = status
        /\ r = "disconnect" => status' = [status EXCEPT ![p] = s]
    BY ReturnedFacts
  <2>2. pc'[p] = r /\ ~asked'[p]
    <3> HIDE DEF r
    <3> QED BY <1>1, <2>1 DEF TypeOK
  <2>3. r # "disconnect" => status'[p] = status[p]
    BY <2>1
  <2>4. r = "disconnect" => status'[p] = s
    <3> HIDE DEF r, s
    <3> QED BY <1>1, <2>1 DEF TypeOK
  <2> QED BY <2>2, <2>3, <2>4
<1>4. /\ Result(p) \in {"tmp", "write", "res", "disconnect"}
      /\ outcome[p] = "ok" => Result(p) = NextPlace(p)
      /\ outcome[p] # "ok" => Result(p) = "disconnect"
  BY ReturnedFacts
<1>5. CallInv(p)'
  BY <1>1, <1>2, <1>3, <1>4, <1>k DEF CallInv, NextPlace, Returned
<1>6. StatusInv(p)'
  <2>1. outcome[p] = "ok" /\ Result(p) = "disconnect" => wrote[p] = IF Modifies(p) THEN Width ELSE 0
    BY <1>1, <1>2, <1>4 DEF CallInv, StatusInv, NextPlace
  <2>2. pc[p] = "write" /\ outcome[p] = "ok" => wrote[p] = Width
    BY <1>1, <1>2 DEF CallInv, StatusInv
  <2> QED BY <1>1, <1>2, <1>3, <1>4, <1>k, <2>1, <2>2 DEF StatusInv, CallInv, NextPlace
<1>7. ContentInv(p)'
  <2> DEFINE a == Address(p)
             d == data[p]
             old == word[p]
             new == word'[p]
  <2>1. CASE outcome[p] # "ok"
    BY <1>3, <1>4, <2>1 DEF ContentInv
  <2>2. CASE outcome[p] = "ok" /\ pc[p] = "write"
    <3>1. word' = word /\ pc'[p] = "res" /\ ~asked'[p] /\ Len(moved[p]) = Width
      BY <1>1, <1>3, <1>4, <2>2, ReturnedFacts DEF NextPlace, CallInv
    <3>2. "orig" \in clean[p] => \A i \in 1..Width : mem[a + i] = After(p, i, word[p]["orig"][i])
      BY <1>1, <1>2, <2>2, <3>1 DEF ContentInv
    <3>3. \A i : After(p, i, word[p]["orig"][i])' = After(p, i, word[p]["orig"][i])
      BY <3>1, <1>k DEF After, Combine
    <3> QED BY <1>2, <1>k, <3>1, <3>2, <3>3 DEF ContentInv
  <2>3. CASE outcome[p] = "ok" /\ pc[p] # "write"
    <3>1. /\ d = moved[p] /\ d \in [1..Width -> Byte] /\ Len(d) = Width
          /\ word' = [word EXCEPT ![p][pc[p]] = d]
      BY <2>3, ReturnedFacts
    <3>2. new[pc[p]] = d /\ \A r \in ReadOps \ {pc[p]} : new[r] = old[r]
      <4> DEFINE k == pc[p]
      <4>1. word' = [word EXCEPT ![p][k] = d] /\ k \in ReadOps
        BY <3>1, <2>3, ReturnedFacts
      <4> HIDE DEF k, d
      <4> QED BY <1>1, <4>1 DEF TypeOK, k
    <3>3. pc[p] \in clean[p] => \A i \in 1..Width : d[i] = mem[a + i]
      BY <1>1, <1>2, <3>1 DEF ContentInv, Seen
    <3>4. \A i, b : After(p, i, b)' = After(p, i, b)
      BY <1>k DEF After, Combine
    <3> HIDE DEF d, new, old, a
    <3>5. CASE pc[p] = "orig" /\ "w" \notin Flags(p)
      <4>1. pc'[p] = "tmp" /\ ~asked'[p]
        BY <1>3, <1>4, <2>3, <3>5 DEF NextPlace
      <4>2. "orig" \in clean[p] => Seen(p, word[p]["orig"])'
        BY <1>2, <1>k, <3>1, <3>2, <3>3, <3>5 DEF Seen, new, a
      <4> QED BY <1>2, <4>1, <4>2 DEF ContentInv
    <3>6. CASE pc[p] = "orig" /\ "w" \in Flags(p)
      <4>1. pc'[p] = "write" /\ ~asked'[p] /\ "w" \in Flags(p)'
        BY <1>3, <1>4, <1>k, <2>3, <3>6 DEF NextPlace
      <4>2. \A i, b : (After(p, i, b) = Value(p)[i])'
        BY <4>1 DEF After, Combine
      <4>3. (\A i \in 1..Width : After(p, i, word[p]["tmp"][i]) = After(p, i, word[p]["orig"][i]))'
        BY <4>1 DEF After, Combine
      <4> QED BY <4>1, <4>3 DEF ContentInv
    <3>7. CASE pc[p] = "tmp"
      <4>1. pc'[p] = "write" /\ ~asked'[p]
        BY <1>3, <1>4, <2>3, <3>7 DEF NextPlace
      <4>2. "tmp" \in clean[p] => (\A i \in 1..Width : mem[Address(p) + i] = word[p]["tmp"][i])'
        BY <1>2, <1>k, <3>2, <3>3, <3>7 DEF new, a
      <4>3. "orig" \in clean[p] => \A i \in 1..Width : d[i] = old["orig"][i]
        <5>1. SUFFICES ASSUME "orig" \in clean[p], NEW i \in 1..Width PROVE d[i] = old["orig"][i]
          OBVIOUS
        <5>2. "tmp" \in clean[p] /\ Seen(p, old["orig"])
          BY <1>1, <1>2, <3>7, <5>1 DEF ContentInv, old
        <5>3. old["orig"] \in [1..Width -> Byte]
          BY <1>1 DEF TypeOK, old
        <5>4. Len(old["orig"]) = Width
          BY <5>3, WordIsSeq
        <5> QED BY <3>3, <3>7, <5>2, <5>4 DEF Seen, a
      <4>4. "orig" \in clean[p] =>
              (\A i \in 1..Width : After(p, i, word[p]["tmp"][i]) = After(p, i, word[p]["orig"][i]))'
        BY <1>k, <3>2, <3>7, <4>3 DEF After, Combine, new
      <4> QED BY <1>2, <4>1, <4>2, <4>4 DEF ContentInv
    <3>8. CASE pc[p] = "res"
      <4>1. pc'[p] = "disconnect" /\ ~asked'[p] /\ Modifies(p)
        BY <1>1, <1>3, <1>4, <2>3, <3>8 DEF NextPlace, CallInv
      <4>2. "orig" \in clean[p] =>
              "res" \in clean[p] /\ \A i \in 1..Width : mem[a + i] = After(p, i, old["orig"][i])
        BY <1>1, <1>2, <3>8 DEF ContentInv, a, old
      <4>3. "orig" \in clean[p] => \A i \in 1..Width : d[i] = After(p, i, old["orig"][i])
        BY <3>3, <3>8, <4>2
      <4>4. "orig" \in clean[p] => d = [i \in 1..Width |-> After(p, i, old["orig"][i])]
        BY <3>1, <4>3
      <4>5. OutputIsTrue(p)'
        <5>1. Modifies(p)'
          BY <1>k, <4>1
        <5>2. new["res"] = d /\ new["orig"] = old["orig"]
          BY <3>2, <3>8
        <5>3. [i \in 1..Width |-> After(p, i, old["orig"][i])]
              = [i \in 1..Width |-> Combine(p, word[p]["orig"][i], Value(p)[i])]'
          BY <1>k, <5>2 DEF After, Combine, new
        <5> QED BY <1>2, <4>4, <5>1, <5>2, <5>3 DEF OutputIsTrue, new
      <4> QED BY <4>1, <4>5 DEF ContentInv
    <3>9. CASE pc[p] \in {"read", "dump"}
      <4>1. pc'[p] = "disconnect" /\ ~asked'[p] /\ ~Modifies(p) /\ pc[p] = FirstCall(p)
        BY <1>1, <1>3, <1>4, <2>3, <3>9 DEF NextPlace, CallInv
      <4>2. FirstCall(p) \in clean[p] => d = SubSeq(mem, a + 1, a + Width)
        <5>1. SUFFICES ASSUME FirstCall(p) \in clean[p] PROVE d = SubSeq(mem, a + 1, a + Width)
          OBVIOUS
        <5>2. a \in Nat /\ Width \in Nat \ {0} /\ a + Width <= MemSize /\ MemSize \in Nat
          BY <1>1, OptionsOfRun, MemvrAssumption DEF TypeOK, Addresses, a
        <5>3. mem \in [1..MemSize -> Byte]
          BY <1>1 DEF TypeOK
        <5>4. \A i \in (a + 1)..(a + Width) : mem[i] \in Byte
          BY <5>2, <5>3
        <5>5. /\ SubSeq(mem, a + 1, a + Width) \in Seq(Byte)
              /\ Len(SubSeq(mem, a + 1, a + Width)) = Width
              /\ \A i \in 1..Width : SubSeq(mem, a + 1, a + Width)[i] = mem[a + i]
          <6> DEFINE m == a + 1
                     n == a + Width
          <6>1. m \in Int /\ n \in Int /\ m <= n /\ n - m + 1 = Width /\ \A i \in 1..Width : m + i - 1 = a + i
            BY <5>2
          <6>2. \A i \in m..n : mem[i] \in Byte
            BY <5>4
          <6> HIDE DEF m, n
          <6>3. /\ SubSeq(mem, m, n) \in Seq(Byte)
                /\ Len(SubSeq(mem, m, n)) = IF m <= n THEN n - m + 1 ELSE 0
                /\ \A i \in 1..(n - m + 1) : SubSeq(mem, m, n)[i] = mem[m + i - 1]
            BY <6>1, <6>2, SubSeqProperties
          <6> QED BY <6>1, <6>3 DEF m, n
        <5>6. d \in Seq(Byte) /\ Len(d) = Width
          BY <3>1, WordIsSeq
        <5>7. \A i \in 1..Width : d[i] = mem[a + i]
          BY <3>3, <4>1, <5>1
        <5> QED BY <5>5, <5>6, <5>7, SeqEqual
      <4>3. OutputIsTrue(p)'
        BY <1>2, <1>k, <3>2, <4>1, <4>2 DEF OutputIsTrue, new, a
      <4> QED BY <4>1, <4>3 DEF ContentInv
    <3> QED BY <1>2, <2>3, <3>5, <3>6, <3>7, <3>8, <3>9
  <2> QED BY <2>1, <2>2, <2>3
<1> QED BY <1>5, <1>6, <1>7 DEF RunInv

\* What the server does when it moves a byte of a call.
LEMMA ServeFacts ==
  ASSUME IInv, NEW p \in Runs, Serve(p), NEW n, n = Len(moved[p])
  PROVE  /\ n \in Nat /\ n + 1 <= Width /\ call[p].addr \in Nat /\ call[p].addr + n + 1 \in 1..MemSize
         /\ outcome[p] \in {"pending", "failed"}
         /\ pc[p] \in MemCalls => asked[p]
         /\ pc[p] # "connect"
         /\ call[p].bytes \in [1..Width -> Byte]
         /\ call[p].write => mem' = [mem EXCEPT ![call[p].addr + n + 1] = call[p].bytes[n + 1]]
         /\ ~call[p].write => mem' = mem
         /\ mem' \in [1..MemSize -> Byte]
         /\ moved' = [moved EXCEPT ![p] = Append(moved[p], mem'[call[p].addr + n + 1])]
         /\ call' = call /\ outcome' = outcome /\ data' = data
         /\ options' = options /\ pc' = pc /\ asked' = asked /\ word' = word /\ status' = status
         /\ wrote' = (IF call[p].write THEN [wrote EXCEPT ![p] = @ + 1] ELSE wrote)
         /\ clean' = [q \in Runs |-> IF q # p /\ mem' # mem THEN {} ELSE clean[q]]
<1> USE DEF runVars
<1>1. TypeOK /\ CallInv(p)
  BY DEF IInv, RunInv
<1>2. moved[p] \in Seq(Byte) /\ call[p].bytes \in [1..Width -> Byte] /\ call[p].addr \in Addresses
  BY <1>1 DEF TypeOK, RpcCalls
<1>3. n \in Nat /\ Len(call[p].bytes) = Width
  BY <1>2, WordIsSeq
<1>4. /\ outcome[p] \in {"pending", "failed"} /\ n + 1 <= Len(call[p].bytes)
      /\ mem' = IF call[p].write THEN [mem EXCEPT ![call[p].addr + (n + 1)] = call[p].bytes[n + 1]] ELSE mem
      /\ moved' = [moved EXCEPT ![p] = Append(@, mem'[call[p].addr + (n + 1)])]
      /\ call' = call /\ outcome' = outcome /\ data' = data
      /\ options' = options /\ pc' = pc /\ asked' = asked /\ word' = word /\ status' = status
      /\ wrote' = (IF call[p].write THEN [wrote EXCEPT ![p] = @ + 1] ELSE wrote)
      /\ clean' = [q \in Runs |-> IF q # p /\ mem' # mem THEN {} ELSE clean[q]]
  BY DEF Serve, Rpc!Move
<1>5. call[p].addr \in Nat /\ call[p].addr + n + 1 \in 1..MemSize /\ call[p].addr + (n + 1) = call[p].addr + n + 1
  <2> DEFINE c == call[p].addr
             w == Len(call[p].bytes)
  <2>1. c \in 0..MemSize - Width /\ w = Width /\ n + 1 <= w /\ n \in Nat
    BY <1>2, <1>3, <1>4 DEF Addresses
  <2>2. Width \in Nat \ {0} /\ MemSize \in Nat /\ Width <= MemSize
    BY MemvrAssumption
  <2> HIDE DEF c, w
  <2>3. c \in Nat /\ c + n + 1 \in 1..MemSize /\ c + (n + 1) = c + n + 1
    BY <2>1, <2>2
  <2> QED BY <2>3 DEF c
<1>6. mem' \in [1..MemSize -> Byte]
  <2>1. mem \in [1..MemSize -> Byte] /\ call[p].bytes[n + 1] \in Byte
    BY <1>1, <1>2, <1>3, <1>4 DEF TypeOK
  <2>2. CASE call[p].write
    BY <1>4, <2>1, <2>2
  <2>3. CASE ~call[p].write
    BY <1>4, <2>1, <2>3
  <2> QED BY <2>2, <2>3
<1>7. (pc[p] \in MemCalls => asked[p]) /\ pc[p] # "connect"
  BY <1>1, <1>4 DEF TypeOK, CallInv
<1>8. n + 1 <= Width
  BY <1>3, <1>4
<1>9. /\ call[p].write => mem' = [mem EXCEPT ![call[p].addr + n + 1] = call[p].bytes[n + 1]]
      /\ moved' = [moved EXCEPT ![p] = Append(moved[p], mem'[call[p].addr + n + 1])]
  BY <1>4, <1>5
<1> QED BY <1>2, <1>3, <1>4, <1>5, <1>6, <1>7, <1>8, <1>9

\* A byte of a read is as in memory, and a byte of a write replaces the one that
\* was read.
LEMMA ServeStep ==
  ASSUME IInv, NEW p \in Runs, Serve(p)
  PROVE  TypeOK' /\ RunInv(p)' /\ options' = options /\ \A q \in Runs \ {p} : SameRun(q)
<1> USE DEF MemCalls, ReadOps
<1> DEFINE n == Len(moved[p])
           a == call[p].addr + n + 1
           b == mem'[a]
           s == moved'[p]
<1>1. TypeOK /\ CallInv(p) /\ StatusInv(p) /\ ContentInv(p)
  BY DEF IInv, RunInv
<1>2. /\ n \in Nat /\ n + 1 <= Width /\ call[p].addr \in Nat /\ a \in 1..MemSize
      /\ outcome[p] \in {"pending", "failed"}
      /\ pc[p] \in MemCalls => asked[p]
      /\ pc[p] # "connect"
      /\ call[p].bytes \in [1..Width -> Byte]
      /\ call[p].write => mem' = [mem EXCEPT ![a] = call[p].bytes[n + 1]]
      /\ ~call[p].write => mem' = mem
      /\ mem' \in [1..MemSize -> Byte]
      /\ moved' = [moved EXCEPT ![p] = Append(moved[p], b)]
  BY ServeFacts
<1>3. /\ call' = call /\ outcome' = outcome /\ data' = data
      /\ options' = options /\ pc' = pc /\ asked' = asked /\ word' = word /\ status' = status
      /\ wrote' = (IF call[p].write THEN [wrote EXCEPT ![p] = @ + 1] ELSE wrote)
      /\ clean' = [q \in Runs |-> IF q # p /\ mem' # mem THEN {} ELSE clean[q]]
  BY ServeFacts
<1>k. /\ Address(p)' = Address(p) /\ Value(p)' = Value(p) /\ Flags(p)' = Flags(p)
      /\ Modifies(p)' <=> Modifies(p)
      /\ FirstCall(p)' = FirstCall(p)
  BY <1>3, OptionsKept
<1>4. b \in Byte /\ moved[p] \in Seq(Byte)
  BY <1>1, <1>2 DEF TypeOK
<1>5. /\ s = Append(moved[p], b) /\ s \in Seq(Byte) /\ Len(s) = n + 1
      /\ s[n + 1] = b /\ \A i \in 1..n : s[i] = moved[p][i]
  <2>1. s = Append(moved[p], b)
    <3> HIDE DEF b, n, a
    <3> QED BY <1>1, <1>2 DEF TypeOK
  <2> HIDE DEF b, a
  <2> QED BY <1>4, <2>1, AppendProperties
<1>6. /\ clean'[p] = clean[p]
      /\ call[p].write => wrote'[p] = wrote[p] + 1 /\ wrote'[p] = n + 1
      /\ ~call[p].write => wrote'[p] = wrote[p]
  <2>1. clean'[p] = clean[p]
    BY <1>3
  <2>2. wrote[p] \in 0..Width /\ (call[p].write => wrote[p] = n)
    BY <1>1 DEF TypeOK, StatusInv
  <2> QED BY <1>1, <1>3, <2>1, <2>2 DEF TypeOK
<1>7. TypeOK'
  <2>1. moved' \in [Runs -> Seq(Byte)]
    <3>1. moved \in [Runs -> Seq(Byte)] /\ Append(moved[p], b) \in Seq(Byte)
      BY <1>1, <1>5 DEF TypeOK
    <3> HIDE DEF b
    <3> QED BY <1>2, <3>1
  <2>2. wrote' \in [Runs -> 0..Width]
    <3>1. wrote \in [Runs -> 0..Width] /\ (call[p].write => wrote[p] + 1 \in 0..Width)
      BY <1>1, <1>2, <1>6, MemvrAssumption DEF TypeOK
    <3> QED BY <1>3, <3>1
  <2>3. clean' \in [Runs -> SUBSET ReadOps]
    BY <1>1, <1>3 DEF TypeOK
  <2> QED BY <1>1, <1>2, <1>3, <2>1, <2>2, <2>3 DEF TypeOK
<1> HIDE DEF n, b, s
<1>8. CallInv(p)'
  <2>1. NewWord(p)' = NewWord(p)
    <3>1. \A i \in 1..Width : Combine(p, word[p]["tmp"][i], Value(p)[i])' = Combine(p, word[p]["tmp"][i], Value(p)[i])
      BY <1>k, <1>3 DEF Combine
    <3> QED BY <1>3, <3>1 DEF NewWord
  <2>2. Len(moved'[p]) <= Width
    BY <1>2, <1>5 DEF s
  <2> QED BY <1>1, <1>2, <1>3, <1>k, <2>1, <2>2 DEF CallInv
<1>9. StatusInv(p)'
  <2>1. Len(moved'[p]) = n + 1
    BY <1>5 DEF s
  <2>2. pc[p] \in {"connect", "orig", "tmp", "read", "dump", "res"} => ~call[p].write
    BY <1>1, <1>2 DEF CallInv
  <2>3. pc[p] = "write" => asked[p]
    BY <1>2
  <2>4. wrote[p] \in Nat
    BY <1>1, MemvrAssumption DEF TypeOK
  <2> QED BY <1>1, <1>2, <1>3, <1>6, <1>k, <2>1, <2>2, <2>3, <2>4 DEF StatusInv
<1>10. ContentInv(p)'
  <2>1. \A i, c : After(p, i, c)' = After(p, i, c)
    BY <1>k DEF After, Combine
  <2>2. CASE pc[p] \in ReadOps
    <3>1. asked[p] /\ mem' = mem /\ call[p].addr = Address(p)
      BY <1>1, <1>2, <2>2 DEF CallInv
    <3>2. pc[p] \in clean[p] => Seen(p, moved[p])'
      <4>1. SUFFICES ASSUME pc[p] \in clean[p], NEW i \in 1..(n + 1) PROVE s[i] = mem[Address(p) + i]
        BY <1>5, <1>k, <3>1 DEF Seen, s
      <4>2. i \in 1..n => s[i] = mem[Address(p) + i]
        BY <1>1, <1>5, <3>1, <4>1 DEF ContentInv, Seen, n
      <4>3. i = n + 1 => s[i] = mem[Address(p) + i]
        <5>1. Address(p) \in Nat /\ a = Address(p) + (n + 1)
          BY <1>2, <3>1 DEF a
        <5>2. s[n + 1] = mem[a]
          BY <1>5, <3>1 DEF b
        <5> QED BY <5>1, <5>2
      <4> QED BY <1>2, <4>2, <4>3
    <3>3. Seen(p, word[p]["orig"])' <=> Seen(p, word[p]["orig"])
      BY <1>3, <1>k, <3>1 DEF Seen
    <3>4. \A i : After(p, i, word[p]["orig"][i])' = After(p, i, word[p]["orig"][i])
      BY <1>3, <1>k DEF After, Combine
    <3> QED BY <1>1, <1>3, <1>6, <1>k, <2>2, <3>1, <3>2, <3>3, <3>4 DEF ContentInv
  <2>3. CASE pc[p] = "write"
    <3>1. /\ asked[p] /\ call[p].write /\ call[p].addr = Address(p) /\ call[p].bytes = NewWord(p)
          /\ Address(p) \in Nat /\ Address(p) + Width <= MemSize
      BY <1>1, <1>2, <2>3, OptionsOfRun, MemvrAssumption DEF TypeOK, CallInv, Addresses
    <3>2. a = Address(p) + (n + 1) /\ mem' = [mem EXCEPT ![a] = NewWord(p)[n + 1]]
      BY <1>2, <3>1 DEF a
    <3>3. \A i \in 1..Width : i # n + 1 => mem'[Address(p) + i] = mem[Address(p) + i]
      <4> SUFFICES ASSUME NEW i \in 1..Width, i # n + 1 PROVE mem'[Address(p) + i] = mem[Address(p) + i]
        OBVIOUS
      <4>1. Address(p) + i \in 1..MemSize /\ Address(p) + i # a
        BY <1>2, <3>1, <3>2, MemvrAssumption
      <4> DEFINE x == Address(p) + i
      <4> HIDE DEF x, a
      <4>2. x \in 1..MemSize /\ x # a
        BY <4>1 DEF x
      <4>3. mem'[x] = mem[x]
        BY <1>1, <3>2, <4>2 DEF TypeOK
      <4> QED BY <4>3 DEF x
    <3>4. mem'[a] = After(p, n + 1, word[p]["tmp"][n + 1])
      <4>1. mem'[a] = NewWord(p)[n + 1]
        <5> HIDE DEF a
        <5> QED BY <1>1, <1>2, <3>2 DEF TypeOK
      <4> QED BY <1>2, <4>1 DEF NewWord, After
    <3>5. Len(moved'[p]) = n + 1 /\ n = Len(moved[p])
      BY <1>5 DEF s, n
    <3>6. "w" \notin Flags(p) /\ "tmp" \in clean[p] =>
            \A i \in 1..Width : i > n + 1 => mem'[Address(p) + i] = word[p]["tmp"][i]
      BY <1>1, <1>2, <2>3, <3>1, <3>3, <3>5, SMTT(40) DEF ContentInv
    <3>7. "orig" \in clean[p] =>
            /\ \A i \in 1..Width : After(p, i, word[p]["tmp"][i]) = After(p, i, word[p]["orig"][i])
            /\ \A i \in 1..(n + 1) : mem'[Address(p) + i] = After(p, i, word[p]["orig"][i])
      <4> SUFFICES ASSUME "orig" \in clean[p]
                   PROVE  /\ \A i \in 1..Width : After(p, i, word[p]["tmp"][i]) = After(p, i, word[p]["orig"][i])
                          /\ \A i \in 1..(n + 1) : mem'[Address(p) + i] = After(p, i, word[p]["orig"][i])
        OBVIOUS
      <4>1. /\ \A i \in 1..Width : After(p, i, word[p]["tmp"][i]) = After(p, i, word[p]["orig"][i])
            /\ \A i \in 1..n : mem[Address(p) + i] = After(p, i, word[p]["orig"][i])
        BY <1>1, <2>3, <3>1, <3>5 DEF ContentInv
      <4>2. n + 1 \in 1..Width
        BY <1>2
      <4>3. mem'[Address(p) + (n + 1)] = After(p, n + 1, word[p]["orig"][n + 1])
        BY <3>2, <3>4, <4>1, <4>2
      <4>4. \A i \in 1..n : mem'[Address(p) + i] = After(p, i, word[p]["orig"][i])
        <5> TAKE i \in 1..n
        <5>1. i \in 1..Width /\ i # n + 1
          BY <1>2, MemvrAssumption
        <5>2. mem'[Address(p) + i] = mem[Address(p) + i]
          BY <3>3, <5>1
        <5> QED BY <4>1, <5>2
      <4> QED BY <1>2, <4>1, <4>3, <4>4
    <3>8. \A i : /\ After(p, i, word[p]["tmp"][i])' = After(p, i, word[p]["tmp"][i])
                 /\ After(p, i, word[p]["orig"][i])' = After(p, i, word[p]["orig"][i])
      BY <1>3, <1>k DEF After, Combine
    <3>9. "write" \notin clean[p]
      BY <1>1 DEF TypeOK
    <3> QED BY <1>3, <1>6, <1>k, <2>3, <3>1, <3>5, <3>6, <3>7, <3>8, <3>9 DEF ContentInv
  <2>4. CASE pc[p] \notin MemCalls
    <3>1. ~asked[p] /\ status[p] # 0
      BY <1>1, <1>2, <2>4 DEF CallInv, StatusInv
    <3> QED BY <1>3, <2>4, <3>1 DEF ContentInv
  <2> QED BY <2>2, <2>3, <2>4
<1>11. \A q \in Runs \ {p} : SameRun(q)
  <2> TAKE q \in Runs \ {p}
  <2>1. moved'[q] = moved[q]
    BY <1>1, <1>2 DEF TypeOK
  <2>2. wrote'[q] = wrote[q]
    BY <1>1, <1>3 DEF TypeOK
  <2>3. (clean'[q] = clean[q] /\ mem' = mem) \/ clean'[q] = {}
    BY <1>3
  <2> QED BY <1>3, <2>1, <2>2, <2>3 DEF SameRun
<1> QED BY <1>3, <1>7, <1>8, <1>9, <1>10, <1>11 DEF RunInv

-----------------------------------------------------------------------------

\* All runs start in the invariant.
LEMMA InitIInv == Init => IInv
<1> SUFFICES ASSUME Init PROVE IInv
  OBVIOUS
<1>1. /\ mem \in Words /\ outcome = [p \in Runs |-> "idle"]
      /\ moved = [p \in Runs |-> <<>>] /\ data = [p \in Runs |-> <<>>]
      /\ call = [p \in Runs |-> [write |-> FALSE, addr |-> 0, bytes |-> Unread]]
      /\ \A p \in Runs : options[p] \in OptionLists[p]
      /\ pc = [p \in Runs |-> "connect"] /\ asked = [p \in Runs |-> FALSE]
      /\ word = [p \in Runs |-> [r \in ReadOps |-> Unread]]
      /\ status = [p \in Runs |-> 2]
      /\ wrote = [p \in Runs |-> 0] /\ clean = [p \in Runs |-> {}]
  BY DEF Init
<1>2. Unread \in [1..Width -> Byte] /\ 0 \in Addresses /\ Width \in Nat \ {0} /\ Len(<<>>) = 0 /\ <<>> \in Seq(Byte)
  BY ZerosType, MemvrAssumption DEF Unread, Addresses
<1>3. TypeOK
  <2>1. call \in [Runs -> RpcCalls]
    BY <1>1, <1>2 DEF RpcCalls
  <2>2. wrote \in [Runs -> 0..Width]
    BY <1>1, <1>2
  <2>3. mem \in [1..MemSize -> Byte] /\ moved \in [Runs -> Seq(Byte)] /\ data \in [Runs -> Seq(Byte)]
    BY <1>1, <1>2, MemvrAssumption
  <2>4. word \in [Runs -> [ReadOps -> [1..Width -> Byte]]] /\ clean \in [Runs -> SUBSET ReadOps]
    BY <1>1, <1>2
  <2>5. /\ outcome \in [Runs -> {"idle", "pending", "ok", "refused", "failed"}]
        /\ pc \in [Runs -> MemCalls \cup {"connect", "disconnect", "exit"}]
        /\ asked \in [Runs -> BOOLEAN] /\ status \in [Runs -> 0..2]
        /\ \A p \in Runs : outcome[p] # "pending"
    BY <1>1
  <2> QED BY <1>1, <2>1, <2>2, <2>3, <2>4, <2>5 DEF TypeOK
<1>4. ASSUME NEW p \in Runs PROVE RunInv(p)
  <2>1. /\ outcome[p] = "idle" /\ Len(moved[p]) = 0 /\ ~call[p].write /\ pc[p] = "connect" /\ ~asked[p]
        /\ status[p] = 2 /\ wrote[p] = 0 /\ clean[p] = {}
    BY <1>1, <1>2
  <2> QED BY <1>2, <2>1 DEF RunInv, CallInv, StatusInv, ContentInv, MemCalls, ReadOps
<1> QED BY <1>3, <1>4 DEF IInv

\* Every step keeps the invariant: a run alone makes it, or the device does.
LEMMA OneRunSteps ==
  ASSUME IInv, [Next]_vars
  PROVE  IInv'
<1>1. ASSUME NEW p \in Runs, Connect(p) \/ Ask(p) \/ Returned(p) \/ Disconnect(p) \/ Serve(p) \/ Answer(p)
      PROVE  IInv'
  <2>1. TypeOK' /\ RunInv(p)' /\ options' = options /\ \A q \in Runs \ {p} : SameRun(q)
    <3>1. CASE Returned(p)
      BY <3>1, ReturnedFacts, ReturnedType, ReturnedStep
    <3> QED BY <1>1, <3>1, ConnectStep, AskStep, DisconnectStep, ServeStep, AnswerStep
  <2>2. \A q \in Runs \ {p} : RunInv(q)'
    BY <2>1, OtherRun DEF IInv
  <2> QED BY <2>1, <2>2 DEF IInv
<1>2. ASSUME Hardware PROVE IInv'
  BY <1>2, HardwareStep, OtherRun DEF IInv
<1>3. ASSUME UNCHANGED vars PROVE IInv'
  <2>1. /\ TypeOK'
        /\ options' = options /\ \A q \in Runs : SameRun(q)
    BY <1>3 DEF IInv, TypeOK, vars, rpcVars, runVars, auxVars, SameRun
  <2> QED BY <2>1, OtherRun DEF IInv
<1> QED BY <1>1, <1>2, <1>3 DEF Next, Ended

\* Every state is in the invariant.
LEMMA Inductive == Spec => []IInv
BY InitIInv, OneRunSteps, PTL DEF Spec

\* Every variable of the runs keeps its type: a run has written at most the bytes
\* of one value, and it waits whenever its call is pending.
THEOREM TypeCorrect == Spec => []TypeOK
<1>1. IInv => TypeOK
  BY DEF IInv
<1> QED BY Inductive, <1>1, PTL

\* main returns 0 only when what was asked for was done, once and in full; and the
\* values doRead and doModify print are those of memory, unless others changed it
\* meanwhile.
THEOREM ReportsHold == Spec => []ReportsAreTrue
<1>1. IInv => ReportsAreTrue
  <2> SUFFICES ASSUME IInv, NEW p \in Runs
               PROVE  StatusIsTrue(p) /\ (pc[p] = "disconnect" /\ status[p] = 0 => OutputIsTrue(p))
    BY DEF ReportsAreTrue
  <2> QED BY DEF IInv, RunInv, StatusInv, ContentInv, StatusIsTrue
<1> QED BY Inductive, <1>1, PTL

\* A byte memoryORDWord or memoryANDDWord writes differs from the byte in memory by
\* the operation alone, unless others changed the memory since their own read.
THEOREM UpdatesHold == Spec => OnlyOverlappedUpdatesAreLost
<1> DEFINE Kept(p) ==
      pc[p] = "write" /\ moved'[p] # moved[p] /\ asked[p] /\ asked'[p] /\ "tmp" \in clean[p]
      => LET a == call[p].addr + Len(moved'[p])
         IN  mem'[a] = Combine(p, mem[a], Value(p)[Len(moved'[p])])
<1>1. ASSUME IInv, [Next]_vars, NEW p \in Runs PROVE Kept(p)
  <2>1. SUFFICES ASSUME pc[p] = "write", moved'[p] # moved[p], asked[p], asked'[p], "tmp" \in clean[p]
                 PROVE  LET a == call[p].addr + Len(moved'[p])
                        IN  mem'[a] = Combine(p, mem[a], Value(p)[Len(moved'[p])])
    OBVIOUS
  <2>2. Serve(p)
    <3>1. ~SameRun(p)
      BY <2>1 DEF SameRun
    <3>2. \A q \in Runs : q # p => ~(Connect(q) \/ Ask(q) \/ Returned(q) \/ Disconnect(q) \/ Serve(q) \/ Answer(q))
      BY <1>1, <3>1, ConnectStep, AskStep, ReturnedType, DisconnectStep, ServeStep, AnswerStep
    <3>3. ~(Connect(p) \/ Ask(p) \/ Disconnect(p))
      BY <2>1 DEF Connect, Ask, Disconnect
    <3>4. ~Returned(p) /\ ~Answer(p) /\ ~Hardware /\ ~UNCHANGED vars
      BY <2>1 DEF Returned, Answer, Hardware, Rpc!Return, Rpc!Refuse, Rpc!Fail, Rpc!Hardware, vars, rpcVars
    <3> QED BY <1>1, <3>2, <3>3, <3>4 DEF Next, Ended
  <2> DEFINE n == Len(moved[p])
             a == call[p].addr + n + 1
  <2>3. TypeOK /\ CallInv(p) /\ ContentInv(p)
    BY <1>1 DEF IInv, RunInv
  <2>4. call[p].write /\ call[p].addr = Address(p) /\ call[p].bytes = NewWord(p)
    BY <2>1, <2>3 DEF CallInv
  <2>5. /\ n \in Nat /\ n + 1 <= Width /\ call[p].addr \in Nat /\ a \in 1..MemSize
        /\ mem' = [mem EXCEPT ![a] = call[p].bytes[n + 1]]
        /\ mem' \in [1..MemSize -> Byte]
        /\ moved' = [moved EXCEPT ![p] = Append(moved[p], mem'[a])]
    BY <1>1, <2>2, <2>4, ServeFacts
  <2>6. Len(moved'[p]) = n + 1
    <3> DEFINE b == mem'[a]
    <3>1. b \in Byte /\ moved[p] \in Seq(Byte) /\ moved \in [Runs -> Seq(Byte)]
      BY <2>3, <2>5 DEF TypeOK
    <3> HIDE DEF b, a
    <3>2. moved'[p] = Append(moved[p], b)
      BY <2>5, <3>1 DEF b
    <3> QED BY <3>1, <3>2, AppendProperties
  <2>7. mem'[a] = Combine(p, word[p]["tmp"][n + 1], Value(p)[n + 1])
    <3>1. mem'[a] = NewWord(p)[n + 1]
      <4> HIDE DEF a
      <4> QED BY <2>3, <2>4, <2>5 DEF TypeOK
    <3> QED BY <2>5, <3>1 DEF NewWord
  <2>8. "w" \notin Flags(p) => mem[a] = word[p]["tmp"][n + 1]
    <3>1. n + 1 \in 1..Width /\ n + 1 > n /\ a = Address(p) + (n + 1)
      BY <2>4, <2>5
    <3> HIDE DEF a
    <3> QED BY <2>1, <2>3, <3>1 DEF ContentInv
  <2>9. mem'[a] = Combine(p, mem[a], Value(p)[n + 1])
    BY <2>7, <2>8 DEF Combine
  <2>10. call[p].addr + (n + 1) = a
    BY <2>5
  <2> QED BY <2>6, <2>9, <2>10
<1>2. IInv /\ [Next]_vars => [\A p \in Runs : Kept(p)]_vars
  BY <1>1
<1> QED BY Inductive, <1>2, PTL DEF Spec, OnlyOverlappedUpdatesAreLost

-----------------------------------------------------------------------------
(* The calls of the runs.                                                   *)

\* The calls a run makes are calls of FdkRpc, one at a time on its connection: of
\* a value at an address in memory, begun only when the last one has returned and
\* not failed.
LEMMA StepImplementsRpc ==
  ASSUME IInv, [Next]_vars
  PROVE  [Rpc!Next]_(Rpc!vars)
<1>1. CASE UNCHANGED vars
  BY <1>1 DEF vars, rpcVars, Rpc!vars
<1>2. CASE Ended
  BY <1>2 DEF Ended, vars, rpcVars, Rpc!vars
<1>3. ASSUME NEW p \in Runs, Connect(p) \/ Returned(p) \/ Disconnect(p)
      PROVE  [Rpc!Next]_(Rpc!vars)
  BY <1>3 DEF Connect, Returned, Disconnect, rpcVars, Rpc!vars
<1>4. ASSUME NEW p \in Runs, Ask(p)
      PROVE  [Rpc!Next]_(Rpc!vars)
  <2> DEFINE c == [write |-> pc[p] = "write", addr |-> Address(p),
                   bytes |-> IF pc[p] = "write" THEN NewWord(p) ELSE Unread]
  <2>1. Rpc!Begin(p, c)
    BY <1>4 DEF Ask
  <2>2. options[p] \in OptionLists[p] /\ word[p] \in [ReadOps -> [1..Width -> Byte]]
    BY DEF IInv, TypeOK
  <2>3. Address(p) \in Addresses
    BY <2>2, OptionsOfRun
  <2>4. NewWord(p) \in [1..Width -> Byte] /\ Unread \in [1..Width -> Byte]
    BY <2>2, NewWordType, ZerosType DEF Unread
  <2>5. c \in RpcCalls
    BY <2>3, <2>4 DEF RpcCalls
  <2> HIDE DEF c
  <2> QED BY <2>1, <2>5 DEF Rpc!Next
<1>5. ASSUME NEW p \in Runs, Serve(p) \/ Answer(p)
      PROVE  [Rpc!Next]_(Rpc!vars)
  BY <1>5 DEF Serve, Answer, Rpc!Next
<1>6. CASE Hardware
  BY <1>6 DEF Hardware, Rpc!Next
<1> QED BY <1>1, <1>2, <1>3, <1>4, <1>5, <1>6 DEF Next

\* The memory calls of the runs of memvr are those of FdkRpc, so that what
\* FdkSession keeps of them is all that is used of them.
THEOREM Implements == Spec => Rpc!Spec
<1>1. Init => Rpc!Init
  <2> SUFFICES ASSUME Init PROVE Rpc!Init
    OBVIOUS
  <2>1. call = [p \in Runs |-> [write |-> FALSE, addr |-> 0, bytes |-> Unread]]
    BY DEF Init
  <2>2. 0 \in Addresses /\ Unread \in [1..Width -> Byte]
    BY MemvrAssumption, ZerosType DEF Addresses, Unread
  <2>3. call \in [Runs -> RpcCalls]
    BY <2>1, <2>2 DEF RpcCalls
  <2> QED BY <2>3 DEF Init, Rpc!Init
<1>2. IInv /\ [Next]_vars => [Rpc!Next]_(Rpc!vars)
  BY StepImplementsRpc
<1> QED BY Inductive, <1>1, <1>2, PTL DEF Spec, Rpc!Spec

==============================================================================
