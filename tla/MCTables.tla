------------------------------- MODULE MCTables -------------------------------
(* Small inputs on both sides of every mask, limit and kind of line.        *)
EXTENDS Tables

SeqsUpTo(S, n) == UNION {[1..k -> S] : k \in 0..n}

Entry(s, b, d, f, ok) == [seg |-> s, bus |-> b, dev |-> d, fun |-> f, ok |-> ok]
MCEntries ==
  {Entry(0, 0, 0, 0, TRUE), Entry(0, 0, 31, 7, TRUE), Entry(0, 1, 0, 0, TRUE), Entry(0, 255, 31, 7, TRUE),
   Entry(1, 0, 0, 1, TRUE), Entry(127, 255, 0, 0, TRUE), Entry(128, 0, 0, 0, TRUE),
   Entry(65536, 0, 0, 0, TRUE), Entry(0, 0, 1, 0, FALSE)}
MCDirs == {d \in SeqsUpTo(MCEntries, 4) : IsInjective(d)}
MCPciInputs ==
  [dir : MCDirs, max : {1, 3}, legacy : {FALSE}, reach : {0}] \cup
  [dir : MCDirs, max : {1, 3}, legacy : {TRUE}, reach : {0, 257, 65536}]

MCSpace == 8
MCRange(s, e, t) == [start |-> s, end |-> e, type |-> t, ok |-> TRUE]
MCRanges == {MCRange(s, e, "RAM") : s, e \in {0, 1, 4, 7}} \cup {MCRange(2, 3, "Boot"), [start |-> 5, end |-> 6, type |-> "NVS", ok |-> FALSE]}
MCE820Inputs == [dir : SeqsUpTo(MCRanges, 3), max : {2, 3}]

MCLine(k, id, n, rest) == [kind |-> k, id |-> id, name |-> n, rest |-> rest]
MCLines ==
  {MCLine("vendor", 1, "V1", "none"), MCLine("vendor", 2, "V2", "none"),
   MCLine("device", 1, "D1", "none"), MCLine("device", 2, "D2", "none"),
   MCLine("vendor", 0, "V0", "none"), MCLine("sub", 1, "S", "none"), MCLine("comment", 1, "#", "none"), MCLine("class", 1, "C", "none"),
   MCLine("junk", 1, "J", "none"), MCLine("device", 2, "L", "junk"), MCLine("device", 2, "L", "class"),
   MCLine("device", 2, "L", "comment")}
MCDevs ==
  <<[vendor |-> 1, device |-> 1], [vendor |-> 2, device |-> 1], [vendor |-> 1, device |-> 2], [vendor |-> 0, device |-> 1]>>
MCFile(v, l) == [version |-> v, lines |-> l]
MCNameInputs ==
  [devs : {MCDevs},
   files : {<<MCFile(1, l)>> : l \in SeqsUpTo(MCLines, 4)}
     \cup {[i \in DOMAIN vs |-> MCFile(vs[i], <<MCLine("vendor", 1, <<"A", "B", "C", "D">>[i], "none")>>)] : vs \in SeqsUpTo(0..2, 4)}]

MCHexInputs == {p \o t : p \in {<<0, X>>, <<1, X>>, <<0, 0>>, <<>>},
                         t \in SeqsUpTo({0, 15, X, Slash, Blank, Minus, Plus, Other}, 4)}
MCPairInputs == {<<0, X>> \o t \o <<Slash, 0, X>> \o u : t, u \in SeqsUpTo({1, 15, Slash}, 3)}
MCRangeInputs == [addr : 0..63, len : 1..40]
=============================================================================
