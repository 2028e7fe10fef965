------------------------------- MODULE MCMemvr -------------------------------
(* Two runs on words of two bytes; a byte has one bit.                      *)
EXTENDS Memvr

\* A device resets the word to what it was at the start.
MCWords == {<<{}, {0}>>}
MCOption(o, v) == [opt |-> o, addr |-> 0, value |-> v]

\* A modification, and next to it a run of any kind; the last two lists of
\* options share their address and value.
MCOptionLists ==
  <<{<<MCOption("o", <<{0}, {}>>)>>, <<MCOption("a", <<{}, {}>>)>>},
    {<<MCOption("r", <<{}, {}>>)>>, <<MCOption("d", <<{}, {}>>)>>,
     <<MCOption("w", <<{0}, {}>>)>>,
     <<MCOption("o", <<{0}, {}>>), MCOption("a", <<{}, {0}>>)>>,
     <<MCOption("w", <<{}, {}>>), MCOption("r", <<{}, {}>>)>>}>>
=============================================================================
