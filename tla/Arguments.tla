------------------------------ MODULE Arguments ------------------------------
(***************************************************************************)
(* parseHex, ParseOneParameter and ParseTwoParameters of lib/libcomm.c,    *)
(* which memvr reads its options with.  A text is a sequence of            *)
(* characters: a hex digit is its value, and the others are the numbers    *)
(* below.                                                                  *)
(***************************************************************************)
EXTENDS Naturals, Sequences, SequencesExt

CONSTANT MaxDigits  \* 16

ASSUME ArgumentsAssumption == MaxDigits \in Nat

X == 16      \* x or X
Slash == 17
Blank == 18
Minus == 19
Plus == 20
Other == 21

IsDigit(c) == c < 16

Number(digits) ==
  LET value[n \in 0..Len(digits)] == IF n = 0 THEN 0 ELSE value[n - 1] * 16 + digits[n]
  IN  value[Len(digits)]

\* 16 to the MaxDigits: unsigned long long has this many values.
Values ==
  LET power[n \in 0..MaxDigits] == IF n = 0 THEN 1 ELSE power[n - 1] * 16
  IN  power[MaxDigits]

\* The part of t from i on that is digits.
DigitsFrom(t, i) ==
  LET stop == SelectInSubSeq(t, i, Len(t), LAMBDA c : ~IsDigit(c))
  IN  SubSeq(t, i, IF stop = 0 THEN Len(t) ELSE stop - 1)

\* strtoull with base 16: it takes blanks, a sign and another 0x before the
\* digits.  "used" is how many characters it took, 0 if there is no number.
Strtoull(t) ==
  LET sign   == SelectInSeq(t, LAMBDA c : c # Blank)
      first  == IF sign > 0 /\ t[sign] \in {Minus, Plus} THEN sign + 1 ELSE sign
      prefix == first > 0 /\ first + 2 <= Len(t) /\ t[first] = 0 /\ t[first + 1] = X /\ IsDigit(t[first + 2])
      start  == IF prefix THEN first + 2 ELSE first
      digits == IF first = 0 THEN <<>> ELSE DigitsFrom(t, start)
      minus  == first # sign /\ t[sign] = Minus
  IN  IF digits = <<>> THEN [value |-> 0, used |-> 0]
      ELSE [value |-> IF minus THEN (Values - Number(digits)) % Values ELSE Number(digits),
            used |-> start + Len(digits) - 1]

Rejected == [ok |-> FALSE, value |-> 0]

\* Mutant: what follows the number does not matter.
EndsThereAnyway(r, n) == r.used > 0

\* stop == buf + len
EndsThere(r, n) == r.used = n

ParseHex(s) ==
  LET r == Strtoull(SubSeq(s, 3, Len(s)))
  IN  IF Len(s) < 3 \/ Len(s) > MaxDigits + 2 THEN Rejected
      ELSE IF s[1] # 0 \/ s[2] # X \/ ~EndsThere(r, Len(s) - 2) THEN Rejected
      ELSE [ok |-> TRUE, value |-> r.value]

\* The address and the value of -w, -o, -a and -d.
ParseTwoParameters(s) ==
  LET sep == SelectInSeq(s, LAMBDA c : c = Slash)
  IN  IF sep = 0 THEN <<Rejected, Rejected>>
      ELSE <<ParseHex(SubSeq(s, 1, sep - 1)), ParseHex(SubSeq(s, sep + 1, Len(s)))>>

=============================================================================
