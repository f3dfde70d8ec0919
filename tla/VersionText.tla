----------------------------- MODULE VersionText -----------------------------
(***************************************************************************)
(* Version strings (src/mmuko_semverx.c, semverx.rs, and the compact       *)
(* dialect of select.rs).                                                  *)
(*                                                                         *)
(* A string is the sequence of the words between its dots, an empty word   *)
(* where two dots meet or the string ends in one.  Numerals gives the      *)
(* words made of digits their values; a word is "+" and digits (Signed),   *)
(* or the name of a state, or else means nothing to either parser.         *)
(***************************************************************************)
EXTENDS SemVerX, Integers, Sequences, TLC

CONSTANTS
  Numerals,   \* words of digits |-> their values
  Signed,     \* words of a plus sign and digits |-> their values
  VersionTexts \* texts parsed, [words, channel]

VARIABLE given  \* the text being parsed

\* mmuko_buf_putu
Decimal(n) == ToString(n)

\* What is printed for a number that was read is a numeral for it of at most
\* five digits.
NumeralsAssumption ==
  /\ "" \notin DOMAIN Numerals
  /\ \A word \in DOMAIN Numerals : Numerals[word] \in Nat /\ Len(word) \in Nat
  /\ \A word \in DOMAIN Signed : Signed[word] \in Nat
  /\ \A n \in U16 :
       (\E word \in DOMAIN Numerals : Numerals[word] = n)
       \/ (\E word \in DOMAIN Signed : Signed[word] = n)
         => /\ Decimal(n) \in DOMAIN Numerals
            /\ Numerals[Decimal(n)] = n
            /\ Len(Decimal(n)) \in Nat /\ Len(Decimal(n)) <= 5

ASSUME TextsAssumption ==
  /\ NumeralsAssumption
  /\ \A t \in VersionTexts : t.words \in Seq(STRING)

TextInit == given \in VersionTexts
TextSpec == TextInit /\ [][UNCHANGED given]_given

TextIdle == given = [words |-> <<>>, channel |-> ""]

\* mmuko_state_name, and mmuko_state_parse its inverse.
StateName == <<"experimental", "beta", "stable", "legacy", "lts">>

\* The longest name has twelve characters.  TLC computes the length of a
\* string, of which the provers know nothing.
ASSUME NamesAssumption == \A s \in ValidStates : Len(StateName[s]) \in Nat /\ Len(StateName[s]) <= 12

NamesState(word) == \E s \in ValidStates : StateName[s] = word
ParseState(word) == CHOOSE s \in ValidStates : StateName[s] = word

\* Mutant: four digits are enough.
ReadsFourDigits(word) == word \in DOMAIN Numerals /\ Len(word) <= 4

\* parse_u16: at most five digits; its value is checked as it is computed.
ReadsU16(word) == word \in DOMAIN Numerals /\ Len(word) <= 5 /\ Numerals[word] <= 65535

\* str::parse::<u16>: a plus sign, and any number of leading zeros, are read.
RustNumerals ==
  [word \in DOMAIN Numerals \union DOMAIN Signed |->
     IF word \in DOMAIN Numerals THEN Numerals[word] ELSE Signed[word]]

RustReadsU16(word) == word \in DOMAIN RustNumerals /\ RustNumerals[word] <= 65535

VersionOf(n1, s1, n2, s2, n3, s3) ==
  [major |-> n1, minor |-> n2, patch |-> n3,
   majorState |-> s1, minorState |-> s2, patchState |-> s3]

\* What is wrong with the number and the state of one of the three parts; 0
\* when nothing is.  A part begins at word 2i - 1.
PartError(words, i) ==
  LET n == 2 * i - 1
      s == 2 * i
  IN  IF Len(words) < n THEN -7
      ELSE IF words[n] = "" THEN -2
      ELSE IF ~ ReadsU16(words[n]) THEN -3
      ELSE IF Len(words) < s THEN -4
      ELSE IF words[s] = "" THEN -5
      ELSE IF ~ NamesState(words[s]) THEN -6
      ELSE 0

\* mmuko_semverx_parse: the first error, or 0.
ParseError(words) ==
  LET wrong == {i \in 1 .. 3 : PartError(words, i) # 0}
  IN  IF wrong # {} THEN PartError(words, CHOOSE i \in wrong : \A j \in wrong : i <= j)
      ELSE IF Len(words) > 6 THEN -8
      ELSE 0

Parsed(words, number) ==
  VersionOf(number[words[1]], ParseState(words[2]), number[words[3]], ParseState(words[4]),
            number[words[5]], ParseState(words[6]))

\* SemVerX::parse
RustParses(words) ==
  /\ Len(words) = 6
  /\ \A i \in {1, 3, 5} : RustReadsU16(words[i])
  /\ \A i \in {2, 4, 6} : NamesState(words[i])

\* parse_compact: three numbers, and one state for all of them after a dash;
\* channel = "" is a string without a dash, or with nothing after it.
CompactParses(words, channel) ==
  /\ NamesState(channel)
  /\ Len(words) = 3
  /\ \A i \in 1 .. 3 : RustReadsU16(words[i])

Compact(words, channel) ==
  LET number == RustNumerals
      state  == ParseState(channel)
  IN  VersionOf(number[words[1]], state, number[words[2]], state, number[words[3]], state)

\* mmuko_semverx_format, and the same words in mmuko_semverx_encode.
Format(v) ==
  <<Decimal(v.major), StateName[v.majorState], Decimal(v.minor),
    StateName[v.minorState], Decimal(v.patch), StateName[v.patchState]>>

\* The length of the text of six words, with the dots between them.
TextLen(words) ==
  Len(words[1]) + Len(words[2]) + Len(words[3]) + Len(words[4]) + Len(words[5]) + Len(words[6])
  + 5

\* MMUKO_SEMVERX_STRLEN
StrLen == 64

-----------------------------------------------------------------------------
(* Properties                                                              *)

ReadByC(words)    == IF ParseError(words) = 0 THEN {Parsed(words, Numerals)} ELSE {}
ReadByRust(words) == IF RustParses(words) THEN {Parsed(words, RustNumerals)} ELSE {}
ReadCompact(t)    == IF CompactParses(t.words, t.channel) THEN {Compact(t.words, t.channel)} ELSE {}

Loose(word) == word \in DOMAIN Signed \/ Len(word) > 5

\* A version read from any of the three dialects is printed as a text that fits
\* its buffer and that both parsers read as the same version.  The C parser
\* reads what the Rust parser reads, the same way, but for numbers with a sign
\* or with more than five digits.
VersionTextRoundTrips ==
  LET words == given.words
  IN  /\ \A v \in ReadByC(words) \union ReadByRust(words) \union ReadCompact(given) :
           /\ ReadByC(Format(v)) = {v} /\ ReadByRust(Format(v)) = {v}
           /\ TextLen(Format(v)) < StrLen
      /\ ReadByC(words) \subseteq ReadByRust(words)
      /\ ReadByC(words) # ReadByRust(words) => \E i \in {1, 3, 5} : Loose(words[i])
=============================================================================
