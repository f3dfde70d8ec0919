--------------------------------- MODULE PyCall ---------------------------------
(***************************************************************************)
(* How the compiled shortest_path takes its arguments: the function object *)
(* in _dijkstra.c, the wrapper it calls and the keyword parsing that calls *)
(* for.  Three parameters, each by position or by name, of an exact type   *)
(* or None.                                                                *)
(*                                                                         *)
(* A call is [pos, kw]: the values given by position, and the pairs        *)
(* [name, value] given by name.  A value is its type.                      *)
(*                                                                         *)
(* Call syntax makes a vectorcall, which brings the names as a tuple;      *)
(* shortest_path.__call__ brings a dictionary, which is made a tuple.      *)
(* Only a build without vectorcall hands the wrapper the dictionary, and   *)
(* the wrapper parses the two differently.                                 *)
(***************************************************************************)
EXTENDS Integers, Sequences, FiniteSets

CONSTANTS
  Calls,
  Unbound,
  NotStrings   \* the keys a dictionary may hold that are no strings

IsList(s) == s \in Seq({s[i] : i \in DOMAIN s})

\* Python takes no name twice in a call, and the parsers' mark of a parameter
\* without a value is no value.
ASSUME CallsAssumption ==
  /\ Unbound \notin {"dict", "str", "None"}
  /\ NotStrings \cap {"graph", "start", "target"} = {}
  /\ \A c \in Calls :
       /\ IsList(c.pos) /\ IsList(c.kw)
       /\ \A k, l \in DOMAIN c.kw : c.kw[k].name = c.kw[l].name => k = l

VARIABLE call

CallInit == call \in Calls
CallIdle == call = [pos |-> <<>>, kw |-> <<>>]

CallSpec == CallInit /\ [][UNCHANGED call]_call

Params    == <<"graph", "start", "target">>
ParamType == <<"dict", "str", "str">>

\* The switch on the number of positional arguments.
Positional(c) == [i \in 1 .. 3 |-> IF i <= Len(c.pos) THEN c.pos[i] ELSE Unbound]

\* The parameters left to be given by name, first_kw_arg and after.
ByName(c) == {i \in 1 .. 3 : i > Len(c.pos)}

\* Mutant: every parameter may be given by name.
MatchesAny(c, name) == {i \in 1 .. 3 : Params[i] = name}

\* MatchKeywordArg: the parameter a keyword names, if it is not given already.
Matches(c, name) == {i \in ByName(c) : Params[i] = name}

\* ParseKeywordsTuple: every keyword must match.
TupleRefused(c) == \E k \in DOMAIN c.kw : Matches(c, c.kw[k].name) = {}

TupleValues(c) ==
  [i \in 1 .. 3 |->
     IF \E k \in DOMAIN c.kw : i \in Matches(c, c.kw[k].name)
     THEN c.kw[CHOOSE k \in DOMAIN c.kw : i \in Matches(c, c.kw[k].name)].value
     ELSE Positional(c)[i]]

\* ParseKeywordDict: the parameters left are looked up, and counted.
Extracted(c) == {i \in ByName(c) : \E k \in DOMAIN c.kw : c.kw[k].name = Params[i]}

\* RejectUnknownKeyword, if any keyword was not extracted.
DictRefused(c) == Len(c.kw) > Cardinality(Extracted(c))

DictValues(c) ==
  [i \in 1 .. 3 |->
     IF i \in Extracted(c)
     THEN c.kw[CHOOSE k \in DOMAIN c.kw : c.kw[k].name = Params[i]].value
     ELSE Positional(c)[i]]

Missing(values) == \E i \in 1 .. 3 : values[i] = Unbound

\* ArgTypeTest
Accepts(i, value) == value \in {ParamType[i], "None"}

Typed(values) == \A i \in 1 .. 3 : Accepts(i, values[i])

\* The wrapper: what the function is called with, or <<>> for a TypeError.
Wrapped(c, refused, values) ==
  IF \/ c.kw = <<>> /\ Len(c.pos) # 3
     \/ c.kw # <<>> /\ (Len(c.pos) > 3 \/ refused)
     \/ Missing(values) \/ ~ Typed(values)
  THEN <<>> ELSE values

ByTuple(c) == Wrapped(c, TupleRefused(c), TupleValues(c))
ByDict(c)  == Wrapped(c, DictRefused(c), DictValues(c))

-----------------------------------------------------------------------------
(* The function object                                                     *)

\* Mutant: the function is made as if it were a method of a class.
FlagsOfMethod == {"CCLASS"}

\* The flags shortest_path is made with, and those it has in the method table.
Flags     == {}
CallFlags == {"FASTCALL", "KEYWORDS"}

\* A method of an extension type takes its first positional argument as self.
TakesSelf == "CCLASS" \in Flags /\ "STATICMETHOD" \notin Flags

\* CheckArgs, then the wrapper gets what is left.
FastCall(c) ==
  IF ~ TakesSelf THEN ByTuple(c)
  ELSE IF c.pos = <<>> THEN <<>> ELSE ByTuple([c EXCEPT !.pos = Tail(@)])

\* FastCallDict: the keys become the tuple of names, if they are all strings.
FastCallDict(c) ==
  IF \E k \in DOMAIN c.kw : c.kw[k].name \in NotStrings THEN <<>> ELSE FastCall(c)

\* CallMethod in a build without vectorcall, where the flag FASTCALL is VARARGS.
CallMethod(c) == IF "KEYWORDS" \in CallFlags \/ c.kw = <<>> THEN ByDict(c) ELSE <<>>

CallAsMethod(c, vectorcall) ==
  IF vectorcall THEN FastCallDict(c)
  ELSE IF ~ TakesSelf THEN CallMethod(c)
  ELSE IF c.pos = <<>> THEN <<>> ELSE CallMethod([c EXCEPT !.pos = Tail(@)])

-----------------------------------------------------------------------------
(* Properties                                                              *)

\* The arguments of a call that could be those of parameter i.
Given(c, i) ==
  {c.pos[k] : k \in {i} \cap DOMAIN c.pos}
  \union {c.kw[k].value : k \in {x \in DOMAIN c.kw : c.kw[x].name = Params[i]}}

Suppliers(c) == Len(c.pos) + Len(c.kw)

\* By whichever way a call comes, the function is called exactly when every
\* parameter is given once, with a value it accepts, and nothing else is given;
\* and every parameter gets the value meant for it.
ArgumentsAreBound ==
  LET good   == /\ Suppliers(call) = 3
                /\ \A i \in 1 .. 3 : \E v \in Given(call, i) : Accepts(i, v)
      values == [i \in 1 .. 3 |-> CHOOSE v \in Given(call, i) : TRUE]
      taken  == IF good THEN values ELSE <<>>
  IN  /\ FastCall(call) = taken
      /\ \A vectorcall \in BOOLEAN : CallAsMethod(call, vectorcall) = taken
=============================================================================
