-------------------------------- MODULE Canon --------------------------------
(***************************************************************************)
(* The canonical encoder (src/mmuko_abi.c, and again fingerprint.rs), and  *)
(* the module fingerprint folded from it (mmuko_desc_fingerprint of        *)
(* src/mmuko_desc.c).                                                      *)
(*                                                                         *)
(* The encoder walks an export and appends pieces of text to a buffer of   *)
(* fixed capacity, or refuses.  The C buffer ends in a NUL, the Rust       *)
(* buffer does not.  Here both are filled side by side, a piece at a step. *)
(*                                                                         *)
(* A type is [code, size, align, nfields, fields]; fields = <<>> is the    *)
(* NULL pointer.  The digest of a text is modelled by the text, so two     *)
(* texts never collide; XOR of digests is symmetric difference.            *)
(***************************************************************************)
EXTENDS Integers, SequencesExt

CONSTANTS
  CanonMax,    \* MMUKO_CANON_MAX and CANON_MAX: 4096
  MaxDepth,    \* MMUKO_TYPE_MAX_DEPTH: 8
  MaxArgs,     \* MMUKO_MAX_ARGS: 32
  Exports,     \* exports encoded: [symbol, sig, arch]
  Tables       \* module tables: [name, arch, version, exports]

VARIABLES
  export,      \* the export being encoded
  todo,        \* the pieces the encoder has still to append
  buffer,      \* both buffers, [text, overflow]
  table        \* the module table being fingerprinted

canonVars == <<export, todo, buffer, table>>

NullType == [code |-> "NULL", size |-> 0, align |-> 0, nfields |-> 0, fields |-> <<>>]
NullSig  == [cc |-> "none", ret |-> NullType, nargs |-> 0, args |-> <<>>, variadic |-> FALSE]

\* mmuko_typecode_token: the scalars.
Token ==
  [Void |-> "v", Bool |-> "b8", I8 |-> "i8", U8 |-> "u8", I16 |-> "i16", U16 |-> "u16",
   I32 |-> "i32", U32 |-> "u32", I64 |-> "i64", U64 |-> "u64", F32 |-> "f32", F64 |-> "f64",
   Ptr |-> "ptr", CStr |-> "cstr"]

Opening == [Struct |-> "S{", Union |-> "U{", Enum |-> "E{"]

\* mmuko_cc_name; every other value is refused.
CcName == [Cdecl |-> "cdecl", Stdcall |-> "stdcall", Fastcall |-> "fastcall",
           Syscall |-> "syscall"]

Put(text) == [text |-> text, refused |-> FALSE]
Refusal   == [text |-> "", refused |-> TRUE]

-----------------------------------------------------------------------------
(* What is appended                                                        *)

RECURSIVE TypePieces(_, _)

FieldPieces(t, depth) ==
  FlattenSeq([i \in 1 .. t.nfields |->
                (IF i > 1 THEN <<Put(",")>> ELSE <<>>) \o TypePieces(t.fields[i], depth + 1)])

\* What encode_type refuses by itself: NULL, nesting too deep, an unknown code, a
\* scalar with fields, an aggregate that was not measured or has no field table.
TypeRefused(t, depth) ==
  \/ t = NullType
  \/ depth > MaxDepth
  \/ t.code \notin DOMAIN Token \union DOMAIN Opening
  \/ t.code \in DOMAIN Token /\ (t.nfields # 0 \/ t.fields # <<>>)
  \/ t.code \in DOMAIN Opening /\ (t.size = 0 \/ t.align = 0)
  \/ t.code \in DOMAIN Opening /\ t.nfields > 0 /\ t.fields = <<>>

\* Mutant: an aggregate is encoded by its fields alone.
TypePiecesWithoutLayout(t, depth) ==
  IF TypeRefused(t, depth) THEN <<Refusal>>
  ELSE IF t.code \in DOMAIN Token THEN <<Put(Token[t.code])>>
  ELSE <<Put(Opening[t.code])>> \o FieldPieces(t, depth) \o <<Put("}")>>

\* encode_type
TypePieces(t, depth) ==
  IF TypeRefused(t, depth) THEN <<Refusal>>
  ELSE IF t.code \in DOMAIN Token THEN <<Put(Token[t.code])>>
  ELSE <<Put(Opening[t.code]), Put("sz="), Put(ToString(t.size)), Put(",al="),
         Put(ToString(t.align)), Put(":")>>
       \o FieldPieces(t, depth) \o <<Put("}")>>

ArgPieces(sig, i) ==
  <<Put("|P"), Put(ToString(i - 1)), Put("=")>>
  \o (IF sig.args[i].code = "Void" THEN <<Refusal>> ELSE TypePieces(sig.args[i], 0))

\* mmuko_encode_signature.  The other flags of a function are not encoded.
SignaturePieces(sig, arch) ==
  IF \/ sig = NullSig \/ arch \notin {32, 64} \/ sig.nargs > MaxArgs
     \/ sig.nargs > 0 /\ sig.args = <<>>
     \/ sig.cc \notin DOMAIN CcName
  THEN <<Refusal>>
  ELSE <<Put("MMUKOABI/1"), Put("|A="), Put(ToString(arch)),
         Put("|CC="), Put(CcName[sig.cc]), Put("|R=")>>
       \o TypePieces(sig.ret, 0)
       \o <<Put("|N="), Put(ToString(sig.nargs))>>
       \o FlattenSeq([i \in 1 .. sig.nargs |-> ArgPieces(sig, i)])
       \o <<Put("|V="), Put(IF sig.variadic THEN "1" ELSE "0")>>

\* mmuko_fp_export
ExportPieces(e) ==
  IF e.symbol = "" THEN <<Refusal>>
  ELSE <<Put("SYM="), Put(e.symbol), Put("|")>> \o SignaturePieces(e.sig, e.arch)

-----------------------------------------------------------------------------
(* The buffers                                                             *)

\* The longest text each buffer holds.
Limit == [c |-> CanonMax - 1, rust |-> CanonMax]

\* Mutant: a piece that does not fit is left out.
AppendSkipping(b, text, limit) ==
  IF Len(b.text) + Len(text) > limit THEN b ELSE [b EXCEPT !.text = @ \o text]

\* mmuko_buf_putn and mmuko_buf_putc: the overflow is sticky.
AppendText(b, text, limit) ==
  IF b.overflow THEN b
  ELSE IF Len(b.text) + Len(text) > limit THEN [b EXCEPT !.overflow = TRUE]
  ELSE [b EXCEPT !.text = @ \o text]

Empty == [text |-> "", overflow |-> FALSE]

NoExport == [symbol |-> "", sig |-> NullSig, arch |-> 0]
NoTable  == [name |-> "", arch |-> 0, version |-> "", exports |-> <<>>]

CanonInit ==
  /\ buffer = [impl \in {"c", "rust"} |-> Empty]
  /\ \/ /\ export \in Exports
        /\ todo = ExportPieces(export)
        /\ table = NoTable
     \/ /\ table \in Tables
        /\ export = NoExport /\ todo = <<>>

CanonIdle ==
  /\ buffer = [impl \in {"c", "rust"} |-> Empty]
  /\ export = NoExport /\ todo = <<>> /\ table = NoTable

Encoding == todo # <<>> /\ ~ Head(todo).refused

PutPiece ==
  /\ Encoding
  /\ buffer' = [impl \in DOMAIN buffer |->
                  AppendText(buffer[impl], Head(todo).text, Limit[impl])]
  /\ todo' = Tail(todo)
  /\ UNCHANGED <<export, table>>

Encoded(impl) == todo = <<>> /\ ~ buffer[impl].overflow

-----------------------------------------------------------------------------
(* The module fingerprint                                                  *)

RECURSIVE Concat(_)
Concat(pieces) == IF pieces = <<>> THEN "" ELSE Head(pieces).text \o Concat(Tail(pieces))

\* The text of an export that fits; "" for one that is refused.
ExportText(e) ==
  LET pieces == ExportPieces(e)
      text   == Concat(pieces)
  IN  IF (\E i \in DOMAIN pieces : pieces[i].refused) \/ Len(text) > Limit.c THEN "" ELSE text

Xor(A, B) == (A \ B) \union (B \ A)

\* Mutant: the fold takes the signatures without the symbols.
FoldingSignatures(t) ==
  FoldLeft(LAMBDA acc, e : Xor(acc, {Concat(SignaturePieces(e.sig, t.arch))}), {}, t.exports)

Folding(t) ==
  FoldLeft(LAMBDA acc, e : Xor(acc, {ExportText([e EXCEPT !.arch = t.arch])}), {}, t.exports)

Header(t) == "MOD=" \o t.name \o "|A=" \o ToString(t.arch) \o "|V=" \o t.version

\* mmuko_desc_fingerprint: the empty set when an export is refused.
ModuleFp(t) ==
  IF \E i \in DOMAIN t.exports : ExportText([t.exports[i] EXCEPT !.arch = t.arch]) = ""
  THEN {} ELSE Xor({Header(t)}, Folding(t))

-----------------------------------------------------------------------------
(* Properties                                                              *)

\* What the encoding is the identity of: the parts of the descriptors that
\* reach the machine.  The size and the alignment of a scalar do not.
RECURSIVE Layout(_)
Layout(t) ==
  IF t.code \in DOMAIN Token THEN <<t.code>>
  ELSE <<t.code, t.size, t.align>> \o [i \in 1 .. t.nfields |-> Layout(t.fields[i])]

Contract(e) ==
  <<e.symbol, e.arch, e.sig.cc, Layout(e.sig.ret),
    [i \in 1 .. e.sig.nargs |-> Layout(e.sig.args[i])], e.sig.variadic>>

RECURSIVE SoundType(_, _)
SoundType(t, depth) ==
  /\ depth <= MaxDepth
  /\ \/ t.code \in DOMAIN Token /\ t.nfields = 0 /\ t.fields = <<>>
     \/ /\ t.code \in DOMAIN Opening /\ t.size > 0 /\ t.align > 0
        /\ t.nfields <= Len(t.fields)
        /\ \A i \in 1 .. t.nfields : SoundType(t.fields[i], depth + 1)

Representable(e) ==
  /\ e.symbol # "" /\ e.arch \in {32, 64}
  /\ e.sig.cc \in DOMAIN CcName /\ SoundType(e.sig.ret, 0)
  /\ e.sig.nargs <= MaxArgs /\ e.sig.nargs <= Len(e.sig.args)
  /\ \A i \in 1 .. e.sig.nargs : SoundType(e.sig.args[i], 0) /\ e.sig.args[i].code # "Void"

Texts     == [e \in Exports |-> ExportText(e)]
Contracts == [e \in {x \in Exports : Texts[x] # ""} |-> Contract(e)]

\* Two exports have the same canonical text if and only if they are the same
\* contract: nothing the machine can tell apart is left out, and no two
\* sequences of pieces run together into one text.
EncodingIdentifiesContract ==
  export # NoExport /\ Encoded("c") =>
    \A e \in Exports : Texts[e] # "" =>
      (Texts[e] = buffer["c"].text <=> Contracts[e] = Contracts[export])

\* An export is encoded whole or refused: it is refused exactly when it is
\* malformed or its text is longer than the buffer, never cut short.  The two
\* implementations therefore differ on the texts of exactly CanonMax bytes.
EncodedWholeOrRefused ==
  export # NoExport /\ ~ Encoding =>
    LET whole == Concat(ExportPieces(export))
    IN  \A impl \in DOMAIN buffer :
          /\ Encoded(impl) <=> Representable(export) /\ Len(whole) <= Limit[impl]
          /\ Encoded(impl) => buffer[impl].text = whole

Sound(t) ==
  /\ \A i \in DOMAIN t.exports : Representable([t.exports[i] EXCEPT !.arch = t.arch])
  /\ \A i, j \in DOMAIN t.exports : t.exports[i].symbol = t.exports[j].symbol => i = j

Surface(t) ==
  <<t.name, t.arch, t.version,
    {Contract([t.exports[i] EXCEPT !.arch = t.arch]) : i \in DOMAIN t.exports}>>

\* The fingerprint of a module identifies what it offers, in whatever order:
\* the XOR of the exports cancels nothing in a table without duplicate symbols.
ModuleFpIdentifiesSurface ==
  table # NoTable /\ Sound(table) =>
    \A t \in Tables : Sound(t) => (ModuleFp(t) = ModuleFp(table) <=> Surface(t) = Surface(table))
=============================================================================
