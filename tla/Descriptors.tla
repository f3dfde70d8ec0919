----------------------------- MODULE Descriptors -----------------------------
(***************************************************************************)
(* The export table a shared object publishes (src/mmuko_desc.c).          *)
(*                                                                         *)
(* A table is a record; its exports are a function from symbols, so the    *)
(* order of the entries, which nothing depends on, is left out.  What the  *)
(* function cannot express, two entries for one symbol, is the flag        *)
(* `duplicates`.  magic stands for the magic number and the revision.      *)
(***************************************************************************)
EXTENDS TridentRule

CONSTANTS
  NoTable,     \* a query function that returns NULL
  NoName,      \* a NULL or empty module name
  ModuleNames  \* module names

Table ==
  [magic      : BOOLEAN,
   arch       : {0} \union Profiles,
   name       : ModuleNames \union {NoName},
   version    : Version,
   exports    : [Symbols -> Descriptor \union {NoDesc}],
   duplicates : BOOLEAN]

ASSUME TableNullsAssumption == NoTable \notin Table /\ NoName \notin ModuleNames

Exported(table) == {s \in Symbols : table.exports[s] # NoDesc}

ExportIsSound(e, arch) ==
  e.sig # NoSig /\ Valid(e.since) /\ FpExport(e, arch) # FpZero

\* mmuko_desc_validate.  Its caller tells an architecture refusal from the
\* others and nothing else; expect = 0 (MMUKO_ARCH_NONE) accepts either profile.
Validate(table, expect) ==
  IF table = NoTable THEN "E_TABLE"
  ELSE IF ~ table.magic THEN "E_TABLE"
  ELSE IF table.arch \notin Profiles \/ expect \notin {0, table.arch} THEN "E_ARCH"
  ELSE IF /\ table.name # NoName
          /\ Valid(table.version)
          /\ \A s \in Exported(table) : ExportIsSound(table.exports[s], table.arch)
          /\ ~ table.duplicates
       THEN "OK"
  ELSE "E_TABLE"

\* mmuko_desc_find
Find(table, symbol) ==
  IF symbol \in Symbols THEN table.exports[symbol] ELSE NoDesc
=============================================================================
