------------------------------- MODULE AbiDump -------------------------------
(***************************************************************************)
(* mmuko-abi-dump (src/tools/mmuko_abi_dump.c): what a maintainer asks     *)
(* before publishing an object.  Given two objects it answers, symbol by   *)
(* symbol, whether a caller compiled against the first binds to the        *)
(* second, and its exit code is the answer for all of them.                *)
(*                                                                         *)
(* The tool keeps no state.  What it foresees is compared here with what   *)
(* the loader does when the second object is published under a running     *)
(* caller.  The listing of a table is left out.                            *)
(***************************************************************************)
EXTENDS Loader

\* open_table: an object that tells its table, whichever its profile.
HasTable(object) == Content[object].query /\ Validate(Content[object].table, 0) = "OK"

\* Mutant: the probe is filled from the old export.
ProbeOfOld(old, new) == [old EXCEPT !.address = Trap]

\* The new export with the tool's own function for an address; any function
\* that is not NULL does, for it is never called.
Probe(old, new) == [new EXCEPT !.address = Trap]

\* compare: the policy judges the shape, not the deployment.
JudgePolicy(table) == [arch |-> table.arch, mask |-> MaskAny]

\* compare, for one export of table a.
Fate(a, b, symbol) ==
  LET old    == Find(a, symbol)
      new    == Find(b, symbol)
      judged == SwapNode(InitNode(old), Probe(old, new), JudgePolicy(a), TRUE)
  IN  IF new = NoDesc THEN "REMOVED"
      ELSE IF judged.state = "BOUND" THEN "COMPATIBLE" ELSE judged.fault

\* compare's result
Breaking(a, b) == \E s \in Exported(a) : Fate(a, b, s) # "COMPATIBLE"

\* main, for one object or two.
ExitCode(objects) ==
  IF \E k \in DOMAIN objects : ~ HasTable(objects[k]) THEN 1
  ELSE IF Len(objects) = 2 /\ Breaking(Content[objects[1]].table, Content[objects[2]].table)
       THEN 1 ELSE 0

-----------------------------------------------------------------------------
(* Properties                                                              *)

\* The reload a module last returned from went through.
Replaced(m) ==
  /\ op[m].pc = "idle" /\ op[m].call = "reload" /\ op[m].result \in {"OK", "E_UNBOUND"}
  /\ before[m].provided # Null

\* What the tool foresees is what a reload does to every slot that was bound.
\* A symbol it calls compatible stays bound, whatever version of it the caller
\* was compiled against, unless the new object does not link it or the policy
\* refuses its state; a symbol it calls removed, or of another shape, is let go
\* of.  And no bound slot is lost for any other reason when it exits with 0.
FateIsForeseen ==
  \A m \in Modules : Replaced(m) =>
    LET old == maps[before[m].provided].object
        new == maps[mod[m].provided].object
    IN  \A i \in DOMAIN mod[m].slots :
          before[m].slots[i].state = "BOUND" =>
            LET symbol  == mod[m].slots[i].u1.symbol
                fate    == Fate(Content[old].table, Content[new].table, symbol)
                stays   == mod[m].slots[i].state = "BOUND"
                refused == \/ symbol \notin Content[new].linked
                           \/ mod[m].slots[i].fault = "STATE"
            IN  /\ fate = "COMPATIBLE" => stays \/ refused
                /\ fate \in {"REMOVED", "FINGERPRINT", "CC"} => ~ stays
                /\ ExitCode(<<old, new>>) = 0 => stays \/ refused
=============================================================================
