-------------------------------- MODULE MCBoot --------------------------------
(***************************************************************************)
(* Instances of Images.  The service tables are the kernel's own, the one  *)
(* of its negative test build (kputhex declared with a 64-bit argument),   *)
(* and one for every other way a table can disagree.                       *)
(***************************************************************************)
EXTENDS Images

MCTables ==
  {KernelTable, NegativeTable, NoTable,
   Serves("u32_v", [V1 EXCEPT !.minorState = Beta]),
   [KernelTable EXCEPT !.magic = FALSE],
   [KernelTable EXCEPT !.arch = Arch64],
   [KernelTable EXCEPT !.exports["kputs"] = NoDesc],
   [KernelTable EXCEPT !.exports["kputhex"].address = NoAddress]}

MCTexts == {<<"x", "x", "\n">>, <<"x", "x", "x">>}
=============================================================================
