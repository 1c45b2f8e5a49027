--------------------------- MODULE MCCallProtocol ---------------------------
(* Small instances of CallProtocol: one function of every signature shape   *)
(* the splicer treats differently.                                          *)
EXTENDS CallProtocol, TLC

\* 0: (by value) -> return area   1: () -> single value   2: (pointer) -> ()
MCFn == 0..2
MCFlatParams == {0}
MCRetArea == {0}
MCSingular == {1}

AddressSymmetry == Permutations(Block)
=============================================================================
