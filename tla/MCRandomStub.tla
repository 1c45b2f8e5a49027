--------------------------- MODULE MCRandomStub ---------------------------
(* RandomStub in an address space of 64 bytes: every length, at every      *)
(* place, the end of the memory included.                                  *)
EXTENDS RandomStub
=============================================================================
