--------------------------- MODULE MCKernelWindow ---------------------------
(* KernelWindow for TLC: three processes, one of which a handler informs.  *)
EXTENDS KernelWindow
=============================================================================
