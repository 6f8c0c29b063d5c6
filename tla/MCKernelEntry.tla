---------------------------- MODULE MCKernelEntry ----------------------------
(* KernelEntry for TLC: the terminal, the driver and a user process that   *)
(* never blocks.  One has more ticks than the others.                      *)
EXTENDS KernelEntry

Priorities == [p \in Proc |-> IF p = TASK_TTY THEN 2 ELSE 1]
=============================================================================
