---------------------------- MODULE MCKernelBind ----------------------------
(* KernelBind on small instances: two sessions in turn, two callers of       *)
(* Close for each, and a bind that is opened twice.                         *)
EXTENDS KernelBind
=============================================================================
