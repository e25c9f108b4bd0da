------------------------------ MODULE MCVm ------------------------------
(***************************************************************************)
(* Instances of Vm for TLC.                                                *)
(***************************************************************************)
EXTENDS Vm, TLC

\* Sandboxes are told apart only by their names.
VmSymmetry == Permutations(Vms)
=============================================================================
