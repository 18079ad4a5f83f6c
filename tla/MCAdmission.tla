---------------------------- MODULE MCAdmission ----------------------------
(***************************************************************************)
(* Admission for TLC.  Nothing in it tells one sandbox from another, and   *)
(* neither its fairness nor the one liveness property names a sandbox: a   *)
(* behaviour and what it becomes by permuting the sandboxes are alike to   *)
(* all that is checked, so that the symmetry is sound here.                *)
(***************************************************************************)
EXTENDS Admission, TLC

Symmetry == Permutations(Sandboxes)
=============================================================================
