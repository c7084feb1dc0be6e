------------------------------ MODULE MCDs5Link ------------------------------
(***************************************************************************)
(* Instances of Ds5Link for TLC.                                           *)
(***************************************************************************)
EXTENDS Ds5Link, TLC

(* Controllers differ only in their addresses.                              *)
Symmetry == Permutations(Devices)

=============================================================================
