----------------------------- MODULE MCTreeSkel -----------------------------
(***************************************************************************)
(* TreeSkel and its properties for TLC.  Keys are interchangeable, and so  *)
(* are values: no action and no property names one of them.                *)
(***************************************************************************)
EXTENDS TreeSkelProperties, TLC

DataSymmetry == Permutations(Keys) \cup Permutations(Values)
=============================================================================
