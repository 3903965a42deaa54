---------------------------- MODULE MCRemoteTree ----------------------------
(* Five keys, the fewest with which the lowest successor of a node that is *)
(* deleted lies deeper than its child and has a child of its own; the      *)
(* empty text and another.                                                 *)
EXTENDS RemoteTree, TLC

MCStrings == 1 .. 5
MCBytes == {0, 1}
MCTexts == {<<>>, <<1>>}
NodeSymmetry == Permutations(Nodes)
=============================================================================
