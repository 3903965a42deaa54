----------------------------- MODULE MCFraming -----------------------------
(* Bytes with two values and sizes of three of them: messages that are     *)
(* empty, of one byte, or three and equal to a size, are cut in every way. *)
EXTENDS Framing

MCPayloads == {<<>>, <<1>>, <<0, 1>>, <<0, 1, 0>>}
=============================================================================
