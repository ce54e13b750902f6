----------------------------- MODULE MCFraming -----------------------------
(* The instance of Framing for TLC: an empty payload, one byte, and one     *)
(* that looks like the start of a legacy header.                            *)
EXTENDS Framing

MCPayloads == {<<>>, <<7>>, <<MAGIC, 0, 0>>}
=============================================================================
