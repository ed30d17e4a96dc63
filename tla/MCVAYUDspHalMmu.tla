------------------------- MODULE MCVAYUDspHalMmu -------------------------
(* Memory tables for _VAYUDSP_halMmuEnable: empty, one entry of size 0,    *)
(* which the loop skips, and up to two entries, so that a failed add ends  *)
(* the loop before the last entry.                                         *)
EXTENDS VAYUDspHalMmu

MC_Tables == {<<>>, <<0>>, <<1>>, <<0, 1>>, <<1, 1>>}
=============================================================================
