------------------------------ MODULE MCPager ------------------------------
(* Model-checking instance of Pager: a 16-byte file, two bytes a line,     *)
(* a terminal of 4 rows (chunk = 6 bytes, trim threshold 18) that        *)
(* the user may shrink to 3 rows (chunk 4) and grow back, one Resize event *)
(* pending at a time, and a one-line scroll load: the ratios of the        *)
(* 16 x 22 x 64 defaults.                                                   *)
EXTENDS Pager

MCFileLen  == 16
MCBpl      == 2
MCHeights  == {3, 4}
MCLoadSize == 2

=============================================================================
