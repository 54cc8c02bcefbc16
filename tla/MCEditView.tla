----------------------------- MODULE MCEditView -----------------------------
(* Model-checking instance of EditView: a 4-byte file, two bytes a line,  *)
(* a terminal of 3 rows (a screen of 4 bytes, the whole file, and a 4-byte *)
(* first chunk), count 1, a rope of at most 6 bytes, two history entries. *)
EXTENDS EditView

MCHeights == {3}

=============================================================================
