------------------------------ MODULE MCBuffer ------------------------------
(* Model-checking instance of Buffer: a 2-byte file, two bytes a line,    *)
(* pastes of nothing, of either byte, once or twice, a rope of at most 3   *)
(* bytes and two history entries: enough for undo, redo, undo twice, and   *)
(* a new edit after an undo that must clear the redo side, with moves and  *)
(* extends between every two of them.                                      *)
EXTENDS Buffer

MCInitLens == {2}
MCCounts   == {1, 2}
MCRegisters == {<< >>, <<0>>, <<1>>}

=============================================================================
