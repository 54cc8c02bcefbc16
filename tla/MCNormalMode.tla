---------------------------- MODULE MCNormalMode ----------------------------
(***************************************************************************)
(* NormalMode for TLC: two byte values and a wildcard, 2 bytes a line,    *)
(* the digits 0, 1 and 4 with counts up to 4 (so that 4g passes the end   *)
(* of a 3-byte rope), search patterns of one and two pieces, and at most  *)
(* 3 regions after a search.                                               *)
(***************************************************************************)
EXTENDS NormalMode, TLC

CONSTANTS a, b, w

MCBytes == {a, b}

\* Closed under exchanging a and b, so that the byte values are symmetric.
MCPatterns == {<< >>, << a >>, << b >>, << w >>, << a, w >>, << b, w >>, << w, w >>}

MCSymmetry == Permutations(MCBytes)

\* A rope of 3 bytes, with or without the empty scratch buffer.
MCLengthsNonEmpty == {3}
MCLengthsAll == {0, 3}
=============================================================================
