---------------------------- MODULE SearchPrompt ----------------------------
(***************************************************************************)
(* The search prompt renderer (view.rs, the StatusLinePrompter impl for   *)
(* Search): render_with_size(stdout, size.0, last_visible_prompt_col)     *)
(* after every event while the mode is Search.  The Search mode itself is *)
(* in search.rs, outside the tree; only its fields are read here: the     *)
(* pattern pieces, the cursor (a piece index, at most the piece count)    *)
(* and the hex flag.                                                       *)
(*                                                                         *)
(* Only the column arithmetic is kept.  A piece is one of four kinds,     *)
(* which decide its width in text mode: a printable ASCII byte or a space *)
(* is drawn as itself (1 column), any other byte as "<xx>" (4), a         *)
(* wildcard as "*" (1).  In hex mode every piece takes 3 columns ("xx ").  *)
(* Pieces are indexed from 0 as in the code.  The result records the new  *)
(* start column, the pieces drawn, and a panic kind: usize underflow      *)
(* (debug build only), a slice range out of order, or the unwrap of       *)
(* Iterator::position returning None.                                      *)
(***************************************************************************)
EXTENDS Integers, Sequences, SequencesExt

CONSTANTS
    SearchCols,  \* terminal widths the search prompt is drawn on
    MaxPieces    \* bound on the pieces of a pattern

ASSUME SearchCols \subseteq Nat /\ MaxPieces \in Nat

PieceKinds == {"graphic", "space", "other", "wild"}

\* The width of a piece in the text prompt (the map over pieces).
PieceCols(k) == IF k = "other" THEN 4 ELSE 1

\* The sum of the widths of pieces lo .. hi - 1.
ColsOf(ps, lo, hi) == FoldSeq(LAMBDA k, acc : PieceCols(k) + acc, 0, SubSeq(ps, lo + 1, hi))

\* Variant without the clamp to the cursor.
SearchStartNoCursorClamp(len, cur, last) ==
    IF len <= last THEN (IF len >= 1 THEN len - 1 ELSE 0) ELSE last

\* "Make sure start_column is between self.cursor and the length".
SearchStart(len, cur, last) ==
    IF len <= last THEN (IF len >= 1 THEN len - 1 ELSE 0)
    ELSE IF cur < last THEN cur ELSE last

\* A terminal narrower than "search:" makes max_width wrap in a release
\* build: a width wider than any pattern of MaxPieces pieces stands for it.
Wrapped == 4 * MaxPieces + 8

\* The hex prompt: max_width / 3 pieces, scrolled so the cursor is in them.
RenderHex(ps, cur, s1, mw, bld) ==
    LET q  == mw \div 3
        s2 == IF cur >= s1 + q THEN cur - q + 1 ELSE s1
        lb == IF Len(ps) <= s2 + q THEN Len(ps) ELSE s2 + q
    IN  [col   |-> s2,
         shown |-> s2 .. lb - 1,
         fault |-> CASE s2 > lb                      -> "slice_range"
                     [] cur < s2 /\ bld = "debug"  -> "underflow"
                     [] OTHER                        -> "none"]

\* The text prompt: if the pieces before the cursor are wider than the
\* prompt, drop the first pieces until the excess is used up (position
\* stops at the first piece reached with no excess left), then draw pieces
\* while they fit.  A cursor left of the start column underflows
\* (lengths[..cursor - start_column]); in a release bld the wrapped
\* index is past the end of lengths.
RenderText(ps, cur, s1, mw0, bld) ==
    LET d      == IF cur = Len(ps) THEN 1 ELSE 0   \* room for the end cursor
        mw     == IF mw0 >= d THEN mw0 - d ELSE Wrapped
        need   == ColsOf(ps, s1, cur)
        n      == Len(ps) - s1
        done   == {j \in 0 .. n - 1 : need - mw - ColsOf(ps, s1, s1 + j) <= 0}
        s2     == IF need > mw /\ done # {} THEN s1 + Min(done) ELSE s1
        fits   == {m \in 0 .. Len(ps) - s2 : ColsOf(ps, s2, s2 + m) <= mw}
    IN  [col   |-> s2,
         shown |-> s2 .. s2 + Max(fits) - 1,
         fault |-> CASE mw0 < d /\ bld = "debug"  -> "underflow"
                     [] cur < s1 /\ bld = "debug" -> "underflow"
                     [] cur < s1                     -> "slice_range"
                     [] need > mw /\ done = {}       -> "unwrap_none"
                     [] cur < s2 /\ bld = "debug" -> "underflow"
                     [] OTHER                        -> "none"]

\* render_with_size for the Search mode, returning the new
\* last_visible_prompt_col.
RenderSearch(ps, cur, last, cols, hex, bld) ==
    LET mw0 == IF cols >= 7 THEN cols - 7 ELSE Wrapped   \* "search:"
        s1  == SearchStart(Len(ps), cur, last)
    IN  IF cols < 7 /\ bld = "debug"
        THEN [col |-> last, shown |-> {}, fault |-> "underflow"]
        ELSE IF hex THEN RenderHex(ps, cur, s1, mw0, bld)
        ELSE RenderText(ps, cur, s1, mw0, bld)

=============================================================================
