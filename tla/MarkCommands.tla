---------------------------- MODULE MarkCommands ----------------------------
(***************************************************************************)
(* HexView::mark_commands (view.rs), which draw and draw_rows call on the  *)
(* visible byte range to style the selection.  It walks the visible bytes *)
(* once, keeping a stack of styles (the default style at the bottom) and  *)
(* the regions of regions_in_range not yet finished; only the first of    *)
(* them is looked at.  At a byte equal to that region's min the region's  *)
(* selection style is pushed; at its max the byte's end style is the one  *)
(* below the top, command_stack[len - 2], and after the line rules the    *)
(* stack is popped and the region dropped.                                 *)
(*                                                                         *)
(* Only the stack's depth and the pending regions are kept: the styles    *)
(* themselves (colours, caret and half-caret, line starts and ends) never *)
(* change the depth.  A depth below 2 at a region's max is the usize       *)
(* underflow of len - 2 (a debug build) or an index past the end (a        *)
(* release build): a panic either way.                                    *)
(***************************************************************************)
EXTENDS Integers, Sequences, Selection

\* Selection::regions_in_range(a, b): the regions whose [min, max + 1)
\* meets [a, b), in order (selection.rs, spec 4.3).
RegionsInRange(regions, a, b) ==
    SelectSeq(regions, LAMBDA r : RegionMin(r) < b /\ a < RegionMax(r) + 1)

\* The walk over bytes i .. hi - 1 with the stack depth and the pending
\* regions; TRUE when it reaches command_stack[len - 2] with fewer than
\* two styles on the stack.
RECURSIVE MarkFrom(_, _, _, _)
MarkFrom(i, hi, depth, pending) ==
    IF i >= hi \/ pending = << >> THEN FALSE
    ELSE LET r  == Head(pending)
             d1 == IF RegionMin(r) = i THEN depth + 1 ELSE depth
         IN  IF RegionMax(r) = i
             THEN d1 < 2 \/ MarkFrom(i + 1, hi, d1 - 1, Tail(pending))
             ELSE MarkFrom(i + 1, hi, d1, pending)

\* Variant that does not push the style of a region begun before the
\* visible range.
MarkPanicsNoCarry(regions, lo, hi) ==
    MarkFrom(lo, hi, 1, RegionsInRange(regions, lo, hi))

\* mark_commands(lo .. hi) panics: the default style, plus the style of a
\* first region that begins before lo, then the walk.
MarkPanics(regions, lo, hi) ==
    LET pending == RegionsInRange(regions, lo, hi)
        carried == pending # << >> /\ RegionMin(Head(pending)) < lo
    IN  MarkFrom(lo, hi, IF carried THEN 2 ELSE 1, pending)

=============================================================================
