----------------------------- MODULE Selection -----------------------------
(***************************************************************************)
(* The selection algebra: a region is a record [caret, tail] of byte       *)
(* offsets into the rope, a selection is a non-empty sequence of regions   *)
(* with the index of the main one.                                         *)
(*                                                                         *)
(* selection.rs is not part of the source tree that is modelled here, so   *)
(* every operator of this module is written from the spec's section 4.3   *)
(* (the region operations and the set operations on the selection         *)
(* container).  The callers under src/ (map_selections, remove_selection, *)
(* retain_selection, select_next, ...) are modelled in the modules that    *)
(* use these operators.                                                    *)
(***************************************************************************)
EXTENDS Integers, Sequences, SequencesExt

Directions == {"Left", "Right", "Up", "Down"}

Region(caret, tail) == [caret |-> caret, tail |-> tail]

RegionMin(r) == IF r.caret <= r.tail THEN r.caret ELSE r.tail
RegionMax(r) == IF r.caret <= r.tail THEN r.tail ELSE r.caret

\* Clamp an offset into [0, maxLen].
Clamp(x, maxLen) == IF x < 0 THEN 0 ELSE IF x > maxLen THEN maxLen ELSE x

\* The signed distance a motion of count steps covers, with w bytes a line.
Step(dir, w, count) ==
    CASE dir = "Left"  -> -count
      [] dir = "Right" -> count
      [] dir = "Up"    -> -(count * w)
      [] dir = "Down"  -> count * w

\* simple_move: translate caret and tail, clamped to [0, maxLen].
SimpleMove(r, dir, w, maxLen, count) ==
    Region(Clamp(r.caret + Step(dir, w, count), maxLen),
           Clamp(r.tail + Step(dir, w, count), maxLen))

\* simple_extend: translate the caret only.
SimpleExtend(r, dir, w, maxLen, count) ==
    Region(Clamp(r.caret + Step(dir, w, count), maxLen), r.tail)

\* jump_to(offset) / extend_to(offset): both ends, or the caret only.
RegionJumpTo(r, offset) == Region(offset, offset)
RegionExtendTo(r, offset) == Region(offset, r.tail)

\* The offset jump_to_boundary moves to: the start or end of the caret's
\* line (the end clamped to maxLen), or the top or bottom of the buffer.
Boundary(r, dir, w, maxLen) ==
    LET lineStart == r.caret - (r.caret % w)
    IN  CASE dir = "Left"  -> lineStart
          [] dir = "Right" -> Clamp(lineStart + w - 1, maxLen)
          [] dir = "Up"    -> 0
          [] dir = "Down"  -> maxLen

JumpToBoundary(r, dir, w, maxLen) == RegionJumpTo(r, Boundary(r, dir, w, maxLen))
ExtendToBoundary(r, dir, w, maxLen) == RegionExtendTo(r, Boundary(r, dir, w, maxLen))

\* collapse(): tail := caret.  swap_caret(): exchange them.
RegionCollapse(r) == Region(r.caret, r.caret)
SwapCaret(r) == Region(r.tail, r.caret)

IsForward(r) == r.caret >= r.tail

\* to_forward / to_backward: the region oriented so that caret >= tail
\* (resp. caret <= tail).
ToForward(r) == IF IsForward(r) THEN r ELSE SwapCaret(r)
ToBackward(r) == IF r.caret <= r.tail THEN r ELSE SwapCaret(r)

\* inherit_direction(from): the region r oriented like from.
InheritDirection(r, from) ==
    IF IsForward(from) = IsForward(r) THEN r ELSE SwapCaret(r)

(***************************************************************************)
(* The selection container: a sequence of regions and a 0-based main      *)
(* index, passed around as a record [regions, main].                      *)
(***************************************************************************)
Sel(regions, main) == [regions |-> regions, main |-> main]

\* map_selections(f): out[i] is f of region i, a sequence of regions.  The
\* outputs replace their producers in order, and the main becomes the
\* first output of the old main.  An empty output rejects the transform.
MapSelections(s, out) ==
    LET \* outputs of the regions before region i, in total
        before(i) == Len(FlattenSeq(SubSeq(out, 1, i - 1)))
    IN  IF \E i \in DOMAIN out : out[i] = << >> THEN s
        ELSE Sel(FlattenSeq(out), before(s.main + 1))

\* Variant that subtracts without wrapping around.
SelectPrevNoWrap(s, n) == Sel(s.regions, s.main - n)

SelectNext(s, n) == Sel(s.regions, (s.main + n) % Len(s.regions))
SelectPrev(s, n) == Sel(s.regions, (s.main - n) % Len(s.regions))

\* remove(i): drop region i; a main after it moves down with its region,
\* a removed main becomes min(i, new_len - 1).  The spec leaves the main
\* of an emptied selection open; it is 0 here.
SelRemove(s, i) ==
    LET rest == RemoveAt(s.regions, i + 1)
    IN  Sel(rest, CASE rest = << >> -> 0
                    [] s.main > i   -> s.main - 1
                    [] s.main = i   -> Min({i, Len(rest) - 1})
                    [] OTHER        -> s.main)

\* retain(i): region i alone, as the main.
SelRetain(s, i) == Sel(<< s.regions[i + 1] >>, 0)

\* select_all(len): one region [0, len - 1].
SelectAll(len) == Sel(<< Region(len - 1, 0) >>, 0)

=============================================================================
