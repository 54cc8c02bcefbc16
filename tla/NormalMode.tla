----------------------------- MODULE NormalMode -----------------------------
(***************************************************************************)
(* Normal mode's key handlers on the selection (modes/normal.rs, struct   *)
(* Normal and its Mode::transition), with the count prefix, the JumpTo    *)
(* mode that g and G enter (modes/jumpto.rs), and collapse-by-search      *)
(* (s, then a pattern, then Enter: modes/collapse.rs, apply_search).      *)
(*                                                                         *)
(* One buffer, whose rope does not change: edits and paging are the        *)
(* subject of other modules.  A byte is a member of Bytes.  The selection *)
(* is the record [regions, main] of module Selection.  cmd_count, the     *)
(* search mode and Pattern::map_selections_to_matches are not in the      *)
(* source tree; they are written from the spec (sections 4.6 and 4.3).    *)
(*                                                                         *)
(* After every handler the event loop redraws: maybe_update_offset and    *)
(* the statusline read selection.main_cursor_offset() when the rope is    *)
(* not empty, which indexes an empty region vector.  A panic ends the     *)
(* program: panic records its kind and nothing follows it.                *)
(***************************************************************************)
EXTENDS Integers, Sequences, SequencesExt, Selection, MarkCommands

CONSTANTS
    Lengths,   \* the rope lengths the buffer may have
    Bytes,     \* the byte values
    Wild,      \* the wildcard piece of a search pattern
    Bpl,       \* bytes_per_line
    Digits,    \* the digit keys the user may type
    MaxCount,  \* bound on the count prefix
    Patterns,  \* the search patterns the user may type
    MaxRegions \* bound on the regions a search may leave

ASSUME Lengths \subseteq Nat /\ Bpl \in Nat \ {0} /\ Digits \subseteq 0 .. 9
ASSUME Wild \notin Bytes /\ Patterns \subseteq Seq(Bytes \cup {Wild})

VARIABLES
    rope,     \* CurrentBuffer.data
    sel,      \* CurrentBuffer.selection, [regions, main]
    count,    \* Normal.count_state: NoCount, or the count typed so far
    mode,     \* "Normal", "JumpTo" or "ExtendTo" (JumpTo{extend}), or
              \* "Away": Insert, Replace, Split or Command mode
    panic     \* "none", or the kind of panic that ended the program

vars == <<rope, sel, count, mode, panic>>

\* cmd_count::State::None
NoCount == -1

\* cmd_count::State::to_count(): the count, or 1 without one.
ToCount(c) == IF c = NoCount THEN 1 ELSE c

\* A digit typed in Normal mode (cmd_count's transition to Update).
AppendDigit(c, d) == IF c = NoCount THEN d ELSE c * 10 + d

Live == panic = "none"

(***************************************************************************)
(* Pattern::map_selections_to_matches: the matches of a pattern within a  *)
(* region, as the ranges [start, end) in increasing order, scanning every *)
(* p in [min, max - len + 2).  A literal piece matches the byte at p + i; *)
(* a wildcard matches any position.                                       *)
(***************************************************************************)
PieceMatches(piece, p) ==
    piece = Wild \/ (0 <= p /\ p < Len(rope) /\ rope[p + 1] = piece)

MatchesAt(pat, p) == \A i \in 1 .. Len(pat) : PieceMatches(pat[i], p + i - 1)

RECURSIVE ScanFrom(_, _, _)
ScanFrom(pat, p, hi) ==
    IF p >= hi THEN << >>
    ELSE (IF MatchesAt(pat, p) THEN << [start |-> p, end |-> p + Len(pat)] >>
          ELSE << >>) \o ScanFrom(pat, p + 1, hi)

MatchesIn(pat, r) == ScanFrom(pat, RegionMin(r), RegionMax(r) - Len(pat) + 2)

\* apply_search's region for a match: SelRegion::new(start, end - 1)
\* oriented like the region it was found in.
MatchRegion(m, base) == InheritDirection(Region(m.end - 1, m.start), base)

(***************************************************************************)
(* CurrentBuffer::map_selections: the DirtyBytes::ChangeInPlace that a    *)
(* handler hands to the view.  For each region it pushes the range of the *)
(* region, then the ranges of the regions f made of it; the ranges are    *)
(* sorted by start and merged while the last kept range contains the next *)
(* start.  Ranges are xi-rope Intervals [start, end).                     *)
(***************************************************************************)
\* Interval::from(min..=max)
RegionRange(r) == [start |-> RegionMin(r), end |-> RegionMax(r) + 1]

PushedRanges(regions, outs) ==
    FlattenSeq([i \in 1 .. Len(regions) |->
                  << RegionRange(regions[i]) >>
                    \o [j \in 1 .. Len(outs[i]) |-> RegionRange(outs[i][j])]])

\* Interval::contains and Interval::union.
IvContains(iv, p) == iv.start <= p /\ p < iv.end

\* Variant of union that keeps the start of the first and the end of the
\* second interval.
IvUnionLastEnd(a, b) == [start |-> a.start, end |-> b.end]

IvUnion(a, b) == [start |-> IF a.start <= b.start THEN a.start ELSE b.start,
                  end   |-> IF a.end >= b.end THEN a.end ELSE b.end]

RECURSIVE MergeRanges(_, _)
MergeRanges(kept, rs) ==
    IF rs = << >> THEN kept
    ELSE IF kept # << >> /\ IvContains(Last(kept), Head(rs).start)
         THEN MergeRanges([kept EXCEPT ![Len(kept)] = IvUnion(Last(kept), Head(rs))], Tail(rs))
         ELSE MergeRanges(Append(kept, Head(rs)), Tail(rs))

InvalidatedRanges(regions, outs) ==
    MergeRanges(<< >>, SortSeq(PushedRanges(regions, outs), LAMBDA x, y : x.start < y.start))

(***************************************************************************)
(* The handlers' common tail.  Apply gives the new selection, count and    *)
(* mode; the redraw that follows panics on an empty selection: on a       *)
(* non-empty rope main_cursor_offset() (maybe_update_offset, statusline)  *)
(* indexes the empty vector, and on the empty rope draw_rows draws row 0, *)
(* which reaches the end of the rope, and overflow_sel_style() unwraps    *)
(* the last region.  Handlers that only change the mode keep a selection  *)
(* that is not empty.                                                     *)
(***************************************************************************)
RedrawPanics(s) == s.regions = << >>

Apply(s, c, m) ==
    /\ sel' = s /\ count' = c /\ mode' = m
    /\ panic' = IF RedrawPanics(s) THEN "empty_selection" ELSE panic
    /\ UNCHANGED rope

\* A handler that returns DirtyBytes::ChangeInPlace: transition_dirty_bytes
\* redraws the invalidated rows with draw_rows, whose mark_commands walks
\* the visible bytes.  The rope is taken to fit on the screen, so the
\* visible range is [0, len + 1) (visible_bytes with start_offset 0).
ApplyDirty(s, c, m) ==
    /\ sel' = s /\ count' = c /\ mode' = m
    /\ panic' = CASE RedrawPanics(s)                          -> "empty_selection"
                  [] MarkPanics(s.regions, 0, Len(rope) + 1) -> "mark_stack"
                  [] OTHER                                   -> panic
    /\ UNCHANGED rope

\* `index % sel.len()` with no region left.
PanicRemZero ==
    /\ panic' = "rem_zero"
    /\ UNCHANGED <<rope, sel, count, mode>>

\* CurrentBuffer::remove_selection / retain_selection pass sel.remove /
\* sel.retain the index modulo the number of regions.
RemoveIndex(s, index) == index % Len(s.regions)

\* remove / retain of region index; Vec::remove and the lookup of the
\* retained region panic on an index past the end.
RemoveOrRetain(retain, index, c) ==
    LET i == RemoveIndex(sel, index)
    IN  IF i >= Len(sel.regions)
        THEN panic' = "index_oob" /\ UNCHANGED <<rope, sel, count, mode>>
        ELSE ApplyDirty(IF retain THEN SelRetain(sel, i) ELSE SelRemove(sel, i), c, "Normal")

Init ==
    /\ rope \in UNION {[1 .. n -> Bytes] : n \in Lengths}
    /\ sel = Sel(<< Region(0, 0) >>, 0)
    /\ count = NoCount
    /\ mode = "Normal"
    /\ panic = "none"

NormalLive == Live /\ mode = "Normal"

\* The outputs of f for every region of the selection, for MapSelections.
ForEachRegion(F(_)) == [i \in 1 .. Len(sel.regions) |-> F(sel.regions[i])]

(***************************************************************************)
(* Actions.                                                                *)
(***************************************************************************)

\* A digit: the count transition (normal.rs, count_state.transition).
CountDigit(d) ==
    /\ NormalLive /\ AppendDigit(count, d) <= MaxCount
    /\ Apply(sel, AppendDigit(count, d), "Normal")

\* g / G: with no count, enter JumpTo{extend}; with one, jump_to(count) /
\* extend_to(count) on every region, unclamped, and reset the count.
JumpToMode(extend) ==
    /\ NormalLive
    /\ IF count = NoCount
       THEN Apply(sel, count, IF extend THEN "ExtendTo" ELSE "JumpTo")
       ELSE ApplyDirty(MapSelections(sel, ForEachRegion(LAMBDA r :
                      << IF extend THEN RegionExtendTo(r, count)
                         ELSE RegionJumpTo(r, count) >>)),
                  NoCount, "Normal")

\* JumpTo mode, a direction key: jump_to_boundary / extend_to_boundary
\* with max_bytes = data.len(), back to Normal.
JumpToDirection(dir) ==
    /\ Live /\ mode \in {"JumpTo", "ExtendTo"}
    /\ ApplyDirty(MapSelections(sel, ForEachRegion(LAMBDA r :
                 << IF mode = "ExtendTo" THEN ExtendToBoundary(r, dir, Bpl, Len(rope))
                    ELSE JumpToBoundary(r, dir, Bpl, Len(rope)) >>)),
             NoCount, "Normal")

\* JumpTo mode, any other key: back to Normal.
JumpToOtherKey ==
    /\ Live /\ mode \in {"JumpTo", "ExtendTo"}
    /\ Apply(sel, NoCount, "Normal")

\* h/j/k/l and H/J/K/L: simple_move / simple_extend by to_count().
Move(dir) ==
    /\ NormalLive
    /\ ApplyDirty(MapSelections(sel, ForEachRegion(LAMBDA r :
                 << SimpleMove(r, dir, Bpl, Len(rope), ToCount(count)) >>)),
             NoCount, "Normal")

Extend(dir) ==
    /\ NormalLive
    /\ ApplyDirty(MapSelections(sel, ForEachRegion(LAMBDA r :
                 << SimpleExtend(r, dir, Bpl, Len(rope), ToCount(count)) >>)),
             NoCount, "Normal")

\* alt-; and ;: DirtyBytes only, the mode (and its count) stays.
SwapCaretKey ==
    /\ NormalLive
    /\ ApplyDirty(MapSelections(sel, ForEachRegion(LAMBDA r : << SwapCaret(r) >>)), count, "Normal")

CollapseSelectionKey ==
    /\ NormalLive
    /\ ApplyDirty(MapSelections(sel, ForEachRegion(LAMBDA r : << RegionCollapse(r) >>)), count, "Normal")

\* alt-space / space: with a count n > 0, remove / retain region n - 1
\* and reset the count; otherwise the main region, and the count stays.
RemoveMain ==
    /\ NormalLive
    /\ IF sel.regions = << >> THEN PanicRemZero
       ELSE IF count > 0 THEN RemoveOrRetain(FALSE, count - 1, NoCount)
       ELSE RemoveOrRetain(FALSE, sel.main, count)

RetainMain ==
    /\ NormalLive
    /\ IF sel.regions = << >> THEN PanicRemZero
       ELSE IF count > 0 THEN RemoveOrRetain(TRUE, count - 1, NoCount)
       ELSE RemoveOrRetain(TRUE, sel.main, count)

\* ( and ): rotate the main by to_count(), and reset the count.
SelectNextKey ==
    /\ NormalLive
    /\ IF sel.regions = << >> THEN PanicRemZero
       ELSE ApplyDirty(SelectNext(sel, ToCount(count)), NoCount, "Normal")

SelectPrevKey ==
    /\ NormalLive
    /\ IF sel.regions = << >> THEN PanicRemZero
       ELSE ApplyDirty(SelectPrev(sel, ToCount(count)), NoCount, "Normal")

\* %: select_all(data.len()); DirtyBytes only, the count stays.
SelectAllKey ==
    /\ NormalLive
    /\ ApplyDirty(SelectAll(Len(rope)), count, "Normal")

\* M: an info message with selection.main().len(), and Normal::new().
Measure ==
    /\ NormalLive
    /\ IF sel.regions = << >>
       THEN panic' = "empty_selection" /\ UNCHANGED <<rope, sel, count, mode>>
       ELSE Apply(sel, NoCount, "Normal")

\* i/I and a/A: Insert mode (Insert or Append), with every region turned
\* backward, or turned forward and extended right by one byte.
InsertKey(append) ==
    /\ NormalLive
    /\ ApplyDirty(MapSelections(sel, ForEachRegion(LAMBDA r :
                 << IF append THEN SimpleExtend(ToForward(r), "Right", Bpl, Len(rope), 1)
                    ELSE ToBackward(r) >>)),
             NoCount, "Away")

\* r/R, o/O, alt-s and ':': Replace, Insert (Overwrite), Split or Command
\* mode; ModeTransition::NewMode, no redraw.
OtherModeKey ==
    /\ NormalLive
    /\ Apply(sel, NoCount, "Away")

\* Back to Normal::new() from one of those modes, leaving rope and
\* selection as they are: Esc in Insert or Command mode (spec 4.6).  The
\* keys with which those modes edit the rope or split the selection are
\* not modelled (insert.rs, replace.rs and split.rs are outside the tree).
ReturnToNormal ==
    /\ Live /\ mode = "Away"
    /\ Apply(sel, NoCount, "Normal")

\* s, a pattern, Enter: Collapse::apply_search.  An empty pattern, or no
\* byte matched in any region, returns to Normal with the selection kept;
\* otherwise every region is replaced by the regions of its matches.
CollapseSearch(pat) ==
    /\ NormalLive
    /\ LET matched == FlattenSeq([i \in 1 .. Len(sel.regions) |->
                                     MatchesIn(pat, sel.regions[i])])
       IN  IF pat = << >> \/ matched = << >>
           THEN Apply(sel, NoCount, "Normal")
           ELSE /\ Len(matched) <= MaxRegions
                /\ ApplyDirty(MapSelections(sel, ForEachRegion(LAMBDA r :
                          [j \in 1 .. Len(MatchesIn(pat, r)) |->
                              MatchRegion(MatchesIn(pat, r)[j], r)])),
                      NoCount, "Normal")

Next ==
    \/ \E d \in Digits : CountDigit(d)
    \/ \E extend \in BOOLEAN : JumpToMode(extend)
    \/ \E dir \in Directions : JumpToDirection(dir)
    \/ JumpToOtherKey
    \/ \E dir \in Directions : Move(dir) \/ Extend(dir)
    \/ SwapCaretKey
    \/ CollapseSelectionKey
    \/ RemoveMain
    \/ RetainMain
    \/ SelectNextKey
    \/ SelectPrevKey
    \/ SelectAllKey
    \/ Measure
    \/ \E pat \in Patterns : CollapseSearch(pat)
    \/ \E append \in BOOLEAN : InsertKey(append)
    \/ OtherModeKey
    \/ ReturnToNormal

Spec == Init /\ [][Next]_vars

(***************************************************************************)
(* Properties.                                                             *)
(***************************************************************************)

TypeOK ==
    /\ rope \in UNION {[1 .. n -> Bytes] : n \in Lengths}
    /\ sel.regions \in Seq([caret : Int, tail : Int])
    /\ sel.main \in Nat
    /\ count \in {NoCount} \cup 0 .. MaxCount
    /\ mode \in {"Normal", "JumpTo", "ExtendTo", "Away"}
    /\ panic \in {"none", "empty_selection", "rem_zero", "index_oob", "mark_stack"}

RangeBytes(rs) == UNION {rs[i].start .. rs[i].end - 1 : i \in 1 .. Len(rs)}

\* The check below for a rope of length len: one or two regions that each
\* become none or one region (a collapse-by-search may drop a region).
RangesExactUpTo(len) ==
    LET regs    == {Region(c, t) : c, t \in 0 .. len}
        results == {<< >>} \cup {<< r >> : r \in regs}
    IN  \A n \in 1 .. 2 : \A regions \in [1 .. n -> regs], outs \in [1 .. n -> results] :
          LET m == InvalidatedRanges(regions, outs)
          IN  /\ \A i \in 1 .. Len(m) : m[i].start < m[i].end
              /\ \A i \in 1 .. Len(m) - 1 : m[i].end <= m[i + 1].start
              /\ RangeBytes(m) = RangeBytes(PushedRanges(regions, outs))

\* Evaluated once per rope length.
RangesExactByLength == [len \in Lengths |-> RangesExactUpTo(len)]

\* The bytes that the partial redraw after a selection change repaints are
\* exactly those of the old and new regions: on the current rope,
\* map_selections' merged ranges are non-empty, in increasing order,
\* disjoint, and cover the same bytes as the ranges it pushed.
\* transition_dirty_bytes turns them into the rows draw_rows repaints; a
\* byte left out keeps its old selection styling on screen.
InvalidatedRangesExact == RangesExactByLength[Len(rope)]

\* The regions in order, each ending before the next begins.
OrderedDisjoint(regions) ==
    \A i \in 1 .. Len(regions) - 1 : RegionMax(regions[i]) < RegionMin(regions[i + 1])

\* The check below for a rope of length len: up to three regions, every
\* visible range [lo, hi) of the bytes and the past-end position.
MarksSafeUpTo(len) ==
    LET regs == {Region(c, t) : c, t \in 0 .. len}
    IN  \A n \in 1 .. 3 : \A regions \in [1 .. n -> regs] :
          OrderedDisjoint(regions) =>
            \A lo \in 0 .. len, hi \in 1 .. len + 1 : lo < hi => ~MarkPanics(regions, lo, hi)

\* Evaluated once per rope length.
MarksSafeByLength == [len \in Lengths |-> MarksSafeUpTo(len)]

\* What mark_commands (view.rs) takes for granted: for a selection whose
\* regions come in order and do not overlap, the style stack always holds
\* the style to return to when a region ends, whatever part of the rope is
\* on screen, a region begun above the screen included.
MarksSafeWhenOrdered == MarksSafeByLength[Len(rope)]

\* The redraw after a selection change never panics in mark_commands:
\* spec 7 says nothing panics on user input.  Moves and extends clamp and
\* shift every region alike, so after s splits a region the regions can
\* overlap, and the walk then meets a region's max with only the default
\* style on the stack.
NoMarkPanic == panic # "mark_stack"

\* Spec invariant 2: every caret and tail lies within [0, len].  g and G
\* with a count jump to the typed offset without clamping it.
RegionsInRope ==
    \A i \in 1 .. Len(sel.regions) :
        {sel.regions[i].caret, sel.regions[i].tail} \subseteq 0 .. Len(rope)

=============================================================================
