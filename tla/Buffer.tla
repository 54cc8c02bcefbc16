------------------------------- MODULE Buffer -------------------------------
(***************************************************************************)
(* The edit and undo engine of one CurrentBuffer (current_buffer.rs):      *)
(* apply_delta, perform_undo, perform_redo and yank_selections, with the   *)
(* deltas that normal mode builds for d (ops::deletion) and p/P            *)
(* (ops::paste), and the History they drive.  history.rs, ops.rs and      *)
(* selection.rs are not in the tree: History, the two delta builders and  *)
(* Selection::apply_delta follow spec 4.3-4.5.                             *)
(*                                                                         *)
(* A RopeDelta is kept in its simple_edit form: the interval [lo, hi) of a *)
(* rope of length base is replaced by the bytes ins.  A history entry     *)
(* holds the forward delta, the inverse delta and a selection to restore. *)
(* Undo applies the inverse of the entry on top of the undo stack, redo   *)
(* the forward delta of the entry on top of the redo stack.  A delta       *)
(* applied to a rope of another length than the one it was built against *)
(* is recorded as a fault (xi-rope's apply_delta assumes the lengths       *)
(* agree); nothing follows it.  One region: no modelled key makes a      *)
(* second one.  What p pastes is an input of the step here: the register  *)
(* is a field the key handlers fill (see EditView).                        *)
(***************************************************************************)
EXTENDS Integers, Sequences, SequencesExt, Selection

CONSTANTS
    InitLens,    \* lengths of the rope main() may start with (0: scratch)
    Bpl,         \* bytes_per_line, for the h/j/k/l moves
    Counts,      \* counts the user may type before p / P
    Registers,   \* the byte strings the '"' register may hold when p runs
    MaxLen,      \* bound on the rope's length
    MaxHistory   \* bound on the entries of the undo and redo stacks

ASSUME InitLens \subseteq 0 .. MaxLen /\ Bpl \in Nat \ {0}
ASSUME Counts \subseteq Nat \ {0} /\ MaxHistory \in Nat /\ Registers \subseteq Seq(Nat)

VARIABLES
    rope,        \* CurrentBuffer.data; a byte is the file offset it came from
    sel,         \* the selection's only region
    undo,        \* History's undo stack, most recent entry last
    redo,        \* History's redo stack, next entry last
    dirty,       \* CurrentBuffer.dirty
    fault        \* "none", or "base_mismatch" once a delta met a wrong rope

bufVars == <<rope, sel, undo, redo, dirty, fault>>

Live == fault = "none"

(***************************************************************************)
(* Deltas.                                                                 *)
(***************************************************************************)
SimpleEdit(r, lo, hi, ins) == [base |-> Len(r), lo |-> lo, hi |-> hi, ins |-> ins]

\* Rope::apply_delta on a rope of the delta's base length.
ApplyTo(r, d) == SubSeq(r, 1, d.lo) \o d.ins \o SubSeq(r, d.hi + 1, Len(r))

\* The inverse against the rope r that d was built against.
Invert(r, d) ==
    [base |-> Len(ApplyTo(r, d)), lo |-> d.lo, hi |-> d.lo + Len(d.ins),
     ins |-> SubSeq(r, d.lo + 1, d.hi)]

\* transform_position: a deleted position goes to the start of the edit, a
\* position at or after its end moves by the change in length.
Transform(p, d) ==
    IF p < d.lo THEN p
    ELSE IF p < d.hi THEN d.lo
    ELSE p - (d.hi - d.lo) + Len(d.ins)

\* Selection::apply_delta(delta, max_len): transport, then clamp to max_len.
Transport(r, d, maxLen) ==
    Region(Clamp(Transform(r.caret, d), maxLen), Clamp(Transform(r.tail, d), maxLen))

\* The end of the slice min..=max.  draw() slices up to len + 1 whenever
\* the screen shows the rope's end, so a slice ending one past the rope
\* (the caret on the overflow position) reads up to the end.
RegionEnd(s, r) == Min({RegionMax(s) + 1, Len(r)})

\* yank_selections: one byte vector per region; an empty rope yanks [].
Yanked(r, s) == IF r = << >> THEN << >> ELSE SubSeq(r, RegionMin(s) + 1, RegionEnd(s, r))

\* ops::deletion: remove [min, max + 1].
Deletion(r, s) == SimpleEdit(r, RegionMin(s), RegionEnd(s, r), << >>)

\* ops::paste: the register's bytes, count times, before min or after max.
Paste(r, s, reg, after, n) ==
    LET at == IF after THEN RegionEnd(s, r) ELSE RegionMin(s)
    IN  SimpleEdit(r, at, at, FlattenSeq([i \in 1 .. n |-> reg]))

(***************************************************************************)
(* The buffer as a record, so that a key handler can run a method and    *)
(* then the redraw in one step (see EditView).                             *)
(***************************************************************************)
BufState == [data |-> rope, sel |-> sel, undo |-> undo, redo |-> redo,
             dirty |-> dirty, fault |-> fault]

SetBuf(b) ==
    /\ rope' = b.data /\ sel' = b.sel /\ undo' = b.undo /\ redo' = b.redo
    /\ dirty' = b.dirty /\ fault' = b.fault

Entry(d, r, s) == [fwd |-> d, inv |-> Invert(r, d), sel |-> s]

\* History::perform_final(data, delta, selection): a new undo step; the
\* redo stack is cleared.
PerformFinal(b, d) ==
    [b EXCEPT !.undo = Append(b.undo, Entry(d, b.data, b.sel)), !.redo = << >>]

\* apply_delta: max_len is read before the edit; apply_delta_to_current_
\* buffer(delta, true) records the step against the old data, replaces
\* the data and sets dirty; then the selection is transported.
ApplyDelta(b, d) ==
    [PerformFinal(b, d) EXCEPT !.data = ApplyTo(b.data, d),
                               !.sel = Transport(b.sel, d, Len(b.data)),
                               !.dirty = TRUE]

\* The entry a step pushes on the other stack: the same deltas, and the
\* selection of the moment it was taken.
Flip(e, s) == [e EXCEPT !.sel = s]

\* Variant of perform_redo that applies the entry's inverse delta.
PerformRedoAppliesInverse(b) ==
    LET e == Last(b.redo)
    IN  IF e.inv.base # Len(b.data) THEN [b EXCEPT !.fault = "base_mismatch"]
        ELSE [b EXCEPT !.data = ApplyTo(b.data, e.inv), !.sel = e.sel,
                       !.redo = Front(b.redo),
                       !.undo = Append(b.undo, Flip(e, b.sel)), !.dirty = TRUE]

\* Variant that restores the selection but leaves the undo stack alone.
PerformRedoNoPop(b) ==
    LET e == Last(b.redo)
    IN  IF e.fwd.base # Len(b.data) THEN [b EXCEPT !.fault = "base_mismatch"]
        ELSE [b EXCEPT !.data = ApplyTo(b.data, e.fwd), !.sel = e.sel,
                       !.undo = Append(b.undo, Flip(e, b.sel)), !.dirty = TRUE]

\* Variant that applies the inverse but keeps the current selection.
PerformUndoKeepSel(b) ==
    LET e == Last(b.undo)
    IN  IF e.inv.base # Len(b.data) THEN [b EXCEPT !.fault = "base_mismatch"]
        ELSE [b EXCEPT !.data = ApplyTo(b.data, e.inv),
                       !.undo = Front(b.undo),
                       !.redo = Append(b.redo, Flip(e, b.sel)), !.dirty = TRUE]

\* perform_undo, on a non-empty undo stack: history.undo(data, selection)
\* pops the entry and pushes it on the redo side with the current
\* selection; the buffer takes the entry's selection and applies its
\* inverse, and is dirty.
PerformUndo(b) ==
    LET e == Last(b.undo)
    IN  IF e.inv.base # Len(b.data) THEN [b EXCEPT !.fault = "base_mismatch"]
        ELSE [b EXCEPT !.data = ApplyTo(b.data, e.inv), !.sel = e.sel,
                       !.undo = Front(b.undo),
                       !.redo = Append(b.redo, Flip(e, b.sel)), !.dirty = TRUE]

\* perform_redo, on a non-empty redo stack: the mirror image.
PerformRedo(b) ==
    LET e == Last(b.redo)
    IN  IF e.fwd.base # Len(b.data) THEN [b EXCEPT !.fault = "base_mismatch"]
        ELSE [b EXCEPT !.data = ApplyTo(b.data, e.fwd), !.sel = e.sel,
                       !.redo = Front(b.redo),
                       !.undo = Append(b.undo, Flip(e, b.sel)), !.dirty = TRUE]

HistoryRoom == Len(undo) + Len(redo) < MaxHistory

(***************************************************************************)
(* The buffer methods as actions, with the inputs normal mode gives them. *)
(***************************************************************************)
\* main() starts with the first chunk of the file (bytes 0 .. n-1), or
\* with an empty scratch buffer; from_data_and_path: clean, no history.
Init ==
    /\ \E n \in InitLens : rope = [i \in 1 .. n |-> i - 1]
    /\ sel = Region(0, 0)
    /\ undo = << >> /\ redo = << >>
    /\ dirty = FALSE
    /\ fault = "none"

\* map_selections with simple_move / simple_extend (h/j/k/l, H/J/K/L).
Select(dir, extend) ==
    /\ Live
    /\ sel' = IF extend THEN SimpleExtend(sel, dir, Bpl, Len(rope), 1)
                        ELSE SimpleMove(sel, dir, Bpl, Len(rope), 1)
    /\ UNCHANGED <<rope, undo, redo, dirty, fault>>

\* apply_delta(ops::deletion(..)): d and c call it on a non-empty rope.
Delete ==
    /\ Live /\ HistoryRoom /\ rope # << >>
    /\ SetBuf(ApplyDelta(BufState, Deletion(rope, sel)))

\* apply_delta(ops::paste(.., after, count)).
PasteAt(reg, after, n) ==
    LET b == ApplyDelta(BufState, Paste(rope, sel, reg, after, n))
    IN  /\ Live /\ HistoryRoom /\ Len(b.data) <= MaxLen
        /\ SetBuf(b)

\* perform_undo / perform_redo; on an empty stack they return None and
\* change nothing (a stuttering step).
Undo ==
    /\ Live /\ undo # << >>
    /\ SetBuf(PerformUndo(BufState))

Redo ==
    /\ Live /\ redo # << >>
    /\ SetBuf(PerformRedo(BufState))

Next ==
    \/ \E dir \in Directions, extend \in BOOLEAN : Select(dir, extend)
    \/ Delete
    \/ \E reg \in Registers, after \in BOOLEAN, n \in Counts : PasteAt(reg, after, n)
    \/ Undo
    \/ Redo

Spec == Init /\ [][Next]_bufVars

(***************************************************************************)
(* Properties.                                                             *)
(***************************************************************************)
Entries == [fwd : [base : Nat, lo : Nat, hi : Nat, ins : Seq(Nat)],
            inv : [base : Nat, lo : Nat, hi : Nat, ins : Seq(Nat)],
            sel : [caret : Nat, tail : Nat]]

TypeOK ==
    /\ rope \in Seq(Nat) /\ Len(rope) <= MaxLen
    /\ sel \in [caret : 0 .. MaxLen, tail : 0 .. MaxLen]
    /\ undo \in Seq(Entries) /\ redo \in Seq(Entries)
    /\ Len(undo) + Len(redo) <= MaxHistory
    /\ dirty \in BOOLEAN
    /\ fault \in {"none", "base_mismatch"}

\* Every delta perform_undo and perform_redo take from the history is
\* applied to a rope of the length it was built against (xi-rope's
\* apply_delta interprets a delta against the receiver's length).
UndoBaseMatches == fault # "base_mismatch"

(***************************************************************************)
(* Refinement.  Replaying the undo stack's inverses from the current rope *)
(* gives the versions undo can reach; replaying the redo stack's forward  *)
(* deltas gives those redo can reach.                                     *)
(***************************************************************************)
RECURSIVE Replay(_, _, _)
Replay(r, stack, field) ==
    IF stack = << >> THEN << >>
    ELSE LET e  == Last(stack)
             r0 == ApplyTo(r, e[field])
         IN  Append(Replay(r0, Front(stack), field), [data |-> r0, sel |-> e.sel])

Abs == INSTANCE AbstractHistory
           WITH Bytes <- Nat, data <- rope, sel <- sel,
                past <- Replay(rope, undo, "inv"),
                future <- Replay(rope, redo, "fwd")

\* apply_delta, perform_undo and perform_redo move the buffer along a line
\* of versions: an edit forgets the redo side, undo restores the data and
\* the selection of the step before, redo those of the step after
\* (spec properties 3 and 4, over any sequence of edits, moves and undos).
AbsSpec == Abs!Spec

=============================================================================
