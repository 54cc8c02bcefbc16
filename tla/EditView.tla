------------------------------ MODULE EditView ------------------------------
(***************************************************************************)
(* The normal-mode edit keys as the editor runs them: d, y, p/P, u and U   *)
(* (modes/normal.rs) on the current buffer (module Buffer), followed by   *)
(* what HexView::transition does with the result (hex_view/view.rs).  An  *)
(* edit, an undo and a redo return DirtyBytes::ChangeLength, so the view   *)
(* runs maybe_update_offset_and_draw; draw calls ensure_visible_data,     *)
(* which loads 64 more bytes of the file whenever the screen reaches past *)
(* the rope.  The paging keys Ctrl-E, Ctrl-Y and h/j/k/l, H/J/K/L are     *)
(* Pager's actions.  The two modules share the rope and the selection;    *)
(* the terminal is not resized here.                                       *)
(***************************************************************************)
EXTENDS Integers, Sequences, Selection

CONSTANTS
    FileLen, Bpl, Heights, MaxPendingResizes, LoadSize,   \* as in Pager
    Counts, MaxLen, MaxHistory                            \* as in Buffer

VARIABLES
    file, rope, hasPath, startOffset, sel, termRows, rows, resizes,
    register,   \* registers['"'][0], filled by yank_selections
    undo, redo, dirty, fault

vars == <<file, rope, hasPath, startOffset, sel, termRows, rows, resizes,
          register, undo, redo, dirty, fault>>

pagerOnly == <<file, hasPath, termRows, rows, resizes>>
bufOnly   == <<register, undo, redo, dirty, fault>>

P == INSTANCE Pager WITH MoveCounts <- {1}
B == INSTANCE Buffer WITH InitLens <- {}, Registers <- {}

\* maybe_update_offset_and_draw: put start_offset on the line of the main
\* caret if it is above the view, or on the line that shows it at the
\* bottom if it is below; no scroll, no load; then draw.
UpdateOffsetAndDraw(st, caret) ==
    LET line  == caret - (caret % Bpl)
        start == CASE caret < st.start          -> line
                   [] caret >= P!VisibleEnd(st) -> P!SatSub(line + Bpl, (st.rows - 1) * Bpl)
                   [] OTHER                     -> st.start
    IN  P!EnsureVisibleData([st EXCEPT !.start = start])

\* transition_dirty_bytes(ChangeLength) after the buffer step b.
ChangeLength(b) ==
    LET st == UpdateOffsetAndDraw([rope |-> b.data, start |-> startOffset, rows |-> rows],
                                  b.sel.caret)
    IN  /\ B!SetBuf([b EXCEPT !.data = st.rope])
        /\ startOffset' = st.start

Init ==
    /\ P!Init
    /\ register = << >>
    /\ undo = << >> /\ redo = << >>
    /\ dirty = FALSE
    /\ fault = "none"

\* d: yank_selections, then, on a non-empty rope, apply_delta(deletion)
\* and the ChangeLength redraw.
DeleteKey ==
    /\ B!Live /\ B!HistoryRoom
    /\ register' = B!Yanked(rope, sel)
    /\ IF rope # << >> THEN ChangeLength(B!ApplyDelta(B!BufState, B!Deletion(rope, sel)))
       ELSE UNCHANGED <<rope, sel, startOffset, undo, redo, dirty, fault>>
    /\ UNCHANGED pagerOnly

\* y: yank_selections; ModeTransition::None.
YankKey ==
    /\ B!Live
    /\ register' = B!Yanked(rope, sel)
    /\ UNCHANGED <<rope, sel, startOffset, undo, redo, dirty, fault>>
    /\ UNCHANGED pagerOnly

\* p / P with a count: apply_delta(paste(register)) and the redraw.
PasteKey(after, n) ==
    LET b == B!ApplyDelta(B!BufState, B!Paste(rope, sel, register, after, n))
    IN  /\ B!Live /\ B!HistoryRoom /\ Len(b.data) <= MaxLen
        /\ ChangeLength(b)
        /\ UNCHANGED register
        /\ UNCHANGED pagerOnly

\* u / U: perform_undo / perform_redo and the redraw; on an empty stack
\* only the "nothing left to undo" message (a stuttering step).
HistoryKey(b) ==
    /\ IF b.fault # "none" THEN B!SetBuf(b) /\ UNCHANGED startOffset
       ELSE ChangeLength(b)
    /\ UNCHANGED register
    /\ UNCHANGED pagerOnly

UndoKey == B!Live /\ undo # << >> /\ HistoryKey(B!PerformUndo(B!BufState))
RedoKey == B!Live /\ redo # << >> /\ HistoryKey(B!PerformRedo(B!BufState))

\* The paging keys leave the register and the history alone.
PagerKey ==
    /\ B!Live
    /\ \/ P!ScrollLineDown
       \/ P!ScrollLineUp
       \/ \E dir \in Directions : P!Move(dir, 1) \/ P!Extend(dir, 1)
    /\ UNCHANGED bufOnly

Next ==
    \/ DeleteKey
    \/ YankKey
    \/ \E after \in BOOLEAN, n \in Counts : PasteKey(after, n)
    \/ UndoKey
    \/ RedoKey
    \/ PagerKey

Spec == Init /\ [][Next]_vars

\* Undo and redo (perform_undo, perform_redo) apply each history delta to
\* a rope of the length it was built against: between an edit and its undo
\* the redraws and scrolls change the rope only as recorded history steps.
UndoBaseMatches == B!UndoBaseMatches

=============================================================================
