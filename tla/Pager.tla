------------------------------- MODULE Pager -------------------------------
(***************************************************************************)
(* The window over the file: how HexView (hex_view/view.rs) and            *)
(* CurrentBuffer (current_buffer.rs) page a file into the rope while the   *)
(* user scrolls and moves the caret, and how :w writes the rope back.      *)
(*                                                                         *)
(* A byte is abstracted to the file offset it was read from: the file     *)
(* initially holds byte i at offset i, so a rope that is a faithful window *)
(* is a run of consecutive offsets and a re-read byte shows up twice.     *)
(* One buffer with one selection region: no action of this module creates *)
(* a second region or buffer.  I/O never fails here (the file is not       *)
(* changed behind the editor's back).                                      *)
(*                                                                         *)
(* The terminal height is read in two ways.  HexView.size, set at start-up *)
(* and by each Resize event, gives the visible rows; terminal::size(),     *)
(* read afresh by main, Ctrl-E, scroll_down and should_trim_buffer, gives  *)
(* the chunk size.  The user may resize the terminal at any time; the      *)
(* Resize event then waits in the input queue behind the keys typed        *)
(* before it, and until it is handled the two heights differ.             *)
(***************************************************************************)
EXTENDS Integers, Sequences, Selection

CONSTANTS
    FileLen,   \* length of the file named on the command line
    Bpl,       \* bytes_per_line (0x10; view.rs also hard-codes 16 and 0x10)
    Heights,   \* the terminal heights the user may resize to
    MaxPendingResizes, \* bound on Resize events waiting in the queue
    LoadSize,  \* the 64 bytes load_next_chunk reads in scroll_down and draw
    MoveCounts \* the count prefixes typed before h/j/k/l and H/J/K/L

ASSUME FileLen \in Nat /\ Bpl \in Nat \ {0} /\ Heights \subseteq Nat \ 0 .. 2
ASSUME LoadSize \in Nat \ {0} /\ MoveCounts \subseteq Nat \ {0}

\* CurrentBuffer.data_start_offset: set to 0 by from_data_and_path, never
\* assigned again by any code path.
DataStartOffset == 0

VARIABLES
    file,        \* the bytes on disk, as a sequence of byte labels
    rope,        \* CurrentBuffer.data
    hasPath,     \* CurrentBuffer.path.is_some()
    startOffset, \* HexView.start_offset
    sel,         \* the (only, hence main) selection region
    termRows,    \* terminal::size().1, the terminal's height now
    rows,        \* HexView.size.1, the height of the last Resize handled
    resizes      \* the heights of the Resize events not yet handled

vars == <<file, rope, hasPath, startOffset, sel, termRows, rows, resizes>>

\* chunk_size = (height - 1) * 16 with height = terminal::size().1: tofu.rs,
\* handle_event_default, scroll_down, should_trim_buffer.
Chunk == (termRows - 1) * Bpl

MinNat(a, b) == IF a <= b THEN a ELSE b
SatSub(a, b) == IF a >= b THEN a - b ELSE 0          \* usize::saturating_sub
CeilDiv(a, b) == (a + b - 1) \div b

(***************************************************************************)
(* Helpers: each maps a view state [rope, start, rows] to the next one.    *)
(***************************************************************************)

\* load_next_chunk: seek to data.len() (not data_start_offset + data.len()),
\* read up to n bytes, append them.  No path: nothing.
LoadNextChunk(r, n) ==
    IF hasPath THEN r \o SubSeq(file, Len(r) + 1, MinNat(Len(r) + n, Len(file)))
               ELSE r

\* visible_bytes(): start_offset .. min(len + 1, start + (rows - 1) * bpl)
VisibleEnd(st) == MinNat(Len(st.rope) + 1, st.start + (st.rows - 1) * Bpl)

\* ensure_visible_data: one load of 64 bytes when the view runs past the rope.
EnsureVisibleData(st) ==
    IF VisibleEnd(st) > Len(st.rope)
    THEN [st EXCEPT !.rope = LoadNextChunk(st.rope, LoadSize)]
    ELSE st

\* trim_buffer_top: drop the first chunk of the rope; selections and
\* data_start_offset are left as they are.
TrimBufferTop(st) ==
    IF Chunk = 0 \/ Len(st.rope) <= Chunk * 2 THEN st
    ELSE [st EXCEPT !.rope  = SubSeq(st.rope, Chunk + 1, Len(st.rope)),
                    !.start = SatSub(st.start, Chunk)]

\* should_trim_buffer: more than 3 chunks in the rope.
ShouldTrimBuffer(r) == Len(r) > Chunk * 3

\* Variant without the "next_position >= final_size" refusal.
ScrollDownNoEndCheck(st, n) ==
    LET needs   == st.start + n * Bpl + st.rows * Bpl > Len(st.rope)
        loaded  == IF needs THEN LoadNextChunk(st.rope, LoadSize) ELSE st.rope
        trimmed == IF Len(loaded) > Len(st.rope) /\ ShouldTrimBuffer(loaded)
                   THEN TrimBufferTop([st EXCEPT !.rope = loaded])
                   ELSE [st EXCEPT !.rope = loaded]
    IN  EnsureVisibleData([trimmed EXCEPT !.start = st.start + n * Bpl])

\* scroll_down(line_count): load 64 bytes if the next screen runs past the
\* rope, trim the top if that load grew the rope past the threshold, then
\* move start_offset to next_position unless it is past the rope; when it
\* moves, draw_rows runs ensure_visible_data.
ScrollDown(st, n) ==
    LET next    == st.start + n * Bpl
        needs   == next + st.rows * Bpl > Len(st.rope)
        loaded  == IF needs THEN LoadNextChunk(st.rope, LoadSize) ELSE st.rope
        grew    == Len(loaded) > Len(st.rope)
        trimmed == IF grew /\ ShouldTrimBuffer(loaded)
                   THEN TrimBufferTop([st EXCEPT !.rope = loaded])
                   ELSE [st EXCEPT !.rope = loaded]
    IN  IF next >= Len(trimmed.rope) THEN trimmed
        ELSE EnsureVisibleData([trimmed EXCEPT !.start = next])

\* Variant without the "already at the top of the file" refusal.
ScrollUpNoTopCheck(st, n) ==
    EnsureVisibleData([st EXCEPT !.start = st.start - Bpl * n])

\* scroll_up(line_count): refused when it would pass offset 0.
ScrollUp(st, n) ==
    IF st.start < Bpl * n THEN st
    ELSE EnsureVisibleData([st EXCEPT !.start = st.start - Bpl * n])

\* maybe_update_offset: scroll by whole lines so the main caret is visible.
MaybeUpdateOffset(st, caret) ==
    IF Len(st.rope) = 0 THEN [st EXCEPT !.start = 0]
    ELSE IF caret < st.start
         THEN ScrollUp(st, CeilDiv(st.start - caret, Bpl))
         ELSE IF caret >= VisibleEnd(st)
              THEN ScrollDown(st, CeilDiv(caret - (VisibleEnd(st) - 1), Bpl))
              ELSE st

ViewState == [rope |-> rope, start |-> startOffset, rows |-> rows]

SetView(st) == rope' = st.rope /\ startOffset' = st.start

(***************************************************************************)
(* Init: main() reads the first chunk of the file (or starts a scratch     *)
(* buffer), then run_event_loop's first draw runs ensure_visible_data.     *)
(***************************************************************************)
InitFile == [i \in 1 .. FileLen |-> i - 1]

Init ==
    /\ file = InitFile
    /\ hasPath \in BOOLEAN
    /\ termRows \in Heights
    /\ rows = termRows
    /\ resizes = << >>
    /\ LET r0 == IF hasPath THEN SubSeq(InitFile, 1, MinNat(Chunk, FileLen))
                 ELSE << >>
           st == EnsureVisibleData([rope |-> r0, start |-> 0, rows |-> rows])
       IN  /\ rope = st.rope
           /\ startOffset = st.start
    /\ sel = Region(0, 0)

(***************************************************************************)
(* Actions: one per event the view handles.                                *)
(***************************************************************************)

\* Ctrl-E in handle_event_default: load a whole chunk, move every region
\* down a line (clamped to the length after that load), scroll_down(1),
\* then draw (ensure_visible_data again).
ScrollLineDown ==
    LET r1 == LoadNextChunk(rope, Chunk)
        st == EnsureVisibleData(ScrollDown([ViewState EXCEPT !.rope = r1], 1))
    IN  /\ sel' = SimpleMove(sel, "Down", Bpl, Len(r1), 1)
        /\ SetView(st)
        /\ UNCHANGED <<file, hasPath, termRows, rows, resizes>>

\* Ctrl-Y: move every region up a line, scroll_up(1), draw.
ScrollLineUp ==
    /\ sel' = SimpleMove(sel, "Up", Bpl, Len(rope), 1)
    /\ SetView(EnsureVisibleData(ScrollUp(ViewState, 1)))
    /\ UNCHANGED <<file, hasPath, termRows, rows, resizes>>

\* Normal mode h/j/k/l and H/J/K/L, n times (the count prefix, to_count()):
\* map_selections returns ChangeInPlace, so transition_dirty_bytes runs
\* maybe_update_offset, which scrolls by as many lines as the caret is off
\* screen, and then draw_rows.
MoveOrExtend(newSel) ==
    /\ sel' = newSel
    /\ SetView(EnsureVisibleData(MaybeUpdateOffset(ViewState, newSel.caret)))
    /\ UNCHANGED <<file, hasPath, termRows, rows, resizes>>

Move(dir, n)   == MoveOrExtend(SimpleMove(sel, dir, Bpl, Len(rope), n))
Extend(dir, n) == MoveOrExtend(SimpleExtend(sel, dir, Bpl, Len(rope), n))

\* :w with no argument: write the rope to the buffer's path.
Write ==
    /\ hasPath
    /\ file' = rope
    /\ UNCHANGED <<rope, hasPath, startOffset, sel, termRows, rows, resizes>>

\* The user resizes the terminal: terminal::size() changes at once, and a
\* Resize event joins the input queue.
TerminalResized(h) ==
    /\ Len(resizes) < MaxPendingResizes
    /\ termRows' = h
    /\ resizes' = Append(resizes, h)
    /\ UNCHANGED <<file, rope, hasPath, startOffset, sel, rows>>

\* Event::Resize in handle_event_default: self.size = (x, y), then draw,
\* whose ensure_visible_data loads if the taller view runs past the rope.
Resize ==
    /\ resizes # << >>
    /\ rows' = Head(resizes)
    /\ resizes' = Tail(resizes)
    /\ SetView(EnsureVisibleData([ViewState EXCEPT !.rows = Head(resizes)]))
    /\ UNCHANGED <<file, hasPath, sel, termRows>>

Next ==
    \/ ScrollLineDown
    \/ ScrollLineUp
    \/ \E d \in Directions, n \in MoveCounts : Move(d, n) \/ Extend(d, n)
    \/ Write
    \/ \E h \in Heights : TerminalResized(h)
    \/ Resize

Spec == Init /\ [][Next]_vars

(***************************************************************************)
(* Properties.                                                             *)
(***************************************************************************)

TypeOK ==
    /\ file \in Seq(Nat)
    /\ rope \in Seq(Nat)
    /\ hasPath \in BOOLEAN
    /\ startOffset \in Nat
    /\ sel \in [caret : Nat, tail : Nat]
    /\ termRows \in Heights /\ rows \in Heights
    /\ resizes \in Seq(Heights) /\ Len(resizes) <= MaxPendingResizes

\* The view never starts past the end of the rope: scroll_down's refusal at
\* next_position >= final_size, trim_buffer_top's adjustment and
\* maybe_update_offset together keep start_offset inside the rope.
ViewStartInRope == startOffset <= Len(rope)

\* Window faithfulness (spec section 8, invariant 6): the rope holds the
\* file bytes [data_start_offset, data_start_offset + rope.len).  Broken by
\* load_next_chunk seeking to data.len() after trim_buffer_top dropped the
\* head of the rope.
WindowFaithful ==
    /\ DataStartOffset + Len(rope) <= Len(file)
    /\ rope = SubSeq(file, DataStartOffset + 1, DataStartOffset + Len(rope))

\* draw and draw_rows slice the 4 bytes under the main caret out of the
\* visible bytes, at caret - start_index, whenever the main region meets the
\* visible range: that needs start <= caret <= start + visible length, or
\* the subtraction underflows / the slice start passes its end (a panic).
DrawSafe ==
    LET ve == VisibleEnd(ViewState)
        shown == MinNat(ve, Len(rope)) - startOffset
    IN  (RegionMin(sel) < ve /\ RegionMax(sel) + 1 > startOffset)
          => (startOffset <= sel.caret /\ sel.caret - startOffset <= shown)

\* File offset of the first byte on screen (-1 when the screen is empty).
FirstShown(r, s) == IF s < Len(r) THEN r[s + 1] ELSE -1

\* Scrolling by one line, by Ctrl-E/Ctrl-Y or by a caret one row off
\* screen, moves the first file byte on screen by at most one line.
\* scroll_down computes next_position from start_offset before the load and
\* trim_buffer_top, and stores it after the trim has already rebased
\* start_offset, so a trim during a one-line scroll skips a whole chunk.
ViewMovesByALine ==
    [][FirstShown(rope, startOffset) >= 0 /\ FirstShown(rope', startOffset') >= 0
       => FirstShown(rope', startOffset') - FirstShown(rope, startOffset)
            \in -Bpl .. Bpl]_vars

\* No action of this module edits a byte, so writing the buffer back must
\* leave the file as it was.  cmd::write writes only the loaded window
\* (data.slice_to_cow(..)), truncating a file larger than the window.
UneditedWriteKeepsFile == [][file' = file]_file

=============================================================================
