# TLA+ models of tofu, the modal hex editor

These modules model the editor in `src/src/` and check it with TLC. The
editor is single-threaded. `HexView::run_event_loop` blocks in
`event::read`, hands each event to the current mode's `transition`, applies
the resulting `ModeTransition`, and then redraws the status line. The models
therefore have no threads. The hard behaviours are:

- long sequences of keys;
- the paging of a large file through a window of it (the rope);
- the dirty-flag protocol between buffers and files;
- usize and UTF-8 arithmetic that panics at its edges.

## The system, by part

| Part | Code | State | Operations |
|---|---|---|---|
| Window pager | `hex_view/view.rs` (`scroll_down`, `scroll_up`, `trim_buffer_top`, `should_trim_buffer`, `ensure_visible_data`, `maybe_update_offset`, `visible_bytes`, Ctrl-E/Ctrl-Y and `Event::Resize` in `handle_event_default`), `current_buffer.rs` (`load_next_chunk`), `bin/tofu.rs` (`main` reads the first chunk) | rope, `start_offset`, `data_start_offset`, the selection, the terminal height, the file | load, trim, scroll, move/extend, resize, write |
| Buffer collection and ex commands | `current_buffer.rs` (`BuffrCollection`), `modes/command.rs` (`mod cmd`, `finish`) | list of buffers (path, data, dirty), current index, files | `:q :q! :w [p] :wa :wq :e p :db :db!`, edits |
| Command-line editor and prompt renderers | `modes/command.rs` (`Command`, its `transition`), `view.rs` (`StatusLinePrompter for Command` and `for Search`, `draw_statusline`) | command `String`, byte cursor, `last_visible_prompt_col`; the search pattern's pieces, cursor and hex flag | Backspace, Delete, Left, Right, char keys, Esc/Enter, render of `:` and of `/` |
| Normal mode | `modes/normal.rs`, `modes/jumpto.rs`, `modes/collapse.rs` | count prefix, mode, selection | key → action dispatch, g/G, s (collapse by search), i/I/a/A and the other mode entries |
| Selection algebra | `selection.rs` (not in the tree; spec §4.3) | regions, main index | simple_move, simple_extend, jump_to, swap, collapse, select next/prev, remove/retain |
| History and edits | `current_buffer.rs` (`apply_delta`, `perform_undo`, `perform_redo`, `yank_selections`), `modes/normal.rs` (d y p P u U); `history.rs`, `ops.rs` not in the tree (spec §4.4, §4.5) | rope, undo and redo stacks, register `"`, dirty | delete, yank, paste, undo, redo |
| Insert, replace and split modes | not in the tree (spec §4.6) | | |
| Rendering | `view.rs` (`draw`, `draw_rows`, `mark_commands`, styles, statusline) | none beyond the above; `mark_commands` keeps a style stack while it walks the visible bytes | terminal output |

How the parts interact:

- Normal-mode moves go through `map_selections` and then through
  `transition_dirty_bytes`. That calls `maybe_update_offset`, which
  scrolls, and scrolling loads and trims.
- An edit, an undo or a redo returns `DirtyBytes::ChangeLength`; the view
  then runs `maybe_update_offset_and_draw`, and `draw` runs
  `ensure_visible_data`, which may append file bytes to the rope that the
  edit just changed. The history never hears of that load.
- `:w` writes the rope, and the rope may be only a window of the file.
- `:e`, `:db` and `:q` read and clear the dirty flags that edits set.
- After every event the prompt renderer runs on the command line's state.
  It uses a start column that persists across prompts.

## Modules

- **`Selection`**: the region operators (`Region`, `Clamp`, `Step`,
  `SimpleMove`, `SimpleExtend`, jump/extend-to, swap, collapse,
  `InheritDirection`, `MapSelections`, select next/prev). `selection.rs`
  is absent from the tree, so each operator is written from spec §4.3 and
  marked `spec_modelled` in `PROJECT.json`.
- **`Pager`**: one buffer of the file named on the command line, with one
  selection region.
  - A byte is abstracted to the file offset it was read from, so the file
    starts as `[i |-> i-1]`. A faithful window is a run of consecutive
    offsets, and a re-read byte appears twice.
  - Variables: `file`, `rope` (`CurrentBuffer.data`), `hasPath`,
    `startOffset` (`HexView.start_offset`), `sel`, `termRows` (what
    `terminal::size()` returns), `rows` (`HexView.size.1`), `resizes`
    (pending `Event::Resize`s).
  - Helpers: `LoadNextChunk`, `EnsureVisibleData`, `TrimBufferTop`,
    `ShouldTrimBuffer`, `ScrollDown`, `ScrollUp` and `MaybeUpdateOffset`,
    each the function of that name, as a map from a view state
    `[rope, start, rows]` to the next.
  - Actions: `ScrollLineDown` (the whole Ctrl-E handler: a chunk load,
    `map_selections`, `scroll_down(1)`, then draw's `ensure_visible_data`),
    `ScrollLineUp` (Ctrl-Y), `Move(dir, n)`/`Extend(dir, n)` (h/j/k/l and
    H/J/K/L with a count prefix `n` from `MoveCounts`, each followed by `maybe_update_offset` and the draw),
    `TerminalResized(h)` (the user changes the terminal height; the chunk
    size reads `terminal::size()` directly), `Resize` (the event: `size`
    is updated and the view redrawn), and `Write` (`:w`).
  - `DataStartOffset` is the constant 0, because no code assigns it after
    `from_data_and_path`.
- **`Commands`**: the buffer list. Contents are model values; an edit
  replaces them and sets dirty. One action per handler of `mod cmd`;
  `Write` and the `WriteEach` loop of `:wa`/`:wq` may fail at any
  `fs::write` and the loop returns at the first failure. `fs::write` is
  `File::create`, which empties the file, then `write_all`, so a failure
  leaves the file as it was or emptied (`FailedWrite`; a partly written
  file is abstracted to the empty one, which differs from the buffer just
  as it does).
  `SwitchCurrentBuffer` and `DeleteCurrent` are the `BuffrCollection`
  methods. `forced` is a history variable: the last command carried `!`
  (`:q!` or `:db!`).
- **`AbstractSaves`**: what the ex commands promise about unsaved work
  (spec §6 command surface, §7 policy). For each file name, the set of
  texts edited for it and not written (`unsaved`). A text leaves the set
  only when some file is written with it (`Save`; `:w path` saves a
  buffer under another name, spec S6), when it is edited into
  another text (`Change`), or by a command with `!` (`Discard`); `Exit`
  needs nothing unsaved or a `!`. `Commands` refines it (`AbsSpec`) while `:w` writes to the buffer's own path, with
  `unsaved[p]` the contents of the dirty buffers whose path is `p` and
  `bang <- forced`.
- **`AbstractLine`** and **`CommandLine`**: the `:` prompt.
  - `AbstractLine` is what the prompt promises: a line of characters and
    an insertion point, with insert, delete-before, delete-after, left,
    right, open and close.
  - `CommandLine` is the code. A line is a sequence of characters, each of
    a UTF-8 width (`Width`); char boundaries are prefix sums (`ByteLen` is
    `FoldSeq` of `+`). `Command.cursor` is a byte index moved by 1 a key.
    Each key action is the whole `Command::transition` arm followed by
    `AfterEvent`, the loop's `draw_statusline` (`RenderPrompt` with the
    start-column clamp `PromptStart`). `String::insert`/`remove` and the
    prompt slice panic off a char boundary; `remove` also at the end. A
    panic ends the program: `panic` records its kind. usize underflow
    panics in a debug build and wraps in a release build (`Builds`).
  - `AbsSpec` instantiates `AbstractLine` with `text <- line`,
    `pos <- CharsBefore(line, cursor)`, `open <- mode = "Command"`.
- **`SearchPrompt`**: the `/` prompt renderer (`render_with_size` for
  `Search`) as pure operators. A pattern piece is one of four kinds that
  decide its width (a printable byte or space 1 column, another byte
  `<xx>` 4, a wildcard 1; 3 in hex). `SearchStart` is the clamp of the
  start column, `RenderHex` and `RenderText` the two layouts, each
  returning the new start column, the pieces drawn and a panic kind.
  `CommandLine` states the renderer's contract (`SearchContract`) over
  every pattern of up to `MaxPieces` pieces and every cursor, for each
  build; the search mode itself (`search.rs`) is outside the tree.
- **`NormalMode`**: the normal-mode keys on a fixed rope: the `cmd_count`
  digit prefix, moves and extends with a count, g/G (`JumpTo` and
  `ExtendTo` modes, with the count jump of `normal.rs:133`), swap,
  collapse, select next/prev/all, remove/retain main (space, alt-space),
  and `s` followed by a pattern (collapse by search, `collapse.rs`). The
  search scan is the RECURSIVE `ScanFrom`, written from spec §4.6
  (`search.rs` is outside the tree).
  - `MapSelections` also returns the ranges it invalidates, merged as
    `map_selections` merges them; `InvalidatedRangesExact` checks them.
  - The keys that leave Normal mode (`i`/`I` orient or extend the regions
    first, `a`/`A`, `r`, `c`, `:`, `/`...) go to the mode `"Away"`;
    `ReturnToNormal` is Esc there (the other modes are outside the tree).
  - After each key the loop redraws. With an empty region vector,
    `main_cursor_offset` panics on a non-empty rope and
    `overflow_sel_style().unwrap()` in `draw_rows` on the empty rope
    (`RedrawPanics`). The handlers that return `DirtyBytes` (`ApplyDirty`)
    also run `mark_commands` over the visible bytes; the rope is taken to
    fit on the screen, so the visible range is `[0, len + 1)`.
- **`MarkCommands`**: `HexView::mark_commands` as the RECURSIVE walk
  `MarkFrom` over the visible bytes, keeping only what decides a panic:
  the depth of the style stack and the regions of `regions_in_range` not
  yet finished (the code looks only at the first of them). At a region's
  max the code reads `command_stack[len - 2]`; `MarkPanics` is TRUE when
  the stack then holds one style. Colours, carets and line starts never
  change the depth and are left out. `regions_in_range` is written from
  spec §4.3.
- **`AbstractHistory`**: what undo and redo promise (spec §4.4, testable
  properties 3 and 4): a line of versions `(data, selection)`. An edit
  appends a version and forgets the redo side; undo steps back restoring
  data and selection; redo steps forward.
- **`Buffer`**: `CurrentBuffer` with its history, spec-modelled where the
  code is absent.
  - Deltas are records `[base, lo, hi, ins]` (`SimpleEdit`); `ApplyTo`,
    `Invert` and `Transform`/`Transport` are the rope and selection
    operations of spec §3–4.3. A history entry holds the forward delta,
    its inverse and the selection before the edit (`Entry`).
  - `ApplyDelta` is `apply_delta` (history entry, new data, selection
    transported with the *old* `max_len`, dirty); `PerformUndo` and
    `PerformRedo` check that the delta's base length equals the rope's
    and record `fault = "base_mismatch"` when it does not (xi-rope would
    panic or corrupt the data).
  - Actions: `Select` (move/extend), `Delete` (d), `PasteAt` (p/P with a
    count, contents from `Registers`), `Undo` (u), `Redo` (U).
  - `AbsSpec` maps the undo stack to the abstract `past` by replaying the
    inverse deltas from the current rope (`Replay`, RECURSIVE), and the
    redo stack to `future` by replaying the forward deltas.
- **`EditView`**: `Pager` and `Buffer` composed on a shared rope and
  selection, by `INSTANCE`: the keys d, y, p/P, u, U run the `Buffer`
  operation and then `ChangeLength`, i.e. `maybe_update_offset_and_draw`
  (`UpdateOffsetAndDraw`) and draw's `ensure_visible_data`; the paging
  keys are `Pager`'s actions with the history unchanged.
- **MC modules** (`MCPager`, `MCCommands`, `MCCommandLine` (which also sets the search prompt's widths),
  `MCNormalMode`, `MCBuffer`, `MCEditView`) give the constants their
  values.

## Runs and what they show

| Run | Expect | Shows |
|---|---|---|
| `pager_core` | pass | Over all interleavings of Ctrl-E, Ctrl-Y, moves and extends by 1 or 3 lines, `:w` and terminal resizes between 3 and 4 rows on a 16-byte file, `start_offset <= len(rope)` holds (`ViewStartInRope`). It is kept by the refusal in `scroll_down`, the adjustment in `trim_buffer_top` and `maybe_update_offset` together, also when the chunk size changes under them. |
| `normal_mark_panic` | violation | `NoMarkPanic`: on the rope `aaa`, `J` then `s` with the pattern `a` followed by a wildcard leaves the overlapping regions `[0,1]` and `[1,2]` (a pattern matches at every position, spec §4.6). The redraw's `mark_commands` never pushes the second region's style, and at its max reads `command_stack[len - 2]` with one style on the stack: a panic (usize underflow in a debug build, an index past the end in a release build). |
| `pager_draw` | violation | With a region extended down to the last visible row, the terminal loses a row; the `Event::Resize` handler sets `self.size` and draws without `maybe_update_offset`, so the caret lies past the visible bytes and the 4-byte slice at `caret - start_index` in `draw` runs out of range. |
| `pager_trim_jump` | violation | `ViewMovesByALine`: moving the caret one row below the screen (or Ctrl-E) should move the first byte on screen by one line, but when that `scroll_down` loads and trims, `start_offset` is overwritten by `next_position`, computed before the trim rebased it, and the view jumps a whole chunk (file offset 6 to 12 with 2-byte lines and a 4-byte chunk). |
| `commands_core` | pass | With `:w` to the buffer's own path, the buffer list refines `AbstractSaves` (`AbsSpec`): an edit disappears only by being written, edited again or dropped with `!`, and `:q`/`:wq` stop the editor only with every edit written. This holds across `:e`, `:db`, three buffers, and writes that fail and leave the file as it was or emptied (`AbstractSaves` tracks only the unsaved edits, so an emptied file is a legal `Save`). A `:db` without its dirty guard breaks it. |
| `commands_write_fail` | violation | `QuitLeavesFilesSaved`: on a clean buffer, a `:w` that fails after `fs::write` emptied the file leaves dirty false, so `:q` quits and the file stays empty (3 states). Spec §7 says an I/O error corrupts no state. |
| `commands_shared_path` | violation | `AbsSpec` with `:w path` allowed: after `:e p1`, `:e p2`, `:e p1` and `:db` the scratch buffer is current beside the buffer of `p2`; `:w p2` gives it that path, an edit and `:wa` then write the edit and overwrite it with the other, clean buffer's bytes (`write_all` writes clean buffers too). The edit is lost with no `!`. |
| `cmdline_core` | pass | With ASCII input the prompt's `cursor - start_column` never underflows and its slice never runs backwards, in either build; and the prompt implements `AbstractLine` (`AbsSpec`). The search prompt, on 12, 13 and 15 columns with any pattern of up to 4 pieces and a start column at most one past the cursor (which the keys keep), never panics, keeps its start column at most the cursor and in hex draws the cursor's piece (`SearchPromptSafe`). |
| `cmdline_panics` | violation | With a two-byte character among the keys the prompt panics on user input: `:` then Delete panics in `String::remove`; a Delete or insert after the two-byte character hits a non-boundary. |
| `normal_core` | pass | The ranges `map_selections` hands to the partial redraw are sorted, disjoint and cover exactly the old and new regions (`InvalidatedRangesExact`); for regions that come in order and do not overlap, `mark_commands` never panics, whatever part of the rope is visible, a region begun above the screen included (`MarksSafeWhenOrdered`). |
| `buffer_history` | pass | Over all sequences of deletes, pastes, moves, undos and redos, every history delta meets a rope of its base length (`UndoBaseMatches`), and `Buffer` implements `AbstractHistory` (`AbsSpec`): undo restores data and selection, redo re-applies, an edit forgets the redo side. |
| `edit_undo_reload` | violation | On a 4-byte file, `d` on byte 0 and the redraw that follows re-read the file's last byte into the rope (`<<1,2,3,3>>`) outside the history; `u` then applies a 3-byte inverse delta to a 4-byte rope. |

Every property of a passing run has a mutant in `PROJECT.json`: a
plausible bug in the mapped code (a dropped guard or clamp, an off-by-one,
an undo that keeps the selection, a redo that does not pop) that TLC shows
breaks it.

An unedited `:w` truncates a file larger than the loaded window
(`cmd::write` passes `data.slice_to_cow(..)`). `Pager` states it as
`UneditedWriteKeepsFile`, which TLC violates in a few steps; no run checks
it, since the bug is visible on one line and the runs go to interleavings.
Likewise `NormalMode` keeps `RegionsInRope`: `4g` on a 3-byte rope puts
caret and tail at 4, outside `[0, len]` (`jump_to(count)` in `normal.rs`
has no clamp); TLC finds it in two keys, and the run slot it once had now
checks `ViewMovesByALine`. `Pager`'s `WindowFaithful` (the rope is the file
window, spec §8 invariant 6) is violated when a load follows a trim:
`load_next_chunk` seeks to `data.len()` rather than `data_start_offset +
data.len()`. Its run slot went to `normal_mark_panic`; `edit_undo_reload`
shows the same seek going wrong after an edit.

## Bounds, and why they are enough

- **Pager**: 2 bytes a line and 4 rows, so the chunk is 6 bytes and the
  trim threshold 18; the terminal may shrink to 3 rows (chunk 4), with one
  resize event pending. A 16-byte file gives first load, partial load at
  end of file, trim, scroll refusal at both ends, re-read and a chunk size
  that changes between load and trim. `load_next_chunk(64)` is scaled to
  2 bytes, the same order as the code's 64/368. Moves take counts 1 and 3 in
  `pager_core` (3 lines crosses the 4-row window in one step); the
  `pager_trim_jump` and `pager_draw` runs keep the count 1 so their
  traces show the single-line moves the findings are about.
- **Commands**: 2 paths, 3 contents, at most 3 buffers, symmetry over the
  paths (pure model values): enough for a non-current dirty buffer,
  failure midway through `:wa`, and, when `:w` takes a path
  (`commands_shared_path`), two buffers sharing a path. With writes to the
  own path only, no two buffers share a path.
- **CommandLine**: up to 6 characters and a terminal 4 columns wide, so
  the prompt scrolls after 2 characters. Both builds are checked. The
  search prompt is checked on 12, 13 and 15 columns (5, 6 and 8 columns of
  pattern, so a 4-piece pattern with a `<xx>` piece scrolls) with up to 4
  pieces. Narrower terminals do fail: below 7 columns `size.0 - 7`
  underflows; at 7 to 11 columns a `<xx>` piece wider than the room left
  makes `position(..).unwrap()` find nothing, or the hex slice run
  backwards. Those widths are not checked: the finding would be about a
  terminal narrower than any real one.
- **NormalMode**: ropes of 0 and 3 bytes over two byte values (symmetric),
  the digits 0, 1 and 4 with counts up to 4 (so a count passes the end),
  patterns of one and two pieces, at most 3 regions. Two-piece patterns
  are what make overlapping matches. `MarksSafeWhenOrdered` ranges over
  every ordered, disjoint selection of up to 3 regions of the rope and
  every visible range `[lo, hi)`, not only the selections the keys reach.
- **Buffer**: a 2-byte file, pastes of 0 or 1 byte once or twice, a rope
  of at most 3 bytes and two history entries: enough for undo after undo,
  redo after undo, an edit between undo and redo, and a selection at the
  end of a rope that shrinks. 382,086 states.
- **EditView**: a 4-byte file with a 3-row terminal (chunk 4, load 2), so
  the first redraw after an edit already reaches the file's end.

## Fairness

The program never acts on its own: every step is a key the user presses.
Fairness therefore describes a user who keeps pressing a key, not the
scheduler. No run checks liveness. A user who only presses Ctrl-E
reaches the end of any file, but trivially: each Ctrl-E loads a whole
chunk and scrolls one line, so `scroll_down` never loads or trims. A user
who only presses `j` (weakly fair) does not: on a 220-byte file with
2-byte lines and 4 rows, TLC finds a lasso in which, after the first trim
(`trim_buffer_top` leaves the caret where it was in the now shorter rope,
and `scroll_down` stores its stale `next_position`), three presses of `j`
cycle and no byte past offset 20 is ever shown. This is recorded as the
`view.rs:686` hazard rather than as a run.

## Not modelled, and why

- **Insert, replace and split modes, and partial edits**
  (`apply_incomplete_delta*`, `commit_delta`, `apply_delta_offset_carets`).
  Only these modes call them, and `insert.rs`, `replace.rs`, `split.rs`
  and `history.rs` are absent from the tree; `c`/`C` enters insert mode.
- **Rendering.** Styles, hex/ASCII layout and the sidebar are terminal
  output; `byte_properties.rs` and the colorizer are outside the tree.
  Only what can panic is stated (`DrawSafe`, `PromptArithmeticSafe`,
  `SearchPromptSafe`, and `mark_commands`' style stack in
  `MarkCommands`). The text search prompt
  does not draw the piece under the cursor when only it no longer fits
  (the hidden cursor piece at `view.rs:228`); that is cosmetic and not
  stated. The sidebar loop `while !byte_properties.are_all_printed()`
  (`view.rs:1309`, `1384`) relies on `draw_row` drawing a property line on
  every call, but `draw_row` returns early below the last row, so a terminal
  shorter than the sidebar may hang the redraw; the formatter's height is
  unknown, so this is listed as a hazard without a property.
- **Logging** (`debug_log`) is I/O only.
- **Dead paging code.** `manage_buffer`, `add_chunk_to_bottom/top`,
  `trim_buffer_bottom` and `is_near_*` are never called.
- **`select_all` on an empty rope** (`normal.rs:296`): the spec's
  `[0, len - 1]` is in `selection.rs`, outside the tree.
- **Yank at the one-past-the-end caret** (`current_buffer.rs:312`): what
  `Rope::slice_to_cow` does past the end is xi-rope's; `Buffer` reads to
  the end of the rope.

## Plan for the following sittings

1. **Composition of `CommandLine` and `Commands`.** Enter parses the line
   (`finish`, `split_at` the first space) and runs the handler, including
   an unknown command and `:e` with an empty argument.
2. **Insert mode and partial edits**, spec-modelled, in `Buffer`, with the
   partial history entries and `commit_delta`.
3. **Larger instances** of `Buffer` and `EditView` (three-byte files,
   multi-region selections).
