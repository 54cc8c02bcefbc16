---------------------------- MODULE CommandLine ----------------------------
(***************************************************************************)
(* The ":" prompt: Command mode's line editor (modes/command.rs, struct   *)
(* Command and its Mode::transition) and the prompt renderer that the     *)
(* event loop runs after every event (view.rs, draw_statusline and the    *)
(* StatusLinePrompter impl for Command).                                   *)
(*                                                                         *)
(* The line is a Rust String: UTF-8 bytes, indexed by byte.  The line is  *)
(* the sequence of its characters, each of a UTF-8 width (Width), and its *)
(* byte offsets that start a character (or end the line) are its char    *)
(* boundaries.  Command.cursor is a byte index that *)
(* the code moves by 1 per key.  String::insert, String::remove and        *)
(* slicing panic off a char boundary; remove also panics at the end of    *)
(* the line.  A panic ends the program: the state records where it        *)
(* happened and nothing follows it.  Enter hands the line to the command  *)
(* table (the subject of module Commands); here it just leaves the mode.  *)
(***************************************************************************)
EXTENDS Integers, Sequences, FiniteSets, SequencesExt, SearchPrompt

CONSTANTS
    Chars,     \* the characters the user may type
    Width,     \* the UTF-8 width of each character
    MaxChars,  \* bound on the characters typed into one line
    Cols,      \* terminal width, HexView.size.0
    Builds     \* "debug" (usize overflow panics) and/or "release" (wraps)

ASSUME Chars # {} /\ \A c \in Chars : Width[c] \in 1 .. 4
ASSUME MaxChars \in Nat /\ Cols \in Nat /\ Cols >= 3
ASSUME Builds \subseteq {"debug", "release"} /\ Builds # {}

VARIABLES
    mode,       \* "Normal" or "Command" (other modes are not in this module)
    line,       \* Command.command, as the sequence of its characters
    cursor,     \* Command.cursor, a byte index
    promptCol,  \* HexView.last_visible_prompt_col
    panic,      \* "none", or the kind of the panic that ended the program
    build       \* which build the program is

vars == <<mode, line, cursor, promptCol, panic, build>>

Panics == {"none", "remove_end", "char_boundary", "underflow", "slice_range"}

\* The byte length of a line, and the byte offset of its k-th character.
ByteLen(s) == FoldSeq(LAMBDA c, acc : Width[c] + acc, 0, s)

Offset(s, k) == ByteLen(SubSeq(s, 1, k - 1))

\* str::is_char_boundary
Boundaries(s) == {Offset(s, k) : k \in 1 .. Len(s) + 1}

\* The index of the character that starts at byte b (b a boundary, b < len).
CharAt(s, b) == CHOOSE k \in 1 .. Len(s) : Offset(s, k) = b

Live == panic = "none"

(***************************************************************************)
(* The prompt renderer: render_with_size(stdout, size.0, last col).        *)
(* Yields [col |-> new start column, fault |-> "none" or a panic kind].   *)
(* When the cursor is left of start_column, "cursor - start_column"       *)
(* panics in a debug build; in a release build it wraps, the start column *)
(* becomes cursor - max_width modulo 2^64 (a negative value here stands   *)
(* for the wrapped one) and the slice bounds decide.                       *)
(***************************************************************************)
\* Variant that does not pull the start column back to the cursor.
PromptStartNoCursorClamp(len, cur, last) ==
    IF len <= last THEN (IF len >= 1 THEN len - 1 ELSE 0) ELSE last

\* "Make sure start_column is between self.cursor and the length".
PromptStart(len, cur, last) ==
    IF len <= last THEN (IF len >= 1 THEN len - 1 ELSE 0)
    ELSE IF cur < last THEN cur ELSE last

RenderPrompt(s, cur, last) ==
    LET len == ByteLen(s)
        s1  == PromptStart(len, cur, last)
        mw  == (Cols - 1) - (IF cur = len THEN 1 ELSE 0)
        s2  == IF cur < s1 \/ cur - s1 > mw THEN cur - mw ELSE s1
        e   == IF len <= s2 + mw THEN len ELSE s2 + mw
        fault ==
            CASE cur < s1 /\ build = "debug"                    -> "underflow"
              [] s2 < 0 \/ s2 > e                               -> "slice_range"
              [] s2 \notin Boundaries(s) \/ e \notin Boundaries(s) -> "char_boundary"
              [] OTHER                                          -> "none"
    IN  [col |-> s2, fault |-> fault]

\* The rest of every loop iteration: draw_statusline renders the prompt
\* when the mode is Command.
AfterEvent(m, s, cur) ==
    LET r == RenderPrompt(s, cur, promptCol)
    IN  /\ mode' = m /\ line' = s /\ cursor' = cur
        /\ IF m = "Command"
           THEN IF r.fault = "none" THEN promptCol' = r.col /\ UNCHANGED panic
                ELSE panic' = r.fault /\ UNCHANGED promptCol
           ELSE UNCHANGED <<promptCol, panic>>
        /\ UNCHANGED build

\* The line with the character at byte b removed (String::remove).
StrRemove(s, b) == RemoveAt(s, CharAt(s, b))

\* String::remove(b): panics at the end, or off a boundary.
RemoveOutcome(s, b) ==
    CASE b >= ByteLen(s)            -> "remove_end"
      [] b \notin Boundaries(s)     -> "char_boundary"
      [] OTHER                      -> "ok"

PanicAt(kind) ==
    /\ panic' = kind
    /\ UNCHANGED <<mode, line, cursor, promptCol, build>>

Init ==
    /\ mode = "Normal"
    /\ line = << >>
    /\ cursor = 0
    /\ promptCol = 0
    /\ panic = "none"
    /\ build \in Builds

(***************************************************************************)
(* Actions.                                                                *)
(***************************************************************************)

\* ':' in Normal mode: Command::new().
EnterCommand ==
    /\ Live /\ mode = "Normal"
    /\ AfterEvent("Command", << >>, 0)

\* Variant of Backspace that removes the character but leaves the cursor.
RemoveLastKeepCursor ==
    /\ Live /\ mode = "Command"
    /\ IF cursor = 0 THEN AfterEvent("Command", line, cursor)
       ELSE LET o == RemoveOutcome(line, cursor - 1)
            IN  IF o = "ok"
                THEN AfterEvent("Command", StrRemove(line, cursor - 1), cursor)
                ELSE PanicAt(o)

\* Backspace: remove(cursor - 1), cursor -= 1; at cursor 0 no transition,
\* but the prompt is still drawn.
RemoveLast ==
    /\ Live /\ mode = "Command"
    /\ IF cursor = 0 THEN AfterEvent("Command", line, cursor)
       ELSE LET o == RemoveOutcome(line, cursor - 1)
            IN  IF o = "ok"
                THEN AfterEvent("Command", StrRemove(line, cursor - 1), cursor - 1)
                ELSE PanicAt(o)

\* Delete: remove(cursor); the cursor does not move.
RemoveThis ==
    /\ Live /\ mode = "Command"
    /\ LET o == RemoveOutcome(line, cursor)
       IN  IF o = "ok" THEN AfterEvent("Command", StrRemove(line, cursor), cursor)
           ELSE PanicAt(o)

\* Left / Right: one byte, within 0 .. command.len().
CursorLeft ==
    /\ Live /\ mode = "Command"
    /\ AfterEvent("Command", line, IF cursor # 0 THEN cursor - 1 ELSE cursor)

\* Variant without the "cursor < command.len()" guard.
CursorRightUnbounded ==
    /\ Live /\ mode = "Command"
    /\ AfterEvent("Command", line, cursor + 1)

CursorRight ==
    /\ Live /\ mode = "Command"
    /\ AfterEvent("Command", line, IF cursor < ByteLen(line) THEN cursor + 1 ELSE cursor)

\* A character key (no modifier but Shift): insert(cursor, ch), cursor += 1.
InsertChar(ch) ==
    /\ Live /\ mode = "Command" /\ Len(line) < MaxChars
    /\ IF cursor \in Boundaries(line)
       THEN LET k == CHOOSE i \in 1 .. Len(line) + 1 : Offset(line, i) = cursor
            IN  AfterEvent("Command",
                           InsertAt(line, k, ch),
                           cursor + 1)
       ELSE PanicAt("char_boundary")

\* Esc, and Enter (finish: the handler's mode is Normal or Quitting).
Leave ==
    /\ Live /\ mode = "Command"
    /\ AfterEvent("Normal", line, cursor)

Next ==
    \/ EnterCommand
    \/ RemoveLast
    \/ RemoveThis
    \/ CursorLeft
    \/ CursorRight
    \/ \E ch \in Chars : InsertChar(ch)
    \/ Leave

Spec == Init /\ [][Next]_vars

(***************************************************************************)
(* Properties.                                                             *)
(***************************************************************************)

TypeOK ==
    /\ mode \in {"Normal", "Command"}
    /\ line \in Seq(Chars) /\ Len(line) <= MaxChars
    /\ cursor \in 0 .. ByteLen(line)
    /\ promptCol \in Nat
    /\ panic \in Panics
    /\ build \in Builds

\* The prompt renderer's usize arithmetic is safe in either build: after
\* every key, start_column (kept across keys and across prompts in
\* last_visible_prompt_col) is at most the cursor when
\* "self.cursor - start_column" is computed, and the slice it prints runs
\* forwards.
PromptArithmeticSafe == panic \notin {"underflow", "slice_range"}

\* The search prompt's contract, for each build: for every pattern of at
\* most MaxPieces pieces, cursor, last start column at most one past the
\* cursor, width and hex flag, render_with_size neither panics nor
\* returns a start column past the cursor, and the hex prompt draws the
\* piece under the cursor.  A Search key moves the cursor
\* or the pattern length by at most one, so starting from a column the
\* previous render returned keeps last <= cursor + 1.
SearchContract(b) ==
    \A ps \in BoundedSeq(PieceKinds, MaxPieces) :
      \A cur \in 0 .. Len(ps), last \in 0 .. Len(ps) + 1,
         cols \in SearchCols, hex \in BOOLEAN :
        last <= cur + 1 =>
          LET r == RenderSearch(ps, cur, last, cols, hex, b)
          IN  /\ r.fault = "none"
              /\ r.col <= cur
              /\ hex /\ cur < Len(ps) => cur \in r.shown

\* Both builds' verdicts, computed once.
SearchContractByBuild ==
    [debug |-> SearchContract("debug"), release |-> SearchContract("release")]

\* The search prompt (view.rs render_with_size for Search) never panics
\* and keeps its start column at most the cursor (the hex prompt showing
\* the cursor's piece), on every width it is checked at, in the build the
\* program is.
SearchPromptSafe == SearchContractByBuild[build]

(***************************************************************************)
(* Refinement.  The prompt implements AbstractLine: the line is the       *)
(* abstract text, the insertion point the number of characters that start *)
(* before the byte cursor, and the prompt is open in Command mode.  The   *)
(* start column and the panic are internal: a key that only redraws, or  *)
(* that panics, is a stuttering step of the abstract line.                *)
(***************************************************************************)
CharsBefore(s, b) == Cardinality({k \in 1 .. Len(s) : Offset(s, k) < b})

Abs == INSTANCE AbstractLine
           WITH Chars <- Chars, open <- (mode = "Command"),
                text <- line, pos <- CharsBefore(line, cursor)

\* Command::transition edits the line as a line of characters: Backspace
\* removes the character before the cursor and moves it back, Delete the
\* one under it, Left/Right move by one character and stop at both ends,
\* a key inserts at the cursor, ':' starts an empty line.
AbsSpec == Abs!Spec

\* "Nothing panics on user input" (spec, error policy): no key of the
\* prompt makes String::insert, String::remove or the prompt's slice panic.
NoPanicOnInput == panic = "none"

=============================================================================
