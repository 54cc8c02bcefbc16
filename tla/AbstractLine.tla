---------------------------- MODULE AbstractLine ----------------------------
(***************************************************************************)
(* What the ":" prompt promises its user, whatever the encoding: a line   *)
(* of characters and an insertion point between two of them.  Keys insert *)
(* at the point, delete the character before or after it, or move it by  *)
(* one character; moving or deleting past an end does nothing.  Opening   *)
(* the prompt starts an empty line; closing it leaves the line alone.     *)
(* CommandLine refines this specification (see AbsSpec there).            *)
(***************************************************************************)
EXTENDS Integers, Sequences, SequencesExt

CONSTANTS
    Chars,     \* the characters the user may type
    MaxChars   \* bound on the characters of one line

VARIABLES
    open,      \* the prompt is shown and takes keys
    text,      \* the characters of the line
    pos        \* the insertion point, 0 .. Len(text)

absVars == <<open, text, pos>>

Init ==
    /\ open = FALSE
    /\ text = << >>
    /\ pos = 0

Open ==
    /\ ~open
    /\ open' = TRUE /\ text' = << >> /\ pos' = 0

Close ==
    /\ open
    /\ open' = FALSE /\ UNCHANGED <<text, pos>>

Type(c) ==
    /\ open /\ Len(text) < MaxChars
    /\ text' = InsertAt(text, pos + 1, c)
    /\ pos' = pos + 1
    /\ UNCHANGED open

DeleteBefore ==
    /\ open /\ pos > 0
    /\ text' = RemoveAt(text, pos)
    /\ pos' = pos - 1
    /\ UNCHANGED open

DeleteAfter ==
    /\ open /\ pos < Len(text)
    /\ text' = RemoveAt(text, pos + 1)
    /\ UNCHANGED <<open, pos>>

Left ==
    /\ open /\ pos > 0
    /\ pos' = pos - 1 /\ UNCHANGED <<open, text>>

Right ==
    /\ open /\ pos < Len(text)
    /\ pos' = pos + 1 /\ UNCHANGED <<open, text>>

Next ==
    \/ Open \/ Close
    \/ \E c \in Chars : Type(c)
    \/ DeleteBefore \/ DeleteAfter \/ Left \/ Right

Spec == Init /\ [][Next]_absVars

=============================================================================
