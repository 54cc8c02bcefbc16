-------------------------- MODULE AbstractHistory --------------------------
(***************************************************************************)
(* What undo and redo promise (spec 4.4 and testable properties 3 and 4):  *)
(* the buffer moves along a line of versions.  Each version is the data   *)
(* together with the selection it had when the user left it.  An edit     *)
(* makes a new version after the current one and forgets the versions     *)
(* that redo could have reached; undo steps back to the previous version, *)
(* data and selection both, and redo steps forward again.  Moving the     *)
(* selection changes neither the data nor the line.  Buffer refines this  *)
(* specification (see AbsSpec there).                                      *)
(***************************************************************************)
EXTENDS Integers, Sequences

CONSTANT Bytes   \* the byte values the data may hold

VARIABLES
    data,    \* the current data
    sel,     \* the current selection region
    past,    \* the versions undo can reach, oldest first
    future   \* the versions redo can reach, the next one last

histVars == <<data, sel, past, future>>

Version(d, s) == [data |-> d, sel |-> s]

\* Spec invariant 2: both ends of the region lie in 0 .. len.
InBounds(s, d) == s.caret \in 0 .. Len(d) /\ s.tail \in 0 .. Len(d)

Init ==
    /\ data \in Seq(Bytes)
    /\ InBounds(sel, data)
    /\ past = << >>
    /\ future = << >>

Edit ==
    /\ data' \in Seq(Bytes)
    /\ InBounds(sel', data')
    /\ past' = Append(past, Version(data, sel))
    /\ future' = << >>

Select ==
    /\ InBounds(sel', data)
    /\ UNCHANGED <<data, past, future>>

Undo ==
    /\ past # << >>
    /\ data' = past[Len(past)].data
    /\ sel' = past[Len(past)].sel
    /\ past' = SubSeq(past, 1, Len(past) - 1)
    /\ future' = Append(future, Version(data, sel))

Redo ==
    /\ future # << >>
    /\ data' = future[Len(future)].data
    /\ sel' = future[Len(future)].sel
    /\ future' = SubSeq(future, 1, Len(future) - 1)
    /\ past' = Append(past, Version(data, sel))

Next == Edit \/ Select \/ Undo \/ Redo

Spec == Init /\ [][Next]_histVars

=============================================================================
