----------------------------- MODULE MCCommands -----------------------------
(* Two file names, three contents (one of them the empty buffer), up to    *)
(* three open buffers: enough for two buffers to share or swap paths and   *)
(* for :wa to stop half-way through the list.                               *)
EXTENDS Commands, TLC

CONSTANTS p1, p2, e, c1, c2

MCPaths    == {p1, p2}
MCContents == {e, c1, c2}
MCSymmetry == Permutations(MCPaths)

\* :w given no file name only
MCWriteArgsOwn == {NoArg}
\* :w given no file name, or any file name
MCWriteArgsAny == {NoArg} \cup MCPaths

=============================================================================
