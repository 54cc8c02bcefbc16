--------------------------- MODULE MCCommandLine ---------------------------
EXTENDS CommandLine

CONSTANTS x, y, e

\* ASCII only (x and y), or ASCII and a two-byte character such as 'é' (e).
MCAscii == {x, y}
MCUtf8 == {x, e}
MCWidth == [c \in {x, y, e} |-> IF c = e THEN 2 ELSE 1]
MCBuilds == {"debug", "release"}
=============================================================================
