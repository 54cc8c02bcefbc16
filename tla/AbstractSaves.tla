---------------------------- MODULE AbstractSaves ----------------------------
(***************************************************************************)
(* What the ex commands promise about unsaved work (spec 6 "Command        *)
(* surface" and the policy of spec 7: "dirty buffer guards (:q, :db) must  *)
(* be bypassed explicitly with !"). For every file name the user is        *)
(* editing there is a set of unsaved texts: the contents of the edited,    *)
(* not yet written buffers of that name. A text leaves the set only when   *)
(* it is written to a file, when the user edits it into another text,   *)
(* or by a command carrying "!"; the editor stops only with nothing        *)
(* unsaved, or by a command carrying "!". Commands refines this            *)
(* specification (see AbsSpec there).                                     *)
(***************************************************************************)
EXTENDS FiniteSets

CONSTANTS
    Paths,      \* file names
    Contents,   \* texts
    Absent      \* no file at this name

VARIABLES
    files,      \* the file system: name -> text
    unsaved,    \* name -> the texts edited for it and not written
    mode,       \* "Normal" or "Quitting"
    bang        \* the last command carried "!"

saveVars == <<files, unsaved, mode, bang>>

NothingUnsaved(u) == \A p \in Paths : u[p] = {}

Init ==
    /\ files \in [Paths -> Contents \cup {Absent}]
    /\ NothingUnsaved(unsaved)
    /\ mode = "Normal"
    /\ bang \in BOOLEAN

\* The user edits a buffer of file p: its text, unsaved or not before,
\* becomes the unsaved text t.
Change(p) ==
    /\ mode = "Normal"
    /\ \E old \in unsaved[p] \cup {Absent}, t \in Contents :
         unsaved' = [unsaved EXCEPT ![p] = (@ \ {old}) \cup {t}]
    /\ bang' \in BOOLEAN
    /\ UNCHANGED <<files, mode>>

\* The files S are written; a text stops being unsaved only if one of them
\* now holds it (":w path" saves the buffer under another name, spec S6).
Saved(S) ==
    /\ \A p \in Paths \ S : files'[p] = files[p]
    /\ \A p \in S : files'[p] \in Contents
    /\ \A p \in Paths : /\ unsaved'[p] \subseteq unsaved[p]
                        /\ unsaved[p] \ unsaved'[p] \subseteq {files'[q] : q \in S}

Save ==
    /\ mode = "Normal"
    /\ \E S \in SUBSET Paths : Saved(S)
    /\ bang' \in BOOLEAN
    /\ UNCHANGED mode

\* A command with "!" may drop unsaved texts.
Discard ==
    /\ mode = "Normal"
    /\ bang'
    /\ \A p \in Paths : unsaved'[p] \subseteq unsaved[p]
    /\ UNCHANGED <<files, mode>>

\* The editor stops, possibly writing files on the way (:wq), with nothing
\* left unsaved unless the command carried "!".
Exit ==
    /\ mode = "Normal"
    /\ mode' = "Quitting"
    /\ \E S \in SUBSET Paths : Saved(S)
    /\ bang' \/ NothingUnsaved(unsaved')

Next == (\E p \in Paths : Change(p)) \/ Save \/ Discard \/ Exit

Spec == Init /\ [][Next]_saveVars

=============================================================================
