------------------------------ MODULE Commands ------------------------------
(***************************************************************************)
(* The buffer collection (BuffrCollection, current_buffer.rs) and the     *)
(* ex-style commands of command mode (modes/command.rs): :q, :q!, :w,     *)
(* :wa, :wq, :e, :db, :db!, and the dirty flag they read and clear.       *)
(*                                                                         *)
(* A buffer's bytes are abstracted to a model value of Contents; an edit   *)
(* of any kind (apply_delta, undo, redo: all set dirty) replaces them by   *)
(* any value.  Every file is assumed to fit in the first chunk, so the    *)
(* buffer opened at startup holds the whole file (the window is the       *)
(* subject of Pager).  A command is the whole ":<name> <arg><Enter>"       *)
(* line; the keystrokes that compose it are not modelled here.  fs::write *)
(* may fail (permissions, full disk).  It is File::create, which empties   *)
(* the file, then write_all: a failure leaves the file as it was (create  *)
(* failed) or emptied or partly written (write_all failed).  A partly     *)
(* written file is abstracted to EmptyData: like the empty file it differs *)
(* from the buffer unless the buffer itself is empty.                      *)
(***************************************************************************)
EXTENDS Integers, Sequences, FiniteSets

CONSTANTS
    Paths,       \* file names the user may type
    Contents,    \* abstract buffer / file contents
    EmptyData,   \* the content of CurrentBuffer::default()
    NoPath,      \* path: None
    Absent,      \* no file at this path
    NoArg,       \* ":w" with no file name
    WriteArgs,   \* the arguments :w may be given (NoArg and/or paths)
    MaxBuffers   \* bound on the number of open buffers

ASSUME EmptyData \in Contents
ASSUME NoPath \notin Paths /\ Absent \notin Contents /\ NoArg \notin Paths
ASSUME WriteArgs \subseteq Paths \cup {NoArg}
ASSUME MaxBuffers \in Nat \ {0}

VARIABLES
    bufs,    \* BuffrCollection.list: [path, data, dirty] records
    cur,     \* BuffrCollection.cur_buf_index (0-based)
    files,   \* the file system: path -> content
    mode,    \* "Normal" or "Quitting" (the event loop stops)
    forced   \* history variable: the last command carried "!" (:q!, :db!)

vars == <<bufs, cur, files, mode, forced>>

Buffer == [path : Paths \cup {NoPath}, data : Contents, dirty : BOOLEAN]

\* CurrentBuffer::default() and from_data_and_path
ScratchBuffer == [path |-> NoPath, data |-> EmptyData, dirty |-> FALSE]
FileBuffer(p, d) == [path |-> p, data |-> d, dirty |-> FALSE]

Idx == 1 .. Len(bufs)
Cur == bufs[cur + 1]
HasPath(i) == bufs[i].path # NoPath

(***************************************************************************)
(* main(): a buffer for the file on the command line, or a scratch one.   *)
(***************************************************************************)
Init ==
    /\ files \in [Paths -> Contents \cup {Absent}]
    /\ \/ bufs = << ScratchBuffer >>
       \/ \E p \in Paths : files[p] # Absent /\ bufs = << FileBuffer(p, files[p]) >>
    /\ cur = 0
    /\ mode = "Normal"
    /\ forced = FALSE

(***************************************************************************)
(* Normal-mode edits: apply_delta_to_current_buffer, perform_undo and     *)
(* perform_redo all set dirty.                                             *)
(***************************************************************************)
EditCurrent ==
    /\ mode = "Normal"
    /\ \E d \in Contents :
         bufs' = [bufs EXCEPT ![cur + 1].data = d, ![cur + 1].dirty = TRUE]
    /\ forced' = FALSE
    /\ UNCHANGED <<cur, files, mode>>

(***************************************************************************)
(* Command handlers, the functions of mod cmd.                             *)
(***************************************************************************)

\* :q / :quit refuses while a buffer with a path is dirty.
Quit ==
    /\ mode = "Normal"
    /\ mode' = IF \E i \in Idx : bufs[i].dirty /\ HasPath(i)
               THEN "Normal" ELSE "Quitting"
    /\ forced' = FALSE
    /\ UNCHANGED <<bufs, cur, files>>

\* :q! / :quit!
ForceQuit ==
    /\ mode = "Normal"
    /\ mode' = "Quitting"
    /\ forced' = TRUE
    /\ UNCHANGED <<bufs, cur, files>>

\* What a failed fs::write leaves at p: the old file, or the emptied one.
FailedWrite(p) == {files[p], EmptyData}

\* :w [file]: write the current buffer to the argument, or to its own path;
\* on success clear dirty and adopt the path if the buffer had none.
Write(arg) ==
    LET target == IF arg = NoArg THEN Cur.path ELSE arg
    IN  /\ mode = "Normal"
        /\ target # NoPath
        /\ \/ /\ files' = [files EXCEPT ![target] = Cur.data]
              /\ bufs' = [bufs EXCEPT ![cur + 1].dirty = FALSE,
                                      ![cur + 1].path =
                                          IF @ = NoPath THEN target ELSE @]
           \/ /\ files' \in {[files EXCEPT ![target] = v] : v \in FailedWrite(target)}
              /\ UNCHANGED bufs                  \* "write failed: ..."
        /\ forced' = FALSE
        /\ UNCHANGED <<cur, mode>>

\* :wa and :wq walk the list in order, writing every buffer with a path and
\* clearing its dirty flag, and return at the first failed write.  ok is the
\* number of pathed buffers written before the walk stops; torn, whether
\* the failed write emptied its file.
WriteEach(ok, torn) ==
    LET pathed  == {i \in Idx : HasPath(i)}
        written == {i \in pathed : Cardinality({j \in pathed : j <= i}) <= ok}
        failed  == {i \in pathed : Cardinality({j \in pathed : j <= i}) = ok + 1}
    IN  /\ files' = [p \in Paths |->
                        IF torn /\ \E i \in failed : bufs[i].path = p
                        THEN EmptyData
                        ELSE IF \E i \in written : bufs[i].path = p
                        THEN bufs[CHOOSE i \in written :
                                    /\ bufs[i].path = p
                                    /\ \A j \in written : bufs[j].path = p => j <= i].data
                        ELSE files[p]]
        /\ bufs' = [i \in Idx |-> IF i \in written
                                  THEN [bufs[i] EXCEPT !.dirty = FALSE]
                                  ELSE bufs[i]]

PathedCount == Cardinality({i \in Idx : HasPath(i)})

\* :wa / :write-all
WriteAll ==
    /\ mode = "Normal"
    /\ \E ok \in 0 .. PathedCount, torn \in BOOLEAN : WriteEach(ok, torn)
    /\ forced' = FALSE
    /\ UNCHANGED <<cur, mode>>

\* :wq: as :wa, then quit if every write succeeded.
WriteQuit ==
    /\ mode = "Normal"
    /\ \E ok \in 0 .. PathedCount, torn \in BOOLEAN :
         /\ WriteEach(ok, torn)
         /\ mode' = IF ok = PathedCount THEN "Quitting" ELSE "Normal"
    /\ forced' = FALSE
    /\ UNCHANGED cur

\* :e file: switch_current_buffer.  canonicalize() fails on a missing file;
\* a buffer already holding the path becomes current; otherwise the whole
\* file is read into a new buffer at the end of the list.
SwitchCurrentBuffer(p) ==
    IF \E i \in Idx : bufs[i].path = p
    THEN /\ cur' = (CHOOSE i \in Idx : bufs[i].path = p
                                 /\ \A j \in Idx : bufs[j].path = p => i <= j) - 1
         /\ UNCHANGED bufs
    ELSE /\ Len(bufs) < MaxBuffers
         /\ bufs' = Append(bufs, FileBuffer(p, files[p]))
         /\ cur' = Len(bufs)

Edit(p) ==
    /\ mode = "Normal"
    /\ files[p] # Absent
    /\ SwitchCurrentBuffer(p)
    /\ forced' = FALSE
    /\ UNCHANGED <<files, mode>>

\* Variant that forgets to refill an emptied list.
DeleteCurrentNoRefill ==
    /\ bufs' = [i \in 1 .. Len(bufs) - 1 |-> IF i <= cur THEN bufs[i] ELSE bufs[i + 1]]
    /\ cur' = IF cur > 0 THEN cur - 1 ELSE 0

\* delete_current: remove, step the index back, never leave the list empty.
DeleteCurrent ==
    LET rest == [i \in 1 .. Len(bufs) - 1 |->
                    IF i <= cur THEN bufs[i] ELSE bufs[i + 1]]
    IN  /\ bufs' = IF rest = << >> THEN << ScratchBuffer >> ELSE rest
        /\ cur' = IF cur > 0 THEN cur - 1 ELSE 0

\* Variant of :db without the dirty-buffer guard.
DeleteBufferUnguarded(force) ==
    /\ mode = "Normal"
    /\ DeleteCurrent
    /\ forced' = force
    /\ UNCHANGED <<files, mode>>

\* :db refuses a dirty buffer that has a path; :db! does not.
DeleteBuffer(force) ==
    /\ mode = "Normal"
    /\ force \/ ~(Cur.dirty /\ Cur.path # NoPath)
    /\ DeleteCurrent
    /\ forced' = force
    /\ UNCHANGED <<files, mode>>

Next ==
    \/ EditCurrent
    \/ Quit
    \/ ForceQuit
    \/ \E a \in WriteArgs : Write(a)
    \/ WriteAll
    \/ WriteQuit
    \/ \E p \in Paths : Edit(p)
    \/ \E f \in BOOLEAN : DeleteBuffer(f)

Spec == Init /\ [][Next]_vars

(***************************************************************************)
(* Properties.                                                             *)
(***************************************************************************)

TypeOK ==
    /\ bufs \in Seq(Buffer) /\ Len(bufs) \in 1 .. MaxBuffers
    /\ cur \in 0 .. Len(bufs) - 1
    /\ files \in [Paths -> Contents \cup {Absent}]
    /\ mode \in {"Normal", "Quitting"}
    /\ forced \in BOOLEAN

\* When the editor stops without "!" (by :q, or by :wq after every write
\* succeeded), every buffer that has a path is in its file: :q trusts the
\* dirty flag, which only a successful write clears (spec 6), and an I/O
\* error must leave no state corrupted (spec 7).  A failed fs::write in
\* cmd::write has already emptied the file and leaves dirty as it was.
QuitLeavesFilesSaved ==
    (mode = "Quitting" /\ ~forced)
        => \A i \in Idx : HasPath(i) => files[bufs[i].path] = bufs[i].data

(***************************************************************************)
(* Refinement.  The unsaved texts of a file are the contents of the dirty *)
(* buffers that carry its name; "!" is the history variable forced.       *)
(***************************************************************************)
UnsavedOf(p) == {bufs[i].data : i \in {j \in Idx : bufs[j].dirty /\ bufs[j].path = p}}

Saves == INSTANCE AbstractSaves
             WITH unsaved <- [p \in Paths |-> UnsavedOf(p)], bang <- forced

\* :w, :wa, :wq, :e, :db and the quits keep the promise of AbstractSaves:
\* an edit made to a file's buffer disappears only by being written to that
\* file, by a further edit, or by a command with "!", and the editor stops
\* only with every such edit written or by a command with "!".
AbsSpec == Saves!Spec

=============================================================================
