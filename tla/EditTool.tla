------------------------------ MODULE EditTool ------------------------------
(***************************************************************************)
(* The edit tool (tools/edit.py) on one path: the file, which processes of *)
(* the shell may write as well, and _file_history.  A text is a number,    *)
(* and whether it is raw, with tabs or CRLF in it: edits do not keep them. *)
(***************************************************************************)
EXTENDS Naturals, Sequences, SequencesExt

CONSTANTS MaxTexts,    \* bound: texts that are ever written
          MaxForeign   \* bound: of these, by others than the tool

ASSUME EditAssumption == MaxTexts \in Nat \ {0} /\ MaxForeign \in Nat

VARIABLES
  file,        \* the file: a text, or Absent
  history,     \* _file_history[path]
  editing,     \* an edit that has read the file and not written it
  texts, foreign,   \* texts so far, and how many of them by others
  edits,       \* history: the edits that succeeded and are not undone: what the
               \* file held when they wrote, whether others wrote it under them
  fresh        \* how many of these came after the last undo that failed
editVars == <<file, history, editing, texts, foreign, edits, fresh>>

Absent  == [text |-> 0, raw |-> TRUE]
Empty   == [text |-> 0, raw |-> FALSE]   \* a write that failed half-way
Text    == [text : 0 .. MaxTexts, raw : BOOLEAN]
Edit    == [was : Text, raced : BOOLEAN]
NoEdit  == [on |-> FALSE, old |-> Empty, new |-> Empty, raced |-> FALSE]
\* What read_file and expandtabs make of a text: LF for CRLF, blanks for tabs.
AsRead(t)  == [t EXCEPT !.raw = FALSE]
Fresh(raw) == [text |-> texts + 1, raw |-> raw]

(* EditTool!TypeOK: what the variables hold. *)
EditTypeOK ==
  /\ file \in Text
  /\ history \in Seq(Text \ {Absent}) /\ edits \in Seq(Edit) /\ fresh \in Nat
  /\ editing \in [on : BOOLEAN, old : Text, new : Text, raced : BOOLEAN]
  /\ texts \in 0 .. MaxTexts /\ foreign \in 0 .. MaxForeign

EditInit ==
  /\ \/ file = Absent /\ texts = 0
     \/ file = [text |-> 1, raw |-> TRUE] /\ texts = 1
  /\ history = <<>> /\ editing = NoEdit /\ foreign = 0 /\ edits = <<>> /\ fresh = 0

\* write_file: the text is written; or the file cannot be opened, or is
\* truncated and not written, which is a ToolError.
write_file(t, ok) ==
  IF ok THEN file' = t ELSE file' \in {file, Empty}

\* An edit succeeds: the file held this until now.
Succeeds(raced) ==
  edits' = Append(edits, [was |-> file, raced |-> raced]) /\ fresh' = fresh + 1

\* create: only where no file is; the text itself goes into the history.
create(raw, ok) ==
  /\ ~editing.on /\ file = Absent /\ texts < MaxTexts
  /\ texts' = texts + 1 /\ write_file(Fresh(raw), ok)
  /\ \/ ok /\ history' = Append(history, Fresh(raw)) /\ Succeeds(FALSE)
     \/ ~ok /\ UNCHANGED <<history, edits, fresh>>
  /\ UNCHANGED <<editing, foreign>>

\* str_replace and insert, up to the write; the text changes, as it was read.
EditReads ==
  /\ ~editing.on /\ file # Absent /\ texts < MaxTexts
  /\ texts' = texts + 1
  /\ editing' = [on |-> TRUE, old |-> AsRead(file), new |-> Fresh(FALSE),
                 raced |-> FALSE]
  /\ UNCHANGED <<file, history, foreign, edits, fresh>>

\* mutant: the old text is saved whether or not the write succeeds
WriteSavedFirst(ok) ==
  /\ editing.on /\ editing' = NoEdit
  /\ write_file(editing.new, ok) /\ history' = Append(history, editing.old)
  /\ \/ ok /\ Succeeds(editing.raced)
     \/ ~ok /\ UNCHANGED <<edits, fresh>>
  /\ UNCHANGED <<texts, foreign>>
\* The write, and on success the old text goes into the history.
EditWrites(ok) ==
  /\ editing.on /\ editing' = NoEdit
  /\ write_file(editing.new, ok)
  /\ \/ ok /\ history' = Append(history, editing.old) /\ Succeeds(editing.raced)
     \/ ~ok /\ UNCHANGED <<history, edits, fresh>>
  /\ UNCHANGED <<texts, foreign>>

\* undo_edit takes the text off the history before it writes it.  If the write
\* fails the text is gone, though the edit is not undone.
undo_edit(ok) ==
  /\ ~editing.on /\ file # Absent /\ history # <<>>
  /\ write_file(Last(history), ok) /\ history' = Front(history)
  /\ \/ ok /\ edits' = Front(edits) /\ fresh' = IF fresh = 0 THEN 0 ELSE fresh - 1
     \/ ~ok /\ fresh' = 0 /\ UNCHANGED edits
  /\ UNCHANGED <<editing, texts, foreign>>

\* A process of the shell writes the file or removes it.  While the tool keeps
\* nothing of the file that is no more than another initial state.
OthersWrite ==
  /\ editing.on \/ history # <<>>
  /\ foreign < MaxForeign /\ texts < MaxTexts
  /\ foreign' = foreign + 1 /\ texts' = texts + 1
  /\ file' \in {Fresh(TRUE), Absent}
  /\ editing' = [editing EXCEPT !.raced = editing.on]
  /\ UNCHANGED <<history, edits, fresh>>

\* A new message has a tool, and so a history, of its own.
EditNewTurn ==
  /\ ~editing.on /\ history' = <<>> /\ edits' = <<>> /\ fresh' = 0
  /\ UNCHANGED <<file, editing, texts, foreign>>

-----------------------------------------------------------------------------
(* An undo that succeeds writes what read_file and expandtabs make of what the *)
(* file held when the last edit that succeeded and is not undone wrote it,     *)
(* whatever failed before, with three exceptions: an undo has failed since     *)
(* that edit (its text, or that of an edit before it, is then gone for good,   *)
(* and an older one is written); that edit is a create, which keeps the        *)
(* created text and not that nothing was there; others wrote the file between  *)
(* its read and its write (EditTool20250124.undo_edit).                        *)
UndoRestores ==
  [][undo_edit(TRUE) /\ fresh > 0 /\ Last(edits).was # Absent /\ ~Last(edits).raced
       => file' = AsRead(Last(edits).was)]_editVars
=============================================================================
