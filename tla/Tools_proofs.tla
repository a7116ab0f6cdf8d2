----------------------------- MODULE Tools_proofs -----------------------------
(* Proofs about the bash tool and the edit tool together, for any programs, *)
(* limits and numbers of calls and texts.                                   *)
EXTENDS Tools, BashSession_proofs, SequenceTheorems, TLAPS

-----------------------------------------------------------------------------
(* The invariants: of the edit tool, and of the calls; that of the bash tool *)
(* is BashInv.                                                               *)

\* What an edit has saved is what it overwrote, as read, if the file was there
\* and nobody else wrote it meanwhile.
Saved(h, e) == e.was # Absent /\ ~e.raced => h = AsRead(e.was)

(* The history and the edits that are not undone end alike as far as no undo   *)
(* has failed; before that the history is the shorter one.                     *)
HistoryInv ==
  /\ fresh <= Len(history) /\ Len(history) <= Len(edits)
  /\ \A k \in 0 .. fresh - 1 :
       Saved(history[Len(history) - k], edits[Len(edits) - k])

\* What an edit has read is what it is about to overwrite.
EditingInv ==
  /\ editing.old # Absent
  /\ editing.on /\ ~editing.raced => editing.old = AsRead(file)

IInv == EditTypeOK /\ HistoryInv /\ EditingInv

\* One call is at work: the loop awaits a tool before it calls the next.
CallInv ==
  /\ ~(editing.on /\ waiting > 0)
  /\ budget \in [bash : Nat, edit : Nat]

EditNext ==
  \/ \E raw, ok \in BOOLEAN : create(raw, ok)
  \/ EditReads
  \/ \E ok \in BOOLEAN : EditWrites(ok)
  \/ \E ok \in BOOLEAN : undo_edit(ok)
  \/ OthersWrite \/ EditNewTurn

-----------------------------------------------------------------------------
(* Texts. *)

LEMMA TextsTyped ==
  ASSUME NEW t \in Text
  PROVE  AsRead(t) \in Text /\ AsRead(t) # Absent
<1>1. AsRead(t) \in Text
  BY DEF Text, AsRead
<1>2. AsRead(t).raw = FALSE /\ Absent.raw = TRUE
  BY DEF Text, AsRead, Absent
<1> QED BY <1>1, <1>2

LEMMA Constants ==
  /\ Absent \in Text /\ Empty \in Text
  /\ NoEdit \in [on : BOOLEAN, old : Text, new : Text, raced : BOOLEAN]
  /\ NoEdit.on = FALSE /\ NoEdit.old # Absent
<1>1. MaxTexts \in Nat
  BY EditAssumption
<1>2. Absent \in Text /\ Empty \in Text
  BY <1>1 DEF Absent, Empty, Text
<1>3. Empty # Absent
  <2>1. Empty.raw = FALSE /\ Absent.raw = TRUE
    BY DEF Empty, Absent
  <2> QED BY <2>1
<1> QED BY <1>2, <1>3 DEF NoEdit

LEMMA FreshTyped ==
  ASSUME texts \in Nat, texts < MaxTexts, NEW raw \in BOOLEAN
  PROVE  Fresh(raw) \in Text /\ Fresh(raw) # Absent /\ texts + 1 \in 0 .. MaxTexts
<1>1. MaxTexts \in Nat /\ texts + 1 \in 0 .. MaxTexts /\ texts + 1 # 0
  BY EditAssumption
<1>2. Fresh(raw) \in Text /\ Fresh(raw).text = texts + 1
  BY <1>1 DEF Fresh, Text
<1> QED BY <1>1, <1>2 DEF Absent

-----------------------------------------------------------------------------
(* The history and the edits. *)

\* The facts about lengths that the steps use.
LEMMA Lengths ==
  ASSUME IInv
  PROVE  /\ history \in Seq(Text \ {Absent}) /\ edits \in Seq(Edit)
         /\ Len(history) \in Nat /\ Len(edits) \in Nat /\ fresh \in Nat
         /\ fresh <= Len(history) /\ Len(history) <= Len(edits)
BY DEF IInv, EditTypeOK, HistoryInv

\* An edit that succeeds adds to both.
LEMMA BothGrow ==
  ASSUME IInv, NEW h \in Text \ {Absent}, NEW raced \in BOOLEAN,
         history' = Append(history, h), Succeeds(raced),
         Saved(h, [was |-> file, raced |-> raced])
  PROVE  /\ history' \in Seq(Text \ {Absent}) /\ edits' \in Seq(Edit)
         /\ fresh' \in Nat /\ HistoryInv'
<1> DEFINE e == [was |-> file, raced |-> raced]
<1>1. e \in Edit /\ edits' = Append(edits, e) /\ fresh' = fresh + 1
  BY DEF IInv, EditTypeOK, Edit, Succeeds
<1>2. history' \in Seq(Text \ {Absent}) /\ edits' \in Seq(Edit)
  BY <1>1, Lengths
<1>3. Len(history') = Len(history) + 1 /\ Len(edits') = Len(edits) + 1
  BY <1>1, Lengths
<1>4. ASSUME NEW k \in 0 .. fresh' - 1
      PROVE  Saved(history'[Len(history') - k], edits'[Len(edits') - k])
  <2>1. CASE k = 0
    <3>1. history'[Len(history')] = h /\ edits'[Len(edits')] = e
      BY <1>1, <1>3, Lengths
    <3>2. Len(history') - k = Len(history') /\ Len(edits') - k = Len(edits')
      BY <1>3, <2>1, Lengths
    <3> QED BY <3>1, <3>2
  <2>2. CASE k # 0
    <3>1. k - 1 \in 0 .. fresh - 1
      BY <1>1, <2>2, Lengths
    <3>2. /\ Len(history') - k = Len(history) - (k - 1)
          /\ Len(edits') - k = Len(edits) - (k - 1)
      BY <1>3, <3>1, Lengths
    <3>3. /\ Len(history) - (k - 1) \in 1 .. Len(history)
          /\ Len(edits) - (k - 1) \in 1 .. Len(edits)
      BY <3>1, Lengths
    <3>4. /\ history'[Len(history) - (k - 1)] = history[Len(history) - (k - 1)]
          /\ edits'[Len(edits) - (k - 1)] = edits[Len(edits) - (k - 1)]
      BY <1>1, <3>3, Lengths
    <3>5. Saved(history[Len(history) - (k - 1)], edits[Len(edits) - (k - 1)])
      BY <3>1 DEF IInv, HistoryInv
    <3> QED BY <3>2, <3>4, <3>5
  <2> QED BY <2>1, <2>2
<1>5. /\ fresh' \in Nat /\ fresh' <= Len(history') /\ Len(history') <= Len(edits')
  BY <1>1, <1>3, Lengths
<1> QED BY <1>2, <1>4, <1>5 DEF HistoryInv

\* The last of a sequence is taken off.
LEMMA FrontOf ==
  ASSUME NEW S, NEW s \in Seq(S), Len(s) > 0
  PROVE  /\ Front(s) \in Seq(S) /\ Len(Front(s)) = Len(s) - 1
         /\ \A i \in 1 .. Len(s) - 1 : Front(s)[i] = s[i]
<1>1. Front(s) = SubSeq(s, 1, Len(s) - 1)
  BY DEF Front
<1> DEFINE n == Len(s) - 1
<1>2. n \in Nat /\ \A i \in 1 .. n : s[i] \in S
  OBVIOUS
<1>3. /\ SubSeq(s, 1, n) \in Seq(S)
      /\ Len(SubSeq(s, 1, n)) = IF 1 <= n THEN n - 1 + 1 ELSE 0
      /\ \A i \in 1 .. n - 1 + 1 : SubSeq(s, 1, n)[i] = s[1 + i - 1]
  <2> HIDE DEF n
  <2> QED BY <1>2, SubSeqProperties
<1>4. Len(SubSeq(s, 1, n)) = n
  <2> HIDE DEF n
  <2> QED BY <1>2, <1>3
<1>5. ASSUME NEW i \in 1 .. n
      PROVE  SubSeq(s, 1, n)[i] = s[i]
  <2> HIDE DEF n
  <2>1. i \in 1 .. n - 1 + 1 /\ 1 + i - 1 = i
    BY <1>2
  <2> QED BY <1>3, <2>1
<1> QED BY <1>1, <1>3, <1>4, <1>5

\* An undo that succeeds takes the last of both.
LEMMA BothShrink ==
  ASSUME IInv, undo_edit(TRUE)
  PROVE  /\ history' \in Seq(Text \ {Absent}) /\ edits' \in Seq(Edit)
         /\ fresh' \in Nat /\ HistoryInv'
<1>1. /\ history' = Front(history) /\ edits' = Front(edits)
      /\ fresh' = IF fresh = 0 THEN 0 ELSE fresh - 1
  BY DEF undo_edit
<1>2. Len(history) > 0 /\ Len(edits) > 0
  BY Lengths DEF undo_edit
<1>3. /\ history' \in Seq(Text \ {Absent}) /\ edits' \in Seq(Edit)
      /\ Len(history') = Len(history) - 1 /\ Len(edits') = Len(edits) - 1
      /\ \A i \in 1 .. Len(history) - 1 : history'[i] = history[i]
      /\ \A i \in 1 .. Len(edits) - 1 : edits'[i] = edits[i]
  BY <1>1, <1>2, Lengths, FrontOf
<1>4. /\ fresh' \in Nat /\ fresh' <= Len(history') /\ Len(history') <= Len(edits')
  BY <1>1, <1>2, <1>3, Lengths
<1>5. ASSUME NEW k \in 0 .. fresh' - 1
      PROVE  Saved(history'[Len(history') - k], edits'[Len(edits') - k])
  <2>1. k + 1 \in 0 .. fresh - 1
    BY <1>1, Lengths
  <2>2. /\ Len(history') - k = Len(history) - (k + 1)
        /\ Len(edits') - k = Len(edits) - (k + 1)
        /\ Len(history) - (k + 1) \in 1 .. Len(history) - 1
        /\ Len(edits) - (k + 1) \in 1 .. Len(edits) - 1
    BY <1>3, <2>1, Lengths
  <2>3. Saved(history[Len(history) - (k + 1)], edits[Len(edits) - (k + 1)])
    BY <2>1 DEF IInv, HistoryInv
  <2> QED BY <1>3, <2>2, <2>3
<1> QED BY <1>3, <1>4, <1>5 DEF HistoryInv

\* One that fails takes the last of the history, and nothing is known of the
\* edits before.
LEMMA HistoryShrinks ==
  ASSUME IInv, undo_edit(FALSE)
  PROVE  /\ history' \in Seq(Text \ {Absent}) /\ edits' \in Seq(Edit)
         /\ fresh' \in Nat /\ HistoryInv'
<1>1. history' = Front(history) /\ edits' = edits /\ fresh' = 0
  BY DEF undo_edit
<1>2. Len(history) > 0
  BY Lengths DEF undo_edit
<1>3. history' \in Seq(Text \ {Absent}) /\ Len(history') = Len(history) - 1
  BY <1>1, <1>2, Lengths, FrontOf
<1>4. 0 .. fresh' - 1 = {}
  BY <1>1
<1> QED BY <1>1, <1>2, <1>3, <1>4, Lengths DEF HistoryInv

-----------------------------------------------------------------------------
(* The invariant. *)

LEMMA InitIInv == Init => IInv
<1> SUFFICES ASSUME Init PROVE IInv
  OBVIOUS
<1>1. MaxTexts \in Nat \ {0} /\ MaxForeign \in Nat
  BY EditAssumption
<1>2. file \in Text /\ texts \in 0 .. MaxTexts
  <2>1. CASE file = Absent /\ texts = 0
    BY <1>1, <2>1, Constants
  <2>2. CASE file = [text |-> 1, raw |-> TRUE] /\ texts = 1
    <3>1. 1 \in 0 .. MaxTexts
      BY <1>1
    <3>2. [text |-> 1, raw |-> TRUE] \in Text
      BY <3>1 DEF Text
    <3> QED BY <2>2, <3>1, <3>2
  <2> QED BY <2>1, <2>2 DEF Init, EditInit
<1>3. history = <<>> /\ edits = <<>> /\ editing = NoEdit /\ foreign = 0 /\ fresh = 0
  BY DEF Init, EditInit
<1>4. HistoryInv /\ history \in Seq(Text \ {Absent}) /\ edits \in Seq(Edit)
  BY <1>3 DEF HistoryInv
<1>5. EditingInv
  BY <1>3, Constants DEF EditingInv
<1> QED BY <1>1, <1>2, <1>3, <1>4, <1>5, Constants DEF IInv, EditTypeOK

\* What a step of the tool does to the history and the edits, together.
Recorded ==
  /\ history \in Seq(Text \ {Absent}) /\ edits \in Seq(Edit)
  /\ fresh \in Nat /\ HistoryInv

LEMMA StepIInv == IInv /\ (EditNext \/ UNCHANGED editVars) => IInv'
<1> SUFFICES ASSUME IInv, EditNext \/ UNCHANGED editVars PROVE IInv'
  OBVIOUS
<1>t. /\ file \in Text /\ editing.on \in BOOLEAN /\ editing.old \in Text
      /\ editing.new \in Text /\ editing.raced \in BOOLEAN
      /\ texts \in Nat /\ texts \in 0 .. MaxTexts /\ foreign \in Nat
      /\ MaxTexts \in Nat /\ MaxForeign \in Nat
      /\ Recorded
  BY EditAssumption DEF IInv, EditTypeOK, Recorded
<1>r. UNCHANGED <<history, edits, fresh>> => Recorded'
  BY <1>t DEF Recorded, HistoryInv
<1>w. ASSUME NEW t \in Text, NEW ok \in BOOLEAN, write_file(t, ok)
      PROVE  file' \in Text
  BY <1>t, <1>w, Constants DEF write_file
<1>1. ASSUME NEW raw \in BOOLEAN, NEW ok \in BOOLEAN, create(raw, ok) PROVE IInv'
  <2>1. Fresh(raw) \in Text \ {Absent} /\ texts' \in 0 .. MaxTexts
    BY <1>t, <1>1, FreshTyped DEF create
  <2>2. file' \in Text
    BY <1>1, <1>w, <2>1 DEF create
  <2>3. Recorded'
    <3>1. CASE UNCHANGED <<history, edits, fresh>>
      BY <1>r, <3>1
    <3>2. CASE history' = Append(history, Fresh(raw)) /\ Succeeds(FALSE)
      <4>1. Saved(Fresh(raw), [was |-> file, raced |-> FALSE])
        BY <1>1 DEF create, Saved
      <4> QED BY <2>1, <3>2, <4>1, BothGrow DEF Recorded
    <3> QED BY <1>1, <3>1, <3>2 DEF create
  <2>4. EditingInv' /\ UNCHANGED <<editing, foreign>>
    BY <1>1 DEF create, IInv, EditingInv
  <2> QED BY <2>1, <2>2, <2>3, <2>4 DEF IInv, EditTypeOK, Recorded
<1>2. CASE EditReads
  <2>1. /\ Fresh(FALSE) \in Text /\ texts' \in 0 .. MaxTexts /\ AsRead(file) \in Text
        /\ AsRead(file) # Absent
    BY <1>t, <1>2, FreshTyped, TextsTyped DEF EditReads
  <2>2. /\ editing' \in [on : BOOLEAN, old : Text, new : Text, raced : BOOLEAN]
        /\ EditingInv'
    BY <1>2, <2>1 DEF EditReads, EditingInv
  <2>3. Recorded'
    BY <1>2, <1>r DEF EditReads
  <2> QED BY <1>2, <2>1, <2>2, <2>3 DEF EditReads, IInv, EditTypeOK, Recorded
<1>3. ASSUME NEW ok \in BOOLEAN, EditWrites(ok) PROVE IInv'
  <2>1. file' \in Text
    BY <1>t, <1>3, <1>w DEF EditWrites
  <2>2. Recorded'
    <3>1. CASE UNCHANGED <<history, edits, fresh>>
      BY <1>r, <3>1
    <3>2. CASE history' = Append(history, editing.old) /\ Succeeds(editing.raced)
      <4>1. editing.old \in Text \ {Absent}
        BY <1>t DEF IInv, EditingInv
      <4>2. Saved(editing.old, [was |-> file, raced |-> editing.raced])
        BY <1>3 DEF EditWrites, IInv, EditingInv, Saved
      <4> QED BY <1>t, <3>2, <4>1, <4>2, BothGrow DEF Recorded
    <3> QED BY <1>3, <3>1, <3>2 DEF EditWrites
  <2>3. editing' = NoEdit /\ EditingInv' /\ UNCHANGED <<texts, foreign>>
    BY <1>3, Constants DEF EditWrites, EditingInv
  <2> QED BY <2>1, <2>2, <2>3, Constants DEF IInv, EditTypeOK, Recorded
<1>4. ASSUME NEW ok \in BOOLEAN, undo_edit(ok) PROVE IInv'
  <2>1. Last(history) \in Text
    BY <1>4, Lengths DEF undo_edit, Last
  <2>2. file' \in Text
    BY <1>4, <1>w, <2>1 DEF undo_edit
  <2>3. Recorded'
    BY <1>4, BothShrink, HistoryShrinks DEF Recorded
  <2>4. EditingInv' /\ UNCHANGED <<editing, texts, foreign>>
    BY <1>4 DEF undo_edit, IInv, EditingInv
  <2> QED BY <2>2, <2>3, <2>4 DEF IInv, EditTypeOK, Recorded
<1>5. CASE OthersWrite
  <2>1. Fresh(TRUE) \in Text /\ texts' \in 0 .. MaxTexts
    BY <1>t, <1>5, FreshTyped DEF OthersWrite
  <2>2. file' \in Text
    BY <1>5, <2>1, Constants DEF OthersWrite
  <2>3. foreign' \in 0 .. MaxForeign
    BY <1>t, <1>5 DEF OthersWrite
  <2>4. /\ editing' \in [on : BOOLEAN, old : Text, new : Text, raced : BOOLEAN]
        /\ EditingInv'
    BY <1>t, <1>5 DEF OthersWrite, EditingInv, IInv, EditTypeOK
  <2>5. Recorded'
    BY <1>5, <1>r DEF OthersWrite
  <2> QED BY <2>1, <2>2, <2>3, <2>4, <2>5 DEF IInv, EditTypeOK, Recorded
<1>6. CASE EditNewTurn
  <2>1. history' = <<>> /\ edits' = <<>> /\ fresh' = 0
    BY <1>6 DEF EditNewTurn
  <2>2. Recorded'
    BY <2>1 DEF Recorded, HistoryInv
  <2> QED BY <1>6, <2>2 DEF EditNewTurn, IInv, EditTypeOK, Recorded, EditingInv
<1>7. CASE UNCHANGED editVars
  BY <1>7, <1>r DEF editVars, IInv, EditTypeOK, EditingInv, Recorded
<1> QED BY <1>1, <1>2, <1>3, <1>4, <1>5, <1>6, <1>7 DEF EditNext

\* What the shell does to the file is OthersWrite.
LEMMA ToolsSteps == [Next]_vars => EditNext \/ UNCHANGED editVars
BY DEF Next, BashStep, EditCall, EditStep, FileChanges, NewTurn, vars, EditNext

LEMMA AlwaysIInv == Spec => []IInv
BY InitIInv, StepIInv, ToolsSteps, PTL DEF Spec

-----------------------------------------------------------------------------
(* The two tools together. *)

\* A call of the edit tool is one that the shell does not see.
LEMMA BashSteps ==
  ASSUME [Next]_vars
  PROVE  BashNext \/ OtherCall \/ BashNewTurn \/ UNCHANGED bashVars
BY DEF Next, BashStep, EditCall, EditStep, FileChanges, NewTurn, vars, OtherCall

LEMMA AlwaysBashInv == Spec => []BashInv
<1>1. Init => BashInv
  BY BashInitInv DEF Init
<1>2. BashInv /\ [Next]_vars => BashInv'
  BY BashSteps, BashStepInv
<1> QED BY <1>1, <1>2, PTL DEF Spec

\* The bash tool starts to wait in a call, and only then.
LEMMA WaitsForCalls ==
  ASSUME BashInv, BashNext, calls' = calls
  PROVE  waiting' = waiting \/ waiting' = 0
<1>1. calls \in Nat
  BY TypedFacts DEF BashInv
<1>2. ASSUME NEW p, Called(p) PROVE FALSE
  <2>1. calls' = calls + 1
    BY <1>2 DEF Called
  <2> QED BY <1>1, <2>1
<1> QED BY <1>2 DEF BashNext, ShellReads, ShellWrites, ShellReturns, ChildWrites, OthersEnd,
          Feed, FirstCommand, Send, Restart, Refuse, Returns, TimesOut, callVars

LEMMA Spent ==
  ASSUME CallInv, NEW tool \in {"bash", "edit"}, Spend(tool)
  PROVE  budget' \in [bash : Nat, edit : Nat]
<1>1. /\ budget \in [bash : Nat, edit : Nat] /\ budget[tool] > 0
      /\ budget' = [budget EXCEPT ![tool] = @ - 1]
  BY DEF CallInv, Spend
<1>2. budget[tool] \in Nat /\ budget[tool] - 1 \in Nat
  <2>1. budget[tool] \in Nat
    BY <1>1
  <2> QED BY <1>1, <2>1
<1> QED BY <1>1, <1>2

LEMMA InitCallInv == Init => CallInv
<1> SUFFICES ASSUME Init PROVE CallInv
  OBVIOUS
<1>1. waiting = 0 /\ budget \in Budgets
  BY DEF Init, BashInit
<1> QED BY <1>1, ToolsAssumption DEF CallInv

LEMMA StepCallInv ==
  ASSUME BashInv, IInv, CallInv, [Next]_vars
  PROVE  CallInv'
<1>w. waiting \in Nat
  BY TypedFacts DEF BashInv
<1>1. CASE BashStep
  <2>1. BashNext /\ UNCHANGED editing
    BY <1>1 DEF BashStep, editVars
  <2>2. CASE calls' = calls
    <3>1. waiting' = waiting \/ waiting' = 0
      BY <2>1, <2>2, WaitsForCalls
    <3>2. UNCHANGED budget
      BY <1>1, <2>2 DEF BashStep
    <3> QED BY <1>w, <2>1, <3>1, <3>2 DEF CallInv
  <2>3. CASE calls' # calls
    <3>1. ~editing.on /\ Spend("bash")
      BY <1>1, <2>3 DEF BashStep
    <3> QED BY <2>1, <3>1, Spent DEF CallInv
  <2> QED BY <2>2, <2>3
<1>2. CASE EditCall
  <2>1. waiting = 0 /\ waiting' = 0 /\ Spend("edit")
    BY <1>2 DEF EditCall, Called, CanCall
  <2> QED BY <2>1, Spent DEF CallInv
<1>3. CASE EditStep
  <2>1. ~editing'.on /\ UNCHANGED budget
    BY <1>3, Constants DEF EditStep, EditWrites
  <2> QED BY <2>1 DEF CallInv
<1>4. CASE FileChanges
  <2>1. editing'.on = editing.on /\ UNCHANGED <<waiting, budget>>
    BY <1>4 DEF FileChanges, OthersWrite, bashVars, IInv, EditTypeOK
  <2> QED BY <2>1 DEF CallInv
<1>5. CASE NewTurn
  <2>1. UNCHANGED <<editing, waiting, budget>>
    BY <1>5 DEF NewTurn, BashNewTurn, EditNewTurn
  <2> QED BY <2>1 DEF CallInv
<1>6. CASE UNCHANGED vars
  <2>1. UNCHANGED <<editing, waiting, budget>>
    BY <1>6 DEF vars, bashVars, editVars
  <2> QED BY <2>1 DEF CallInv
<1> QED BY <1>1, <1>2, <1>3, <1>4, <1>5, <1>6 DEF Next

LEMMA AlwaysCallInv == Spec => []CallInv
BY InitCallInv, StepCallInv, AlwaysBashInv, AlwaysIInv, PTL DEF Spec

-----------------------------------------------------------------------------
(* What the run checks, for any number of calls and of texts. *)

\* The state of the edit tool is well-formed: an absent file never gets into the
\* history, so undo_edit always has a text to write.
THEOREM EditTypeCorrect == Spec => []EditTypeOK
<1>1. IInv => EditTypeOK
  BY DEF IInv
<1> QED BY <1>1, AlwaysIInv, PTL

\* An undo that succeeds (undo_edit of edit.py) writes what the last edit that
\* succeeded and is not undone overwrote, as it was read, unless an undo failed
\* since, the edit was a create, or others wrote the file under it.
THEOREM UndoIsRight == Spec => UndoRestores
<1> DEFINE Right == undo_edit(TRUE) /\ fresh > 0 /\ Last(edits).was # Absent
                      /\ ~Last(edits).raced => file' = AsRead(Last(edits).was)
<1>1. ASSUME IInv, undo_edit(TRUE), fresh > 0, Last(edits).was # Absent,
             ~Last(edits).raced
      PROVE  file' = AsRead(Last(edits).was)
  <2>1. /\ 0 \in 0 .. fresh - 1
        /\ Len(history) - 0 = Len(history) /\ Len(edits) - 0 = Len(edits)
    BY <1>1, Lengths
  <2>2. Saved(history[Len(history)], edits[Len(edits)])
    BY <1>1, <2>1 DEF IInv, HistoryInv
  <2>3. file' = Last(history)
    BY <1>1 DEF undo_edit, write_file
  <2> QED BY <1>1, <2>2, <2>3 DEF Saved, Last
<1>2. IInv => [Right]_editVars
  BY <1>1
<1> QED BY <1>2, AlwaysIInv, PTL DEF Spec, UndoRestores

\* The state of both tools is well-formed, no reader takes a piece into a buffer
\* that is over its limit, and no call of one tool begins while a call of the
\* other is at work (ToolCollection.run).
THEOREM TypeCorrect == Spec => []TypeOK
<1>1. BashInv /\ EditTypeOK /\ CallInv => TypeOK
  BY BashTypes DEF CallInv, TypeOK
<1> QED BY <1>1, AlwaysBashInv, EditTypeCorrect, AlwaysCallInv, PTL

\* Whatever the shell and the readers do meanwhile, a result of the bash tool
\* (_BashSession.run) holds the whole standard output of its own command and
\* nothing else, as long as no command prints the sentinel or leaves a process.
THEOREM ResultsAreOwn == Spec => []OutputIsOwn
<1>1. BashInv => OutputIsOwn
  BY DEF BashInv
<1> QED BY <1>1, AlwaysBashInv, PTL
=============================================================================
