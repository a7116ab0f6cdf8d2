------------------------------- MODULE Tools -------------------------------
(***************************************************************************)
(* The bash tool and the edit tool of a worker (tools/collection.py): the  *)
(* loop calls one after the other, but what a shell runs, and what it has  *)
(* left running, changes the file meanwhile.                               *)
(***************************************************************************)
EXTENDS BashSession, EditTool

CONSTANT Budgets   \* bounds: how many calls of bash and of edit there are

ASSUME ToolsAssumption == Budgets \subseteq [bash : Nat, edit : Nat]

VARIABLE budget
vars == <<bashVars, editVars, budget>>

(* Tools!TypeOK: the two tools have their types, and one call is at work.  *)
TypeOK == BashTypeOK /\ EditTypeOK /\ ~(editing.on /\ waiting > 0)
          /\ budget \in [bash : Nat, edit : Nat]

Init == BashInit /\ EditInit /\ budget \in Budgets

Spend(tool) == budget[tool] > 0 /\ budget' = [budget EXCEPT ![tool] = @ - 1]

\* ToolCollection.run awaits a tool before the next is called.
BashStep ==
  /\ BashNext /\ UNCHANGED editVars
  /\ IF calls' = calls THEN UNCHANGED budget ELSE ~editing.on /\ Spend("bash")

\* A call of the edit tool is a call like any other.
EditCall ==
  /\ Called(Nothing) /\ Spend("edit")
  /\ \/ \E raw, ok \in BOOLEAN : create(raw, ok)
     \/ EditReads \/ (\E ok \in BOOLEAN : undo_edit(ok))
  /\ result' = None
  /\ UNCHANGED <<session, waiting, shellVars, readerVars, messy>>
EditStep == (\E ok \in BOOLEAN : EditWrites(ok)) /\ UNCHANGED <<bashVars, budget>>

\* Whatever runs may write the file.
FileChanges ==
  /\ busy > 0 \/ child \/ others
  /\ OthersWrite /\ UNCHANGED <<bashVars, budget>>

\* sampling_loop makes a new ToolCollection for every message.
NewTurn == BashNewTurn /\ EditNewTurn /\ UNCHANGED budget

Next == BashStep \/ EditCall \/ EditStep \/ FileChanges \/ NewTurn

Spec == Init /\ [][Next]_vars
=============================================================================
