----------------------- MODULE SharedTaskQueue_proofs -----------------------
(* Proofs about SharedTaskQueue, for any set of agents and any bounds. *)
EXTENDS SharedTaskQueue, TLAPS

\* The write lock is held exactly by the agent inside a transaction, and what
\* that agent selected is still the oldest pending row.
LockInv ==
  \A a \in Agent :
    /\ pc[a] \in InTransaction <=> lock = a
    /\ pc[a] \in {"selected", "updated"} => Selected(row[a])

\* Who works on a task is named by its claimed row; a completed row carries
\* the result of its agent; ids are handed out in order.
RowInv ==
  /\ \A a \in Agent : pc[a] \in Working =>
       row[a] \in Task /\ status[row[a]] = "claimed" /\ assigned[row[a]] = a
  /\ \A t \in Task : status[t] = "completed" => result[t] = assigned[t] /\ assigned[t] \in Agent
  /\ \A t \in Task : status[t] = "absent" <=> t > lastId

IInv == TypeOK /\ LockInv /\ RowInv

-----------------------------------------------------------------------------
(* The type invariant. *)

LEMMA InitTyped == Init => TypeOK
BY QueueAssumption DEF Init, TypeOK, PC, Task, NoTask

LEMMA StepTyped == TypeOK /\ [Next]_vars => TypeOK'
<1> SUFFICES ASSUME TypeOK, [Next]_vars PROVE TypeOK'
  OBVIOUS
<1> USE QueueAssumption DEF TypeOK, tableVars, Move, PC, InTransaction, Working, NoTask
<1>1. CASE Enqueue
  <2>1. lastId' \in Task
    BY <1>1 DEF Enqueue, Task
  <2> QED BY <1>1, <2>1 DEF Enqueue
<1>2. ASSUME NEW a \in Agent, AgentStep(a) PROVE TypeOK'
  <2>1. CASE Begin(a)
    BY <2>1 DEF Begin
  <2>2. CASE Select(a)
    BY <2>2 DEF Select
  <2>3. CASE SelectNothing(a)
    BY <2>3 DEF SelectNothing
  <2>4. CASE Update(a)
    BY <2>4 DEF Update
  <2>5. CASE Commit(a)
    BY <2>5 DEF Commit
  <2>6. CASE WriteResult(a)
    BY <2>6 DEF WriteResult
  <2>7. CASE Complete(a)
    BY <2>7 DEF Complete, FinalStatus
  <2> QED BY <1>2, <2>1, <2>2, <2>3, <2>4, <2>5, <2>6, <2>7 DEF AgentStep
<1>3. ASSUME NEW a \in Agent, Crash(a) \/ LockTimeout(a) PROVE TypeOK'
  BY <1>3 DEF Crash, LockTimeout, Die
<1>4. ASSUME NEW a \in Agent, Respawn(a) PROVE TypeOK'
  BY <1>4 DEF Respawn
<1>5. CASE UNCHANGED vars
  BY <1>5 DEF vars
<1> QED BY <1>1, <1>2, <1>3, <1>4, <1>5 DEF Next

\* Every variable keeps its type.
THEOREM QueueTyped == Spec => []TypeOK
BY InitTyped, StepTyped, PTL DEF Spec

-----------------------------------------------------------------------------
(* The inductive invariant. *)

LEMMA InitIInv == Init => IInv
<1> SUFFICES ASSUME Init PROVE IInv
  OBVIOUS
<1>1. TypeOK
  BY InitTyped
<1>2. LockInv
  BY QueueAssumption DEF Init, LockInv, InTransaction
<1>3. RowInv
  BY DEF Init, RowInv, Working, Task
<1> QED BY <1>1, <1>2, <1>3 DEF IInv

LEMMA StepLockInv == IInv /\ [Next]_vars => LockInv'
<1> SUFFICES ASSUME IInv, [Next]_vars PROVE LockInv'
  OBVIOUS
<1>t. TypeOK /\ LockInv
  BY DEF IInv
<1> USE QueueAssumption, <1>t DEF TypeOK, tableVars, Move, InTransaction, Working
<1>1. CASE Enqueue
  BY <1>1 DEF Enqueue, LockInv
<1>2. ASSUME NEW a \in Agent, AgentStep(a) PROVE LockInv'
  <2>1. CASE Begin(a)
    BY <2>1 DEF Begin, LockInv
  <2>2. CASE Select(a)
    BY <2>2 DEF Select, LockInv, Selected, Pending
  <2>3. CASE SelectNothing(a)
    BY <2>3 DEF SelectNothing, LockInv
  <2>4. CASE Update(a)
    BY <2>4 DEF Update, LockInv, Selected, Pending
  <2>5. CASE Commit(a)
    BY <2>5 DEF Commit, LockInv
  <2>6. CASE WriteResult(a)
    BY <2>6 DEF WriteResult, LockInv, Selected, Pending
  <2>7. CASE Complete(a)
    BY <2>7 DEF Complete, LockInv
  <2> QED BY <1>2, <2>1, <2>2, <2>3, <2>4, <2>5, <2>6, <2>7 DEF AgentStep
<1>3. ASSUME NEW a \in Agent, Crash(a) \/ LockTimeout(a) PROVE LockInv'
  BY <1>3 DEF Crash, LockTimeout, Die, LockInv, Selected, Pending
<1>4. ASSUME NEW a \in Agent, Respawn(a) PROVE LockInv'
  BY <1>4 DEF Respawn, LockInv, Selected, Pending
<1>5. CASE UNCHANGED vars
  BY <1>5 DEF vars, LockInv, Selected, Pending
<1> QED BY <1>1, <1>2, <1>3, <1>4, <1>5 DEF Next

LEMMA StepRowInv == IInv /\ [Next]_vars => RowInv'
<1> SUFFICES ASSUME IInv, [Next]_vars PROVE RowInv'
  OBVIOUS
<1>t. TypeOK /\ RowInv
  BY DEF IInv
<1> USE QueueAssumption, <1>t DEF TypeOK, tableVars, Move, Working, Task, NoTask
<1>1. CASE Enqueue
  BY <1>1 DEF Enqueue, RowInv
<1>2. ASSUME NEW a \in Agent, AgentStep(a) PROVE RowInv'
  <2>1. CASE Begin(a)
    BY <2>1 DEF Begin, RowInv
  <2>2. CASE Select(a)
    BY <2>2 DEF Select, RowInv
  <2>3. CASE SelectNothing(a)
    BY <2>3 DEF SelectNothing, RowInv
  <2>4. CASE Update(a)
    BY <2>4 DEF Update, RowInv
  <2>5. CASE Commit(a)
    <3>1. row[a] \in Task /\ status[row[a]] = "pending"
      BY <2>5 DEF Commit, IInv, LockInv, Selected, Pending
    <3> QED BY <2>5, <3>1 DEF Commit, RowInv
  <2>6. CASE WriteResult(a)
    BY <2>6 DEF WriteResult, RowInv
  <2>7. CASE Complete(a)
    BY <2>7 DEF Complete, FinalStatus, RowInv
  <2> QED BY <1>2, <2>1, <2>2, <2>3, <2>4, <2>5, <2>6, <2>7 DEF AgentStep
<1>3. ASSUME NEW a \in Agent, Crash(a) \/ LockTimeout(a) PROVE RowInv'
  BY <1>3 DEF Crash, LockTimeout, Die, RowInv
<1>4. ASSUME NEW a \in Agent, Respawn(a) PROVE RowInv'
  BY <1>4 DEF Respawn, RowInv
<1>5. CASE UNCHANGED vars
  BY <1>5 DEF vars, RowInv
<1> QED BY <1>1, <1>2, <1>3, <1>4, <1>5 DEF Next

LEMMA QueueInvariant == Spec => []IInv
<1>1. IInv /\ [Next]_vars => IInv'
  BY StepTyped, StepLockInv, StepRowInv DEF IInv
<1> QED BY InitIInv, <1>1, PTL DEF Spec

\* No two agents ever work on one task.
THEOREM SingleAssignment == Spec => []NoDoubleAssignment
<1>1. IInv => NoDoubleAssignment
  BY DEF IInv, RowInv, NoDoubleAssignment, Holds, Working
<1> QED BY QueueInvariant, <1>1, PTL

\* The table names the agent that works on a task, and the one that completed it.
THEOREM TableIsRight == Spec => []TableAgrees
<1>1. IInv => TableAgrees
  BY QueueAssumption DEF IInv, RowInv, TableAgrees, Holds, Working
<1> QED BY QueueInvariant, <1>1, PTL

-----------------------------------------------------------------------------
(* Refinement. *)

\* The queue with its transactions, crashes and lock timeouts implements
\* TaskAllocation: a COMMIT is a Claim, everything but inserts, claims and
\* completions is a stutter.
THEOREM QueueRefinesAllocation == Spec => ImplementsAllocation
<1>1. Init => Allocation!AInit
  BY DEF Init, Allocation!AInit, Allocation!Task, Task
<1>2. IInv /\ [Next]_vars => [Allocation!ANext]_(Allocation!avars)
  <2> SUFFICES ASSUME IInv, [Next]_vars
               PROVE  Allocation!ANext \/ UNCHANGED <<status, assigned>>
    BY DEF Allocation!avars
  <2>t. TypeOK /\ RowInv /\ LockInv /\ Task = Allocation!Task
    BY DEF IInv, Task, Allocation!Task
  <2>1. CASE Enqueue
    <3>1. lastId' \in Task /\ Allocation!Add(lastId')
      BY <2>1, <2>t, QueueAssumption DEF Enqueue, Allocation!Add, TypeOK, RowInv, Task
    <3> QED BY <3>1, <2>t DEF Allocation!ANext
  <2>2. ASSUME NEW a \in Agent, AgentStep(a)
        PROVE  Allocation!ANext \/ UNCHANGED <<status, assigned>>
    <3>1. CASE Commit(a)
      <4>1. Selected(row[a])
        BY <3>1, <2>t DEF Commit, LockInv
      <4>2. row[a] \in Task /\ Allocation!Claim(a, row[a])
        BY <3>1, <4>1, <2>t DEF Commit, Selected, Pending, Allocation!Claim, Allocation!Task, Task
      <4> QED BY <4>2, <2>t DEF Allocation!ANext
    <3>2. CASE Complete(a)
      <4>1. row[a] \in Task /\ Allocation!Complete(row[a])
        BY <3>2, <2>t DEF Complete, FinalStatus, RowInv, Working, Allocation!Complete
      <4> QED BY <4>1, <2>t DEF Allocation!ANext
    <3> QED BY <2>2, <3>1, <3>2
            DEF AgentStep, Begin, Select, SelectNothing, Update, WriteResult, tableVars
  <2>3. ASSUME NEW a \in Agent, Crash(a) \/ LockTimeout(a) \/ Respawn(a)
        PROVE  UNCHANGED <<status, assigned>>
    BY <2>3 DEF Crash, LockTimeout, Respawn, Die, tableVars
  <2>4. CASE UNCHANGED vars
    BY <2>4 DEF vars
  <2> QED BY <2>1, <2>2, <2>3, <2>4 DEF Next
<1> QED BY <1>1, <1>2, QueueInvariant, PTL DEF Spec, ImplementsAllocation, Allocation!ASpec
=============================================================================
