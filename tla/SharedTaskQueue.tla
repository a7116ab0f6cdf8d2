-------------------------- MODULE SharedTaskQueue --------------------------
(***************************************************************************)
(* The SQLite task queue that agents share (harness/shared_task_queue.py)  *)
(* and the agent processes that poll it (scripts/agent_worker.py).  SQLite *)
(* lets one connection at a time hold the write lock; what a transaction   *)
(* wrote becomes visible at COMMIT and is gone when its process dies.      *)
(***************************************************************************)
EXTENDS Naturals

CONSTANTS
  Agent,       \* agent ids
  NoAgent,     \* NULL in assigned_agent, and nobody holding the write lock
  MaxTasks,    \* bound: rows ever inserted
  MaxCrashes   \* bound: agent processes that die

ASSUME QueueAssumption == MaxTasks \in Nat /\ MaxCrashes \in Nat /\ NoAgent \notin Agent

Task   == 1..MaxTasks
NoTask == 0

VARIABLES
  lastId,     \* AUTOINCREMENT counter of tasks.id
  status,     \* tasks.status; "absent" before the INSERT
  assigned,   \* tasks.assigned_agent
  result,     \* the agent named in tasks.result
  lock,       \* the agent whose transaction holds the write lock
  pc,         \* where run_worker of an agent is
  row,        \* the task an agent selected, and then works on
  crashes     \* agent processes that died so far

tableVars == <<lastId, status, assigned, result>>
vars == <<lastId, status, assigned, result, lock, pc, row, crashes>>

InTransaction == {"begun", "selected", "updated"}
Working       == {"working", "written"}
PC == {"idle", "dead"} \cup InTransaction \cup Working

Init ==
  /\ lastId = 0
  /\ status = [t \in Task |-> "absent"]
  /\ assigned = [t \in Task |-> NoAgent]
  /\ result = [t \in Task |-> NoAgent]
  /\ lock = NoAgent
  /\ pc = [a \in Agent |-> "idle"]
  /\ row = [a \in Agent |-> NoTask]
  /\ crashes = 0

Move(a, to) == pc' = [pc EXCEPT ![a] = to]
Pending == {t \in Task : status[t] = "pending"}

-----------------------------------------------------------------------------
\* enqueue_task, one autocommitted INSERT.
Enqueue ==
  /\ lock = NoAgent /\ lastId < MaxTasks
  /\ lastId' = lastId + 1
  /\ status' = [status EXCEPT ![lastId'] = "pending"]
  /\ UNCHANGED <<assigned, result, lock, pc, row, crashes>>

BeginDeferred(a) ==   \* mutant: BEGIN takes no lock
  /\ pc[a] = "idle"
  /\ Move(a, "begun")
  /\ UNCHANGED <<tableVars, lock, row, crashes>>
\* claim_next_task: BEGIN IMMEDIATE waits until nobody else holds the write lock.
Begin(a) ==
  /\ pc[a] = "idle" /\ lock = NoAgent
  /\ lock' = a
  /\ Move(a, "begun")
  /\ UNCHANGED <<tableVars, row, crashes>>

SelectedAnyOrder(t) == t \in Pending   \* mutant: no ORDER BY id
SelectedUnfinished(t) == status[t] \in {"pending", "claimed"}   \* mutant: takes claimed rows too
\* SELECT ... WHERE status = 'pending' ORDER BY id LIMIT 1
Selected(t) == t \in Pending /\ \A u \in Pending : t <= u

Select(a) ==
  /\ pc[a] = "begun"
  /\ \E t \in Task : Selected(t) /\ row' = [row EXCEPT ![a] = t]
  /\ Move(a, "selected")
  /\ UNCHANGED <<tableVars, lock, crashes>>

SelectNothingNoCommit(a) ==   \* mutant: the early return leaves the transaction open
  /\ pc[a] = "begun" /\ Pending = {}
  /\ Move(a, "idle")
  /\ UNCHANGED <<tableVars, lock, row, crashes>>
\* The early return commits too.
SelectNothing(a) ==
  /\ pc[a] = "begun" /\ Pending = {}
  /\ Move(a, "idle")
  /\ lock' = NoAgent
  /\ UNCHANGED <<tableVars, row, crashes>>

\* UPDATE ... WHERE id = ? AND status = 'pending', seen by nobody until COMMIT.
Update(a) ==
  /\ pc[a] = "selected"
  /\ Move(a, "updated")
  /\ UNCHANGED <<tableVars, lock, row, crashes>>

\* COMMIT.  The number of rows the UPDATE changed is not looked at.
Commit(a) ==
  /\ pc[a] = "updated"
  /\ IF status[row[a]] = "pending"
     THEN /\ status' = [status EXCEPT ![row[a]] = "claimed"]
          /\ assigned' = [assigned EXCEPT ![row[a]] = a]
     ELSE UNCHANGED <<status, assigned>>
  /\ lock' = NoAgent
  /\ Move(a, "working")
  /\ UNCHANGED <<lastId, result, row, crashes>>

\* write_dummy_result into the agent's own worktree.
WriteResult(a) ==
  /\ pc[a] = "working"
  /\ Move(a, "written")
  /\ UNCHANGED <<tableVars, lock, row, crashes>>

FinalStatusDone == "done"   \* mutant: not a status of the table
FinalStatus == "completed"
\* complete_task, one autocommitted UPDATE ... WHERE id = ?.
Complete(a) ==
  /\ pc[a] = "written" /\ lock = NoAgent
  /\ status' = [status EXCEPT ![row[a]] = FinalStatus]
  /\ result' = [result EXCEPT ![row[a]] = a]
  /\ row' = [row EXCEPT ![a] = NoTask]
  /\ Move(a, "idle")
  /\ UNCHANGED <<lastId, assigned, lock, crashes>>

Die(a) ==
  /\ crashes < MaxCrashes /\ crashes' = crashes + 1
  /\ Move(a, "dead")
  /\ row' = [row EXCEPT ![a] = NoTask]
  /\ lock' = IF lock = a THEN NoAgent ELSE lock
  /\ UNCHANGED tableVars

\* The process dies at any point: SQLite rolls its transaction back.
Crash(a) == pc[a] # "dead" /\ Die(a)

\* 30 seconds without the write lock: RuntimeError or OperationalError, which
\* run_worker does not catch.
LockTimeout(a) ==
  /\ pc[a] \in {"idle", "written"} /\ lock \notin {a, NoAgent}
  /\ Die(a)

\* An operator starts the agent again.
Respawn(a) ==
  /\ pc[a] = "dead"
  /\ Move(a, "idle")
  /\ UNCHANGED <<tableVars, lock, row, crashes>>

AgentStep(a) == \/ Begin(a) \/ Select(a) \/ SelectNothing(a) \/ Update(a) \/ Commit(a)
                \/ WriteResult(a) \/ Complete(a)

Next == Enqueue \/ \E a \in Agent : AgentStep(a) \/ Crash(a) \/ LockTimeout(a) \/ Respawn(a)

Spec == Init /\ [][Next]_vars

\* An agent that lives goes on.  Complete competes with agents that poll an
\* empty queue: they sleep idle_sleep_seconds between two polls while SQLite
\* retries the lock all the time, so it gets the lock in the end.
Fairness == \A a \in Agent : WF_vars(AgentStep(a)) /\ SF_vars(Complete(a))
FairSpec == Spec /\ Fairness

-----------------------------------------------------------------------------
(* Properties. *)

Holds(a, t) == pc[a] \in Working /\ row[a] = t

TypeOK ==
  /\ lastId \in 0..MaxTasks
  /\ status \in [Task -> {"absent", "pending", "claimed", "completed"}]
  /\ assigned \in [Task -> Agent \cup {NoAgent}]
  /\ result \in [Task -> Agent \cup {NoAgent}]
  /\ lock \in Agent \cup {NoAgent}
  /\ pc \in [Agent -> PC]
  /\ row \in [Agent -> Task \cup {NoTask}]
  /\ crashes \in 0..MaxCrashes

\* "Concurrent claims MUST NOT assign the same task twice": no two agents ever
\* work on one task, whatever dies in between.
NoDoubleAssignment ==
  \A a, b \in Agent, t \in Task : Holds(a, t) /\ Holds(b, t) => a = b

\* The table agrees with the agents: who works on a task is the agent the row
\* names, and a completed row carries the result of the agent it was given to.
TableAgrees ==
  \A t \in Task :
    /\ \A a \in Agent : Holds(a, t) => status[t] = "claimed" /\ assigned[t] = a
    /\ status[t] = "completed" => result[t] = assigned[t] /\ assigned[t] # NoAgent

\* The queue implements the allocation it promises.
Allocation == INSTANCE TaskAllocation WITH state <- status, holder <- assigned
ImplementsAllocation == Allocation!ASpec

\* Every pending task is completed, unless its agent died with it (such a row
\* stays claimed) or every agent is dead.
Abandoned(t) == status[t] = "claimed" /\ \A a \in Agent : ~Holds(a, t)
AllDead == \A a \in Agent : pc[a] = "dead"
TaskServed ==
  \A t \in Task : status[t] = "pending" ~> (status[t] = "completed" \/ Abandoned(t) \/ AllDead)
=============================================================================
