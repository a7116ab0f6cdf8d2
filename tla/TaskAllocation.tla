--------------------------- MODULE TaskAllocation ---------------------------
(* What the shared task queue promises: tasks are handed out in the order    *)
(* they were added, each to one agent, and only that agent completes it.     *)
EXTENDS Naturals

CONSTANTS Agent, NoAgent, MaxTasks

Task == 1..MaxTasks

VARIABLES state, holder

avars == <<state, holder>>

AInit ==
  /\ state = [t \in Task |-> "absent"]
  /\ holder = [t \in Task |-> NoAgent]

Add(t) ==
  /\ state[t] = "absent" /\ \A u \in Task : u < t => state[u] # "absent"
  /\ state' = [state EXCEPT ![t] = "pending"]
  /\ UNCHANGED holder

Claim(a, t) ==
  /\ state[t] = "pending" /\ \A u \in Task : u < t => state[u] # "pending"
  /\ state' = [state EXCEPT ![t] = "claimed"]
  /\ holder' = [holder EXCEPT ![t] = a]

Complete(t) ==
  /\ state[t] = "claimed"
  /\ state' = [state EXCEPT ![t] = "completed"]
  /\ UNCHANGED holder

ANext == \E t \in Task : Add(t) \/ (\E a \in Agent : Claim(a, t)) \/ Complete(t)

ASpec == AInit /\ [][ANext]_avars
=============================================================================
