------------------------ MODULE HarnessRunner_proofs ------------------------
(* Proofs about HarnessRunner, for any command lines and any bounds. *)
EXTENDS HarnessRunner, TLAPS

(* What holds of every state of a loop that begins at create_state.  Until the *)
(* gates have passed, each attempt but the first has used up a retry; this is  *)
(* what ties the number of observations to the retries when it escalates.     *)
Counted(s) ==
  /\ s.phase \in {"goal", "plan"} =>
       s.actions = 0 /\ s.observations = 0 /\ s.evidence = 0 /\ s.retries = 0
  /\ s.phase = "action" => s.actions = s.evidence + 1 /\ s.observations = s.evidence
  /\ s.phase = "observation" => s.actions = s.evidence + 1 /\ s.observations = s.actions
  /\ s.phase \in {"evaluation", "next_step", "escalation"} =>
       s.actions = s.evidence /\ s.observations = s.evidence

Attempted(s, a) ==
  /\ s.retries <= a.max_retries
  /\ s.phase \notin {"goal", "plan"} =>
       s.actions = s.retries + 1 \/ s.evidence >= a.min_observations
  /\ s.phase = "next_step" => s.observations >= a.min_observations
  /\ s.phase = "escalation" =>
       /\ a.max_retries + 1 < a.min_observations
       /\ s.observations = a.max_retries + 1
  /\ s.escalations = IF s.phase = "escalation" THEN 1 ELSE 0

LoopInv(s, a) == s \in Loop!AgentLoopState /\ Counted(s) /\ Attempted(s, a)

\* Command line, control and counters.
Control ==
  /\ args \in Loop!Arguments /\ limit \in MaxIterations
  /\ pc \in {"off", "while", "save", "open", "written", "sleep"}
  /\ last \in BOOLEAN /\ RUNNING \in BOOLEAN /\ recorded \in BOOLEAN

Counters ==
  /\ aside \in Nat /\ memory \in Nat
  /\ kills \in Nat /\ outages \in Nat /\ torn \in Nat /\ forgotten \in Nat
  /\ torn <= outages /\ kills + outages <= MaxCrashes
  /\ forgotten <= MaxForgotten + outages

\* An iteration that has begun had one left.
IterInv ==
  /\ iterations \in 0..limit
  /\ pc \in {"save", "open", "written"} /\ ~last => limit = 0 \/ iterations < limit

\* The states in memory and on disk are those of one loop; between its step and
\* the rename the process is one step ahead, or saves the same state again.
FileInv(f, a) == f \in {NoFile, Torn} \/ (f.kind = "saved" /\ LoopInv(f.state, a))
Ahead == state = IF last THEN Durable ELSE Loop!advance_state(Durable)
StateInv ==
  /\ LoopInv(state, args) /\ FileInv(checkpoint, args) /\ FileInv(tmp, args)
  /\ pc \in {"while", "sleep"} => state = Durable /\ ~last
  /\ pc \in {"save", "open", "written"} => Ahead
  /\ pc = "written" => tmp = Saved(state)
  /\ pc # "off" => checkpoint # Torn

\* Evidence, saved or not, and the mark of this process that it is remembered.
MemoryInv ==
  /\ memory <= 1
  /\ forgotten = 0 /\ (recorded \/ state.evidence > 0 \/ Durable.evidence > 0) => memory = 1

\* What a power loss brings back: another state of the loop, whose evidence was
\* remembered when it was saved.
DiskInv ==
  /\ flushed \in BOOLEAN /\ disk.aside \in Nat /\ FileInv(disk.checkpoint, args)
  /\ torn = disk.aside + (IF disk.checkpoint = Torn THEN 1 ELSE 0)
  /\ forgotten = 0 /\ Flushed.evidence > 0 => memory = 1

IInv == Control /\ Counters /\ IterInv /\ StateInv /\ TornIsKept /\ MemoryInv

-----------------------------------------------------------------------------
(* The loop. *)

LEMMA ArgumentsTyped ==
  args \in Loop!Arguments => args.max_retries \in Nat /\ args.min_observations \in Nat \ {0}
<1> SUFFICES ASSUME args \in Loop!Arguments
    PROVE  args.max_retries \in Nat /\ args.min_observations \in Nat \ {0}
  OBVIOUS
<1>1. args.max_retries \in MaxRetries /\ args.min_observations \in MinObservations
  BY DEF Loop!Arguments
<1> QED BY <1>1, RunnerAssumption

LEMMA FreshLoop == args \in Loop!Arguments => LoopInv(Fresh, args)
<1> SUFFICES ASSUME args \in Loop!Arguments PROVE LoopInv(Fresh, args)
  OBVIOUS
<1>1. Fresh \in Loop!AgentLoopState
  BY DEF Fresh, Loop!create_state, Loop!AgentLoopState, Loop!Phase
<1>2. /\ Fresh.phase = "goal" /\ Fresh.actions = 0 /\ Fresh.observations = 0
      /\ Fresh.evidence = 0 /\ Fresh.escalations = 0 /\ Fresh.retries = 0
  BY DEF Fresh, Loop!create_state
<1> QED BY <1>1, <1>2, ArgumentsTyped DEF LoopInv, Counted, Attempted

\* advance_state keeps a loop state one.
LEMMA AdvanceLoop ==
  ASSUME NEW s, LoopInv(s, args), args \in Loop!Arguments
  PROVE  LoopInv(Loop!advance_state(s), args)
<1> DEFINE t == Loop!advance_state(s)
<1>t. args.max_retries \in Nat /\ args.min_observations \in Nat \ {0}
  BY ArgumentsTyped
<1>s. /\ s \in Loop!AgentLoopState /\ s.phase \in Loop!Phase
      /\ s.actions \in Nat /\ s.observations \in Nat /\ s.evidence \in Nat
      /\ s.escalations \in Nat /\ s.retries \in Nat /\ Counted(s)
      /\ Attempted(s, args)
  BY DEF LoopInv, Loop!AgentLoopState
<1>n. /\ s.actions + 1 \in Nat /\ s.observations + 1 \in Nat /\ s.evidence + 1 \in Nat
      /\ s.escalations + 1 \in Nat /\ s.retries + 1 \in Nat
  BY <1>s
<1>1. CASE s.phase = "goal"
  <2>1. /\ t \in Loop!AgentLoopState /\ t.phase = "plan" /\ t.actions = s.actions
        /\ t.observations = s.observations /\ t.evidence = s.evidence
        /\ t.escalations = s.escalations /\ t.retries = s.retries
    BY <1>1, <1>s DEF Loop!advance_state, Loop!set_plan, Loop!AgentLoopState, Loop!Phase
  <2> QED BY <1>1, <1>s, <1>t, <2>1 DEF LoopInv, Counted, Attempted
<1>2. CASE s.phase \in {"plan", "next_step"}
  <2>0. t = Loop!record_action(s)
    BY <1>2 DEF Loop!advance_state
  <2>1. /\ t \in Loop!AgentLoopState /\ t.phase = "action" /\ t.actions = s.actions + 1
        /\ t.observations = s.observations /\ t.evidence = s.evidence
        /\ t.escalations = s.escalations /\ t.retries = s.retries
    BY <1>s, <1>n, <2>0 DEF Loop!record_action, Loop!AgentLoopState, Loop!Phase
  <2> QED BY <1>2, <1>s, <1>t, <2>1 DEF LoopInv, Counted, Attempted
<1>3. CASE s.phase = "action"
  <2>0. t = Loop!record_observation(s)
    BY <1>3 DEF Loop!advance_state
  <2>1. /\ t \in Loop!AgentLoopState /\ t.phase = "observation" /\ t.actions = s.actions
        /\ t.observations = s.observations + 1 /\ t.evidence = s.evidence
        /\ t.escalations = s.escalations /\ t.retries = s.retries
    BY <1>s, <1>n, <2>0 DEF Loop!record_observation, Loop!AgentLoopState, Loop!Phase
  <2> QED BY <1>3, <1>s, <1>t, <2>1 DEF LoopInv, Counted, Attempted
<1>4. CASE s.phase = "observation"
  <2>0. t = Loop!record_evidence(s)
    BY <1>4 DEF Loop!advance_state
  <2>1. /\ t \in Loop!AgentLoopState /\ t.phase = "evaluation" /\ t.actions = s.actions
        /\ t.observations = s.observations /\ t.evidence = s.evidence + 1
        /\ t.escalations = s.escalations /\ t.retries = s.retries
    BY <1>s, <1>n, <2>0 DEF Loop!record_evidence, Loop!AgentLoopState, Loop!Phase
  <2> QED BY <1>4, <1>s, <1>t, <2>1 DEF LoopInv, Counted, Attempted
<1>5. CASE s.phase = "evaluation"
  <2>0. t = Loop!evaluate_dynamic_workflow(s)
    BY <1>5 DEF Loop!advance_state
  <2>1. CASE Loop!GatesPass(s)
    <3>1. t = [s EXCEPT !.phase = "next_step"]
      BY <2>0, <2>1 DEF Loop!evaluate_dynamic_workflow
    <3>2. /\ t \in Loop!AgentLoopState /\ t.phase = "next_step" /\ t.actions = s.actions
          /\ t.observations = s.observations /\ t.evidence = s.evidence
          /\ t.escalations = s.escalations /\ t.retries = s.retries
      BY <1>s, <3>1 DEF Loop!AgentLoopState, Loop!Phase
    <3> QED BY <1>5, <1>s, <1>t, <2>1, <3>2 DEF LoopInv, Counted, Attempted, Loop!GatesPass
  <2>2. CASE ~Loop!GatesPass(s)
    <3>1. s.actions = s.retries + 1 /\ s.observations < args.min_observations
      BY <1>5, <1>s, <1>t, <2>2 DEF Counted, Attempted, Loop!GatesPass
    <3>2. CASE Loop!MayRetry(s)
      <4>1. t = Loop!record_action(Loop!set_plan([s EXCEPT !.retries = @ + 1]))
        BY <2>0, <2>2, <3>2 DEF Loop!evaluate_dynamic_workflow
      <4>2. /\ t \in Loop!AgentLoopState /\ t.phase = "action" /\ t.actions = s.actions + 1
            /\ t.observations = s.observations /\ t.evidence = s.evidence
            /\ t.escalations = s.escalations /\ t.retries = s.retries + 1
        BY <1>s, <1>n, <4>1 DEF Loop!record_action, Loop!set_plan, Loop!AgentLoopState, Loop!Phase
      <4> QED BY <1>5, <1>s, <1>t, <3>1, <3>2, <4>2
              DEF LoopInv, Counted, Attempted, Loop!MayRetry
    <3>3. CASE ~Loop!MayRetry(s)
      <4>1. t = Loop!record_escalation(s)
        BY <2>0, <2>2, <3>3 DEF Loop!evaluate_dynamic_workflow
      <4>2. /\ t \in Loop!AgentLoopState /\ t.phase = "escalation" /\ t.actions = s.actions
            /\ t.observations = s.observations /\ t.evidence = s.evidence
            /\ t.escalations = s.escalations + 1 /\ t.retries = s.retries
        BY <1>s, <1>n, <4>1 DEF Loop!record_escalation, Loop!AgentLoopState, Loop!Phase
      <4> QED BY <1>5, <1>s, <1>t, <3>1, <3>3, <4>2
              DEF LoopInv, Counted, Attempted, Loop!MayRetry
    <3> QED BY <3>2, <3>3
  <2> QED BY <2>1, <2>2
<1>6. CASE s.phase = "escalation"
  BY <1>6 DEF Loop!advance_state
<1> QED BY <1>s, <1>1, <1>2, <1>3, <1>4, <1>5, <1>6 DEF Loop!Phase

\* Only record_evidence adds evidence.
LEMMA AdvanceEvidence ==
  ASSUME NEW s, s \in Loop!AgentLoopState, s.phase # "observation"
  PROVE  Loop!advance_state(s).evidence = s.evidence
<1>s. s.phase \in Loop!Phase \ {"observation"}
  BY DEF Loop!AgentLoopState
<1>1. CASE s.phase \in {"goal", "plan", "next_step", "action", "escalation"}
  BY <1>1 DEF Loop!AgentLoopState, Loop!advance_state, Loop!set_plan, Loop!record_action,
              Loop!record_observation
<1>2. CASE s.phase = "evaluation"
  <2>1. Loop!advance_state(s) = Loop!evaluate_dynamic_workflow(s)
    BY <1>2 DEF Loop!advance_state
  <2> QED BY <2>1 DEF Loop!AgentLoopState, Loop!evaluate_dynamic_workflow, Loop!set_plan,
                      Loop!record_action, Loop!record_escalation
<1> QED BY <1>s, <1>1, <1>2 DEF Loop!Phase

\* Ahead says nothing of the program counter.
LEMMA AheadKept ==
  UNCHANGED <<args, last, state, checkpoint>> => (Ahead <=> Ahead')
BY DEF Ahead, Durable, Loaded, Fresh, Loop!create_state, Loop!advance_state, Loop!set_plan,
       Loop!record_action, Loop!record_observation, Loop!record_evidence,
       Loop!evaluate_dynamic_workflow, Loop!GatesPass, Loop!MayRetry, Loop!record_escalation

LEMMA AheadMade ==
  ASSUME ~last, UNCHANGED <<args, last>>, state = Durable, Durable' = Durable,
         state' = Loop!advance_state(state)
  PROVE  Ahead'
<1>1. ~last' /\ Durable' = state
  OBVIOUS
<1>2. state' = Loop!advance_state(Durable)'
  BY <1>1, SMTT(30)
     DEF Loop!advance_state, Loop!set_plan,
         Loop!record_action, Loop!record_observation, Loop!record_evidence,
         Loop!evaluate_dynamic_workflow, Loop!GatesPass, Loop!MayRetry, Loop!record_escalation
<1> QED BY <1>1, <1>2 DEF Ahead

LEMMA Files ==
  /\ NoFile # Torn /\ NoFile.kind # "saved" /\ Torn.kind # "saved"
  /\ \A s : /\ Saved(s) \notin {NoFile, Torn}
            /\ Saved(s).kind = "saved" /\ Saved(s).state = s
BY DEF NoFile, Torn, Saved

LEMMA DurableLoop == StateInv /\ args \in Loop!Arguments => LoopInv(Durable, args)
BY FreshLoop, Files DEF StateInv, FileInv, Durable, Loaded

-----------------------------------------------------------------------------
(* The runner. *)

LEMMA InitIInv == Init => IInv
<1> SUFFICES ASSUME Init PROVE IInv
  OBVIOUS
<1>1. args \in Loop!Arguments /\ limit \in Nat
  BY RunnerAssumption DEF Init
<1>2. LoopInv(state, args)
  BY <1>1, FreshLoop DEF Init
<1>3. state.evidence = 0 /\ Durable.evidence = 0
  BY DEF Init, Durable, Loaded, Fresh, Loop!create_state, NoFile
<1>4. Control
  BY DEF Init, Control
<1>6. Counters /\ IterInv
  BY <1>1, RunnerAssumption DEF Init, Counters, IterInv
<1>5. StateInv
  <2>1. FileInv(checkpoint, args) /\ FileInv(tmp, args)
    BY DEF Init, FileInv
  <2>2. pc = "off"
    BY DEF Init
  <2> QED BY <1>2, <2>1, <2>2 DEF StateInv
<1>7. TornIsKept /\ MemoryInv
  BY <1>3 DEF Init, TornIsKept, MemoryInv, NoFile, Torn
<1> QED BY <1>4, <1>5, <1>6, <1>7 DEF IInv

\* A step that leaves the loop and its files alone.
LEMMA LoopKept ==
  ASSUME IInv, UNCHANGED <<args, last, state, checkpoint, tmp>>,
         \/ pc' = pc
         \/ pc = "sleep" /\ pc' = "while"
  PROVE  StateInv'
<1>1. Durable' = Durable
  BY DEF Durable, Loaded, Fresh, Loop!create_state
<1>2. pc \in {"save", "open", "written"} => Ahead'
  BY AheadKept DEF IInv, StateInv
<1>3. LoopInv(state, args)' /\ FileInv(checkpoint, args)' /\ FileInv(tmp, args)'
  BY DEF IInv, StateInv
<1>4. pc' = "written" => tmp' = Saved(state')
  BY DEF IInv, StateInv
<1> QED BY <1>1, <1>2, <1>3, <1>4 DEF IInv, StateInv

\* The process is gone and the checkpoint as it was, or another one.
LEMMA GoneKept ==
  ASSUME IInv, UNCHANGED args, Gone, FileInv(checkpoint', args), FileInv(tmp', args)
  PROVE  StateInv' /\ state'.evidence = 0 /\ recorded' = FALSE
<1>1. state' = Fresh
  BY DEF Gone, Fresh, Loop!create_state
<1>2. LoopInv(state', args')
  BY <1>1, FreshLoop DEF IInv, Control
<1>3. FileInv(checkpoint', args') /\ FileInv(tmp', args')
  OBVIOUS
<1>4. pc' = "off" /\ recorded' = FALSE
  BY DEF Gone
<1>5. state'.evidence = 0
  BY <1>1 DEF Fresh, Loop!create_state
<1> QED BY <1>2, <1>3, <1>4, <1>5 DEF StateInv

LEMMA StepIInv == IInv /\ DiskInv /\ [Next]_vars => IInv'
<1> SUFFICES ASSUME IInv, DiskInv, [Next]_vars PROVE IInv'
  OBVIOUS
<1>t. /\ args \in Loop!Arguments /\ limit \in Nat /\ iterations \in Nat
      /\ iterations \in 0..limit /\ kills \in Nat /\ outages \in Nat /\ torn \in Nat /\ aside \in Nat
      /\ memory \in Nat /\ forgotten \in Nat /\ MaxCrashes \in Nat /\ MaxForgotten \in Nat
  BY RunnerAssumption DEF IInv, Control, Counters, IterInv
<1>1. CASE Start
  <2>1. Durable' = Durable
    BY <1>1, Files DEF Start, MovesAside, Durable, Loaded, Fresh, Loop!create_state
  <2>2. LoopInv(Durable, args) /\ (Durable.evidence > 0 /\ forgotten = 0 => memory = 1)
    BY <1>t, DurableLoop DEF IInv, MemoryInv
  <2>3. Control'
    BY <1>1 DEF Start, command, IInv, Control
  <2>8. Counters' /\ IterInv'
    BY <1>1, <1>t DEF Start, MovesAside, command, world, IInv, Counters, IterInv
  <2>4. FileInv(checkpoint', args) /\ checkpoint' # Torn
    BY <1>1, Files DEF Start, MovesAside, IInv, StateInv, FileInv
  <2>5. StateInv'
    BY <1>1, <2>1, <2>2, <2>4 DEF Start, command, IInv, StateInv
  <2>6. TornIsKept'
    BY <1>1, <1>t, Files DEF Start, MovesAside, world, IInv, TornIsKept
  <2>7. MemoryInv'
    BY <1>1, <2>1, <2>2 DEF Start, world, IInv, MemoryInv
  <2> QED BY <2>3, <2>5, <2>6, <2>7, <2>8 DEF IInv
<1>2. CASE AdvanceWithEvidence
  <2>1. Durable' = Durable
    BY <1>2 DEF AdvanceWithEvidence, files, Durable, Loaded, Fresh, Loop!create_state
  <2>2. state' = Loop!advance_state(state) /\ state = Durable /\ ~last
    BY <1>2 DEF AdvanceWithEvidence, Advances, IInv, StateInv
  <2>3. LoopInv(state', args)
    BY <1>t, <2>2, AdvanceLoop DEF IInv, StateInv
  <2>4. Ahead'
    BY <1>2, <2>1, <2>2, AheadMade DEF AdvanceWithEvidence, command
  <2>5. StateInv'
    BY <1>2, <2>3, <2>4 DEF AdvanceWithEvidence, files, command, IInv, StateInv
  <2>6. Control'
    BY <1>2 DEF AdvanceWithEvidence, Remember, command, IInv, Control
  <2>9. Counters'
    BY <1>2, <1>t DEF AdvanceWithEvidence, Remember, Add, files, IInv, Counters
  <2>10. IterInv'
    BY <1>2, <1>t DEF AdvanceWithEvidence, MayIterate, command, IInv, IterInv
  <2>7. TornIsKept'
    BY <1>2 DEF AdvanceWithEvidence, files, IInv, TornIsKept
  <2>8. MemoryInv'
    BY <1>2, <1>t, <2>1 DEF AdvanceWithEvidence, Remember, Add, IInv, MemoryInv
  <2> QED BY <2>5, <2>6, <2>7, <2>8, <2>9, <2>10 DEF IInv
<1>3. CASE Advance
  <2>1. Durable' = Durable
    BY <1>3 DEF Advance, files, Durable, Loaded, Fresh, Loop!create_state
  <2>2. state' = Loop!advance_state(state) /\ state = Durable /\ ~last
    BY <1>3 DEF Advance, Advances, IInv, StateInv
  <2>3. LoopInv(state', args)
    BY <1>t, <2>2, AdvanceLoop DEF IInv, StateInv
  <2>4. Ahead'
    BY <1>3, <2>1, <2>2, AheadMade DEF Advance, command
  <2>5. StateInv'
    BY <1>3, <2>3, <2>4 DEF Advance, files, command, IInv, StateInv
  <2>6. Control'
    BY <1>3 DEF Advance, command, IInv, Control
  <2>10. Counters' /\ IterInv'
    BY <1>3, <1>t DEF Advance, MayIterate, files, command, world, IInv, Counters, IterInv
  <2>7. TornIsKept'
    BY <1>3 DEF Advance, files, world, IInv, TornIsKept
  <2>8. state'.evidence = state.evidence
    BY <1>3, <2>2, AdvanceEvidence DEF Advance, IInv, StateInv, LoopInv
  <2>9. MemoryInv'
    BY <1>3, <2>1, <2>8 DEF Advance, world, IInv, MemoryInv
  <2> QED BY <2>5, <2>6, <2>7, <2>9, <2>10 DEF IInv
<1>4. CASE Leave
  <2>1. Durable' = Durable /\ state' = Durable'
    BY <1>4 DEF Leave, files, Durable, Loaded, Fresh, Loop!create_state, IInv, StateInv
  <2>2. StateInv'
    BY <1>4, <2>1 DEF Leave, files, command, IInv, StateInv, Ahead
  <2>3. Control'
    BY <1>4 DEF Leave, command, IInv, Control
  <2>4. Counters' /\ IterInv'
    BY <1>4, <1>t DEF Leave, command, files, world, IInv, Counters, IterInv
  <2>5. TornIsKept' /\ MemoryInv'
    BY <1>4, <2>1 DEF Leave, files, world, IInv, TornIsKept, MemoryInv
  <2> QED BY <2>2, <2>3, <2>4, <2>5 DEF IInv
<1>5. CASE OpenTmp
  <2>1. Durable' = Durable
    BY <1>5 DEF OpenTmp, Durable, Loaded, Fresh, Loop!create_state
  <2>2. Ahead'
    BY <1>5, AheadKept DEF OpenTmp, command, IInv, StateInv
  <2>3. StateInv'
    BY <1>5, <2>1, <2>2 DEF OpenTmp, command, IInv, StateInv, FileInv
  <2>4. Control'
    BY <1>5 DEF OpenTmp, command, IInv, Control
  <2>5. Counters' /\ IterInv'
    BY <1>5, <1>t DEF OpenTmp, command, world, IInv, Counters, IterInv
  <2>6. TornIsKept' /\ MemoryInv'
    BY <1>5, <2>1 DEF OpenTmp, world, IInv, TornIsKept, MemoryInv
  <2> QED BY <2>3, <2>4, <2>5, <2>6 DEF IInv
<1>6. CASE WriteTmp
  <2>1. Durable' = Durable
    BY <1>6 DEF WriteTmp, Durable, Loaded, Fresh, Loop!create_state
  <2>2. Ahead'
    BY <1>6, AheadKept DEF WriteTmp, command, IInv, StateInv
  <2>3. FileInv(tmp', args) /\ tmp' = Saved(state')
    BY <1>6, Files DEF WriteTmp, IInv, StateInv, FileInv
  <2>4. StateInv'
    BY <1>6, <2>1, <2>2, <2>3 DEF WriteTmp, command, IInv, StateInv
  <2>5. Control'
    BY <1>6 DEF WriteTmp, command, IInv, Control
  <2>6. Counters' /\ IterInv'
    BY <1>6, <1>t DEF WriteTmp, command, world, IInv, Counters, IterInv
  <2>7. TornIsKept' /\ MemoryInv'
    BY <1>6, <2>1 DEF WriteTmp, world, IInv, TornIsKept, MemoryInv
  <2> QED BY <2>4, <2>5, <2>6, <2>7 DEF IInv
<1>7. CASE EndIteration
  <2>1. checkpoint' = Saved(state) /\ checkpoint # Torn /\ checkpoint' # Torn
    BY <1>7, Files DEF EndIteration, Replace, IInv, StateInv
  <2>2. Durable' = state
    BY <2>1, Files DEF Durable, Loaded
  <2>3. FileInv(checkpoint', args) /\ FileInv(tmp', args)
    BY <1>7, <2>1, Files DEF EndIteration, Replace, IInv, StateInv, FileInv
  <2>4. StateInv'
    BY <1>7, <2>1, <2>2, <2>3 DEF EndIteration, command, IInv, StateInv
  <2>5. Control'
    BY <1>7 DEF EndIteration, Replace, command, IInv, Control
  <2>6. Counters'
    BY <1>7, <1>t DEF EndIteration, world, IInv, Counters
  <2>7. IterInv'
    BY <1>7, <1>t DEF EndIteration, Replace, command, IInv, IterInv
  <2>8. TornIsKept'
    BY <1>7, <2>1 DEF EndIteration, world, IInv, TornIsKept
  <2>9. MemoryInv'
    BY <1>7, <2>2 DEF EndIteration, world, IInv, MemoryInv
  <2> QED BY <2>4, <2>5, <2>6, <2>7, <2>8, <2>9 DEF IInv
<1>8. CASE Wake
  <2>1. Durable' = Durable
    BY <1>8 DEF Wake, files, Durable, Loaded, Fresh, Loop!create_state
  <2>2. StateInv'
    BY <1>8, LoopKept DEF Wake, files, command
  <2>3. Control'
    BY <1>8 DEF Wake, command, IInv, Control
  <2>4. Counters' /\ IterInv'
    BY <1>8, <1>t DEF Wake, command, files, world, IInv, Counters, IterInv
  <2>5. TornIsKept' /\ MemoryInv'
    BY <1>8, <2>1 DEF Wake, files, world, IInv, TornIsKept, MemoryInv
  <2> QED BY <2>2, <2>3, <2>4, <2>5 DEF IInv
<1>9. CASE Exit
  <2>1. /\ checkpoint' = Saved(state) /\ checkpoint # Torn /\ checkpoint' # Torn
        /\ tmp' = NoFile
    BY <1>9, Files DEF Exit, Replace, IInv, StateInv
  <2>2. Durable' = state
    BY <2>1, Files DEF Durable, Loaded
  <2>3. FileInv(checkpoint', args) /\ FileInv(tmp', args)
    BY <2>1, Files DEF IInv, StateInv, FileInv
  <2>4. StateInv' /\ state'.evidence = 0 /\ recorded' = FALSE
    BY <1>9, <2>3, GoneKept DEF Exit, command
  <2>5. Control'
    BY <1>9 DEF Exit, Gone, command, IInv, Control
  <2>6. Counters' /\ IterInv'
    BY <1>9, <1>t DEF Exit, Gone, command, world, IInv, Counters, IterInv
  <2>7. TornIsKept'
    BY <1>9, <2>1 DEF Exit, world, IInv, TornIsKept
  <2>8. MemoryInv'
    BY <1>9, <2>2, <2>4 DEF Exit, world, IInv, MemoryInv
  <2> QED BY <2>4, <2>5, <2>6, <2>7, <2>8 DEF IInv
<1>10. CASE handle_signal
  <2>1. Durable' = Durable
    BY <1>10 DEF handle_signal, files, Durable, Loaded, Fresh, Loop!create_state
  <2>2. StateInv'
    BY <1>10, LoopKept DEF handle_signal, files, command
  <2>3. Control'
    BY <1>10 DEF handle_signal, command, IInv, Control
  <2>4. Counters' /\ IterInv'
    BY <1>10, <1>t DEF handle_signal, command, files, world, IInv, Counters, IterInv
  <2>5. TornIsKept' /\ MemoryInv'
    BY <1>10, <2>1 DEF handle_signal, files, world, IInv, TornIsKept, MemoryInv
  <2> QED BY <2>2, <2>3, <2>4, <2>5 DEF IInv
<1>11. CASE Kill
  <2>1. Durable' = Durable
    BY <1>11 DEF Kill, files, Durable, Loaded, Fresh, Loop!create_state
  <2>2. StateInv' /\ state'.evidence = 0 /\ recorded' = FALSE
    BY <1>11, GoneKept DEF Kill, files, command, IInv, StateInv
  <2>3. Control'
    BY <1>11 DEF Kill, Gone, command, IInv, Control
  <2>4. Counters' /\ IterInv'
    BY <1>11, <1>t DEF Kill, Gone, command, files, IInv, Counters, IterInv
  <2>5. TornIsKept'
    BY <1>11 DEF Kill, files, IInv, TornIsKept
  <2>6. MemoryInv'
    BY <1>11, <2>1, <2>2 DEF Kill, IInv, MemoryInv
  <2> QED BY <2>2, <2>3, <2>4, <2>5, <2>6 DEF IInv
<1>12. CASE PowerLoss
  <2>1. FileInv(checkpoint', args) /\ FileInv(tmp', args)
    BY <1>12, Files DEF PowerLoss, CheckpointAfterOutage, DiskInv, FileInv
  <2>2. Durable' = Flushed \/ Durable'.evidence = 0
    BY <1>12, Files DEF PowerLoss, CheckpointAfterOutage, Durable, Flushed, Loaded, Fresh,
       Loop!create_state
  <2>3. StateInv' /\ state'.evidence = 0 /\ recorded' = FALSE
    BY <1>12, <2>1, GoneKept DEF PowerLoss, command
  <2>4. Control'
    BY <1>12 DEF PowerLoss, Gone, command, IInv, Control
  <2>5. Counters' /\ IterInv'
    <3>1. IterInv'
      BY <1>12, <1>t DEF PowerLoss, Gone, command, IInv, IterInv
    <3>2. kills' = kills /\ outages' = outages + 1 /\ aside' \in Nat /\ torn' \in {torn, torn + 1}
      BY <1>12, <1>t DEF PowerLoss, CheckpointAfterOutage, DiskInv
    <3>3. memory' \in {memory, 0} /\ forgotten' \in {forgotten, forgotten + 1}
      BY <1>12 DEF PowerLoss, MemoryAfterOutage
    <3>4. kills + outages < MaxCrashes
      BY <1>12 DEF PowerLoss
    <3> QED BY <1>t, <3>1, <3>2, <3>3, <3>4 DEF IInv, Counters
  <2>6. TornIsKept'
    BY <1>12, <1>t, Files DEF PowerLoss, CheckpointAfterOutage, IInv, TornIsKept, DiskInv
  <2>7. MemoryInv'
    BY <1>12, <1>t, <2>2, <2>3 DEF PowerLoss, MemoryAfterOutage, IInv, MemoryInv, DiskInv
  <2> QED BY <2>3, <2>4, <2>5, <2>6, <2>7 DEF IInv
<1>13. CASE MemoryRemoved
  <2>1. Durable' = Durable
    BY <1>13 DEF MemoryRemoved, files, Durable, Loaded, Fresh, Loop!create_state
  <2>2. StateInv'
    BY <1>13, LoopKept DEF MemoryRemoved, process, files, command
  <2>3. Control'
    BY <1>13 DEF MemoryRemoved, process, command, IInv, Control
  <2>4. Counters' /\ IterInv'
    BY <1>13, <1>t DEF MemoryRemoved, process, command, files, IInv, Counters, IterInv
  <2>5. TornIsKept'
    BY <1>13 DEF MemoryRemoved, files, IInv, TornIsKept
  <2>6. MemoryInv'
    BY <1>13, <1>t DEF MemoryRemoved, IInv, MemoryInv
  <2> QED BY <2>2, <2>3, <2>4, <2>5, <2>6 DEF IInv
<1>14. CASE UNCHANGED vars
  <2>1. Durable' = Durable
    BY <1>14 DEF vars, files, Durable, Loaded, Fresh, Loop!create_state
  <2>2. StateInv'
    BY <1>14, LoopKept DEF vars, process, files, command
  <2>3. Control'
    BY <1>14 DEF vars, process, command, IInv, Control
  <2>4. Counters' /\ IterInv'
    BY <1>14 DEF vars, process, command, files, world, IInv, Counters, IterInv
  <2>5. TornIsKept' /\ MemoryInv'
    BY <1>14, <2>1 DEF vars, process, files, world, IInv, TornIsKept, MemoryInv
  <2> QED BY <2>2, <2>3, <2>4, <2>5 DEF IInv
<1>15. CASE Flush
  <2>1. Durable' = Durable
    BY <1>15 DEF Flush, Durable, Loaded, Fresh, Loop!create_state
  <2>2. StateInv'
    BY <1>15, LoopKept DEF Flush, process, command
  <2>3. Control'
    BY <1>15 DEF Flush, process, command, IInv, Control
  <2>4. Counters' /\ IterInv'
    BY <1>15, <1>t DEF Flush, process, command, IInv, Counters, IterInv
  <2>5. TornIsKept' /\ MemoryInv'
    BY <1>15, <2>1 DEF Flush, process, IInv, TornIsKept, MemoryInv
  <2> QED BY <2>2, <2>3, <2>4, <2>5 DEF IInv
<1> QED
  BY <1>1, <1>2, <1>3, <1>4, <1>5, <1>6, <1>7, <1>8, <1>9, <1>10, <1>11, <1>12, <1>13, <1>14,
     <1>15 DEF Next, RunnerStep

\* The disk only gets what the files are, and nobody forgets unnoticed.
LEMMA StepDiskInv == IInv /\ DiskInv /\ [Next]_vars => DiskInv'
<1> SUFFICES ASSUME IInv, DiskInv, [Next]_vars PROVE DiskInv'
  OBVIOUS
<1>t. /\ aside \in Nat /\ torn \in Nat /\ forgotten \in Nat
      /\ FileInv(checkpoint, args) /\ TornIsKept
      /\ forgotten = 0 /\ Durable.evidence > 0 => memory = 1
  BY DEF IInv, Counters, StateInv, MemoryInv
\* A step that writes nothing back.
<1>k. ASSUME UNCHANGED <<args, disk, torn>>, flushed' \in BOOLEAN,
             forgotten' = 0 => forgotten = 0 /\ (memory' = memory \/ memory' = 1)
      PROVE  DiskInv'
  <2>1. Flushed' = Flushed
    BY <1>k DEF Flushed, Loaded, Fresh, Loop!create_state
  <2> QED BY <1>k, <2>1 DEF DiskInv
<1>1. CASE Start
  BY <1>1, <1>k DEF Start, MovesAside, command, world, DiskInv
<1>2. CASE AdvanceWithEvidence
  <2>1. forgotten' = 0 => forgotten = 0 /\ (memory' = memory \/ memory' = 1)
    BY <1>2, <1>t DEF AdvanceWithEvidence, Remember, Add
  <2> QED BY <1>2, <1>k, <2>1 DEF AdvanceWithEvidence, command, files, DiskInv
<1>3. CASE Advance \/ Leave \/ OpenTmp \/ WriteTmp \/ EndIteration \/ Wake \/ Exit
  BY <1>3, <1>k DEF Advance, Leave, OpenTmp, WriteTmp, EndIteration, Wake, Exit, Replace, command,
     files, world, DiskInv
<1>4. CASE handle_signal \/ Kill \/ UNCHANGED vars
  BY <1>4, <1>k DEF handle_signal, Kill, vars, command, files, world, DiskInv
<1>5. CASE MemoryRemoved
  BY <1>5, <1>k, <1>t DEF MemoryRemoved, command, files, DiskInv
<1>6. CASE Flush
  <2>1. disk'.checkpoint = checkpoint /\ disk'.aside = aside /\ flushed' = TRUE
    BY <1>6 DEF Flush
  <2>2. Flushed' = Durable
    BY <2>1 DEF Flushed, Durable, Loaded, Fresh, Loop!create_state
  <2>3. UNCHANGED <<args, torn, memory, forgotten>>
    BY <1>6 DEF Flush, command
  <2> QED BY <1>t, <2>1, <2>2, <2>3 DEF DiskInv, TornIsKept
<1>7. CASE PowerLoss
  <2>1. disk'.checkpoint = checkpoint' /\ disk'.aside = aside' /\ flushed' = TRUE
    BY <1>7 DEF PowerLoss
  <2>2. Flushed' = Flushed \/ Flushed'.evidence = 0
    BY <1>7, <2>1, Files DEF PowerLoss, CheckpointAfterOutage, Flushed, Loaded, Fresh,
       Loop!create_state
  <2>3. aside' \in Nat /\ FileInv(checkpoint', args) /\ args' = args
    BY <1>7, <1>t, Files DEF PowerLoss, CheckpointAfterOutage, DiskInv, FileInv, command
  <2>4. torn' = aside' + (IF checkpoint' = Torn THEN 1 ELSE 0)
    BY <1>7, <1>t, Files DEF PowerLoss, CheckpointAfterOutage, TornIsKept, DiskInv
  <2>5. forgotten' = 0 => forgotten = 0 /\ (memory' = memory \/ memory < 1)
    BY <1>7, <1>t DEF PowerLoss, MemoryAfterOutage, IInv, Counters, MemoryInv
  <2>6. forgotten' = 0 /\ Flushed'.evidence > 0 => memory' = 1
    BY <2>2, <2>5 DEF DiskInv
  <2> QED BY <2>1, <2>3, <2>4, <2>6 DEF DiskInv
<1> QED BY <1>1, <1>2, <1>3, <1>4, <1>5, <1>6, <1>7 DEF Next, RunnerStep

LEMMA AlwaysIInv == Spec => [](IInv /\ DiskInv)
<1>1. Init => DiskInv
  BY DEF Init, DiskInv, FileInv, Flushed, Loaded, Fresh, Loop!create_state, NoFile, Torn
<1> QED BY <1>1, InitIInv, StepIInv, StepDiskInv, PTL DEF Spec

-----------------------------------------------------------------------------
(* What the runs check, for every command line and any number of crashes. *)

\* Type correctness of the runner: its counters stay within the iterations the
\* command line allows, and every file it leaves is absent, torn or a loop state.
THEOREM TypeCorrect == Spec => []TypeOK
<1>1. IInv /\ DiskInv => TypeOK
  BY DEF IInv, DiskInv, Control, Counters, IterInv, StateInv, FileInv, LoopInv, TypeOK
<1> QED BY <1>1, AlwaysIInv, PTL

\* load_checkpoint (runner.py) keeps every torn checkpoint: there are as many
\* files aside, with the one not yet moved, as power losses that tore one.
THEOREM TornCheckpointsAreKept == Spec => []TornIsKept
<1>1. IInv => TornIsKept
  BY DEF IInv
<1> QED BY <1>1, AlwaysIInv, PTL

\* Whatever is on disk counts its attempts consistently, and a verdict in it is
\* the one evaluate_dynamic_workflow (loop.py) gives without a crash.
THEOREM CheckpointVerdict == Spec => []VerdictIsRight
<1>1. ASSUME IInv PROVE VerdictIsRight
  <2>1. LoopInv(Durable, args) /\ args \in Loop!Arguments
    BY <1>1, DurableLoop DEF IInv, Control
  <2>2. /\ Durable.actions \in Nat /\ Durable.observations \in Nat /\ Durable.evidence \in Nat
        /\ Durable.phase \in Loop!Phase /\ Counted(Durable) /\ Attempted(Durable, args)
    BY <2>1 DEF LoopInv, Loop!AgentLoopState
  <2>3. Loop!Paced(Durable)
    BY <2>2 DEF Counted, Loop!Paced, Loop!Phase
  <2>4. Loop!RightVerdict(Durable)
    BY <2>2 DEF Attempted, Loop!RightVerdict
  <2> QED BY <2>3, <2>4 DEF VerdictIsRight
<1> QED BY <1>1, AlwaysIInv, PTL

\* A step that is repeated after a kill or a power loss does not remember its
\* evidence again, and evidence is in the memory file before a checkpoint holds
\* it, unless the memory raised, was removed, or was lost with the power.
THEOREM EvidenceIsRememberedOnce == Spec => []RememberedOnce
<1>1. IInv => RememberedOnce
  BY DEF IInv, MemoryInv, RememberedOnce
<1> QED BY <1>1, AlwaysIInv, PTL

-----------------------------------------------------------------------------
(* The checkpoint implements the agent loop. *)

LEMMA OnDiskInit == Init => OnDisk!Init
BY DEF Init, OnDisk!Init, OnDisk!Arguments, Loop!Arguments, Durable, Flushed, Loaded, Fresh,
       OnDisk!create_state, Loop!create_state, NoFile

\* A rename is a step of the loop, or saves the state that was there.
LEMMA ReplaceSteps ==
  ASSUME IInv, Replace, UNCHANGED <<args, disk, outages>>
  PROVE  [OnDisk!Next]_<<args, Durable, Flushed, outages>>
<1>1. Durable' = state
  BY Files DEF Replace, Durable, Loaded, IInv, StateInv
<1>0. Flushed' = Flushed
  BY DEF Flushed, Loaded, Fresh, Loop!create_state
<1>2. CASE last
  BY <1>0, <1>1, <1>2 DEF Replace, IInv, StateInv, Ahead
<1>3. CASE ~last
  <2>1. state = Loop!advance_state(Durable)
    BY <1>3 DEF Replace, IInv, StateInv, Ahead
  <2>2. Durable' = OnDisk!advance_state(Durable)
    BY <1>1, <2>1
       DEF Loop!advance_state, Loop!set_plan, Loop!record_action, Loop!record_observation,
           Loop!record_evidence, Loop!evaluate_dynamic_workflow, Loop!GatesPass,
           Loop!MayRetry, Loop!record_escalation,
           OnDisk!advance_state, OnDisk!set_plan, OnDisk!record_action,
           OnDisk!record_observation, OnDisk!record_evidence,
           OnDisk!evaluate_dynamic_workflow, OnDisk!GatesPass, OnDisk!MayRetry,
           OnDisk!record_escalation
  <2> QED BY <1>0, <2>2 DEF OnDisk!Step, OnDisk!Next
<1> QED BY <1>2, <1>3

LEMMA OnDiskStep ==
  IInv /\ DiskInv /\ [Next]_vars => [OnDisk!Next]_<<args, Durable, Flushed, outages>>
<1> SUFFICES ASSUME IInv, DiskInv, [Next]_vars
    PROVE  [OnDisk!Next]_<<args, Durable, Flushed, outages>>
  OBVIOUS
<1>1. CASE EndIteration \/ Exit
  BY <1>1, ReplaceSteps DEF EndIteration, Exit, command, world
<1>2. CASE PowerLoss
  <2>1. Durable' \in {Flushed, OnDisk!create_state}
    BY <1>2, Files DEF PowerLoss, CheckpointAfterOutage, Durable, Flushed, Loaded, Fresh,
       Loop!create_state, OnDisk!create_state
  <2>2. Flushed' = Durable'
    BY <1>2 DEF PowerLoss, Durable, Flushed, Loaded, Fresh, Loop!create_state
  <2> QED BY <1>2, <2>1, <2>2 DEF PowerLoss, command, OnDisk!Lose, OnDisk!Next
<1>7. CASE Flush
  <2>1. Flushed' = Durable /\ Durable' = Durable
    BY <1>7 DEF Flush, Durable, Flushed, Loaded, Fresh, Loop!create_state
  <2> QED BY <1>7, <2>1 DEF Flush, command, OnDisk!Keep, OnDisk!Next
<1>3. CASE Start
  BY <1>3, Files DEF Start, MovesAside, command, world, Durable, Flushed, Loaded, Fresh, Loop!create_state
<1>4. CASE AdvanceWithEvidence \/ Advance \/ Leave
  BY <1>4 DEF AdvanceWithEvidence, Advance, Leave, command, files, world, Durable, Flushed, Loaded, Fresh,
              Loop!create_state
<1>5. CASE OpenTmp \/ WriteTmp \/ Wake
  BY <1>5 DEF OpenTmp, WriteTmp, Wake, command, files, world, Durable, Flushed, Loaded, Fresh,
              Loop!create_state
<1>6. CASE handle_signal \/ Kill \/ MemoryRemoved \/ UNCHANGED vars
  BY <1>6 DEF handle_signal, Kill, MemoryRemoved, vars, command, process, files, world,
              Durable, Flushed, Loaded, Fresh, Loop!create_state
<1> QED BY <1>1, <1>2, <1>3, <1>4, <1>5, <1>6, <1>7 DEF Next, RunnerStep

\* The checkpoint of a runner that is killed and signalled anywhere goes through
\* the loop of loop.py step by step; only a power loss takes it back, and then to
\* the checkpoint that had reached the disk last, or to the start.
THEOREM CheckpointImplementsLoop == Spec => CheckpointFollowsLoop
<1> QED BY OnDiskInit, OnDiskStep, AlwaysIInv, PTL
        DEF Spec, CheckpointFollowsLoop, OnDisk!Spec
=============================================================================
