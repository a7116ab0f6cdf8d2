----------------------------- MODULE AgentLoop -----------------------------
(***************************************************************************)
(* The agent loop of harness/loop.py as advance_state (harness/runner.py)  *)
(* drives it, and what a durable runner of it promises: it goes through    *)
(* the phases as if no process ever died, and only an outage of the power  *)
(* takes steps back: to the last state that was kept, or to the start.     *)
(***************************************************************************)
EXTENDS Naturals

CONSTANTS
  MaxRetries, MinObservations   \* what the command line may ask for

VARIABLES
  args,     \* the command line: max_retries, min_observations_for_pass
  state,    \* AgentLoopState; of its lists the lengths
  kept,     \* a state the loop was in, which an outage cannot take any more
  outages   \* how often the power was lost

Phase == {"goal", "plan", "action", "observation", "evaluation", "next_step", "escalation"}
AgentLoopState == [phase : Phase, actions : Nat, observations : Nat, evidence : Nat,
                   escalations : Nat, retries : Nat]

Arguments == [max_retries : MaxRetries, min_observations : MinObservations]

create_state == [phase |-> "goal", actions |-> 0, observations |-> 0, evidence |-> 0,
                 escalations |-> 0, retries |-> 0]

KeepPhase(s)          == s   \* mutant: of set_plan
set_plan(s)           == [s EXCEPT !.phase = "plan"]
record_action(s)      == [s EXCEPT !.phase = "action", !.actions = @ + 1]
record_observation(s) == [s EXCEPT !.phase = "observation", !.observations = @ + 1]
record_evidence(s)    == [s EXCEPT !.phase = "evaluation", !.evidence = @ + 1]
record_escalation(s)  == [s EXCEPT !.phase = "escalation", !.escalations = @ + 1]

\* default_evaluation_gates: some evidence, and enough observations.
GatesPass(s) == s.evidence > 0 /\ s.observations >= args.min_observations

MayRetryOnceMore(s) == s.retries <= args.max_retries   \* mutant: off by one
MayRetry(s) == s.retries < args.max_retries

evaluate_dynamic_workflow(s) ==
  IF GatesPass(s) THEN [s EXCEPT !.phase = "next_step"]
  ELSE IF MayRetry(s) THEN record_action(set_plan([s EXCEPT !.retries = @ + 1]))
  ELSE record_escalation(s)

\* An escalated loop is left as it is.
advance_state(s) ==
  CASE s.phase = "goal"                  -> set_plan(s)
    [] s.phase \in {"plan", "next_step"} -> record_action(s)
    [] s.phase = "action"                -> record_observation(s)
    [] s.phase = "observation"           -> record_evidence(s)
    [] s.phase = "evaluation"            -> evaluate_dynamic_workflow(s)
    [] s.phase = "escalation"            -> s

Init == args \in Arguments /\ state = create_state /\ kept = create_state /\ outages = 0
Step == state' = advance_state(state) /\ UNCHANGED <<args, kept, outages>>
Keep == kept' = state /\ UNCHANGED <<args, state, outages>>
Lose == /\ state' \in {kept, create_state} /\ kept' = state'
        /\ outages' = outages + 1 /\ UNCHANGED args
Next == Step \/ Keep \/ Lose
Spec == Init /\ [][Next]_<<args, state, kept, outages>>

-----------------------------------------------------------------------------
(* What holds of every loop state. *)

\* One attempt gives one action, one observation and one piece of evidence,
\* in this order, whatever the gates said before.
Paced(s) ==
  /\ s.evidence <= s.observations /\ s.observations <= s.actions
  /\ s.actions <= s.evidence + 1
  /\ (s.phase \in {"evaluation", "next_step", "escalation"}) => s.actions = s.evidence

\* The loop escalates only if all the attempts it may make cannot give enough
\* observations, and after it has made them all; it goes on only with enough.
RightVerdict(s) ==
  /\ s.retries <= args.max_retries
  /\ s.phase = "next_step" => s.observations >= args.min_observations
  /\ s.phase = "escalation" =>
       /\ args.max_retries + 1 < args.min_observations
       /\ s.observations = args.max_retries + 1 /\ s.escalations = 1
=============================================================================
