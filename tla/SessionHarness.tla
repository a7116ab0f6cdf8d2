--------------------------- MODULE SessionHarness ---------------------------
(***************************************************************************)
(* What the harness of a message (harness/session_harness.py) makes of the *)
(* events that reach it: the loop state, the trace and the evaluation.     *)
(* Of the lists only what the gates and the verdict depend on is kept.     *)
(***************************************************************************)
EXTENDS Naturals

\* Events of the worker; "block" stands for assistant_block, tool_result and
\* screenshot, "other" for tool_use_start, debug and whatever is misread.
Observed  == {"user_message", "block"}
Event     == Observed \cup {"other", "done", "error"}

\* phase and evidence are those of AgentLoopState, final is
\* RawTrace.final_status, gates the eval_results.
Harness == [phase : {"plan", "observation", "evaluation", "escalation"},
            evidence : BOOLEAN,
            final : {"created", "completed", "failed"},
            gates : {"none", "passed", "failed"}]

create == [phase |-> "plan", evidence |-> FALSE,
           final |-> "created", gates |-> "none"]

\* The missing action is recorded first, which leaves no trace in the phase.
record_observation(h) == [h EXCEPT !.phase = "observation"]

\* The evidence of a message is recorded once; the phase moves only then.
record_evidence(h) ==
  IF h.evidence THEN h ELSE [h EXCEPT !.evidence = TRUE, !.phase = "evaluation"]

record_error(h) ==
  [h EXCEPT !.phase = "escalation", !.final = "failed"]

\* require_evidence("answer") and require_terminal_status.
GatesPass(h) == h.evidence /\ h.phase \in {"evaluation", "escalation"}
evaluate(h)  == [h EXCEPT !.gates = IF GatesPass(h) THEN "passed" ELSE "failed"]

finish(h) == [h EXCEPT !.final = "completed"]

\* mutant: the gates are asked before the evidence is there
JudgeFirst(h, kind) ==
  CASE kind \in Observed -> record_observation(h)
    [] kind = "done"     -> finish(record_evidence(evaluate(h)))
    [] kind = "error"    -> record_error(h)
    [] kind = "other"    -> h
on_worker_event(h, kind) ==
  CASE kind \in Observed -> record_observation(h)
    [] kind = "done"     -> finish(evaluate(record_evidence(h)))
    [] kind = "error"    -> record_error(h)
    [] kind = "other"    -> h

=============================================================================
