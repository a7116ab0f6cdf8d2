--------------------------- MODULE HarnessRunner ---------------------------
(***************************************************************************)
(* The durable runner (run_loop in harness/runner.py): one process at a    *)
(* time drives the agent loop of a goal, saves a checkpoint after every    *)
(* step, and may be killed, stopped by a signal and started again.         *)
(* Neither the checkpoint nor the memory file is synced before or after    *)
(* its rename, so a power loss may bring back what was there before.       *)
(***************************************************************************)
EXTENDS Naturals

CONSTANTS
  MaxRetries, MinObservations, MaxIterations,   \* what the command line may ask for
  MaxActions,       \* bound: actions of a loop that goes on
  MaxCrashes,       \* bound: kills and power losses that change something
  MaxForgotten      \* bound: adds that raise and memory files removed

ASSUME RunnerAssumption ==
  /\ MaxRetries \subseteq Nat /\ MinObservations \subseteq Nat \ {0}
  /\ MaxIterations \subseteq Nat
  /\ MaxActions \in Nat /\ MaxCrashes \in Nat /\ MaxForgotten \in Nat

VARIABLES
  args,        \* max_retries, min_observations_for_pass: the same at each start
  limit,       \* max_iterations, 0 for None
  pc,          \* of the runner process; "off" if there is none
  last,        \* it has left its loop and saves for the last time
  state,       \* its AgentLoopState
  RUNNING,
  iterations,  \* counted if there is a limit
  recorded,    \* the signature is in recorded_memory_signatures
  checkpoint, tmp,   \* the checkpoint file and its temporary file
  aside,       \* files *.corrupted-<time>
  flushed,     \* checkpoint and aside are on the disk as they are
  memory,      \* records of the goal's evidence in the memory file
  disk,        \* checkpoint and aside as they were last flushed
  kills, outages,
  torn,        \* auxiliary: checkpoints that a power loss has torn
  forgotten    \* auxiliary: adds that raise, memory removed or lost with the power

command == <<args, limit>>
process == <<pc, last, state, RUNNING, iterations, recorded>>
files   == <<checkpoint, tmp, aside, flushed>>
world   == <<memory, disk, kills, outages, torn, forgotten>>
vars    == <<command, process, files, world>>

NoFile == [kind |-> "none"]
Torn   == [kind |-> "torn"]    \* a file json.loads refuses
Saved(s) == [kind |-> "saved", state |-> s]

\* What load_checkpoint would return of a file.  Of Loop only operators are used.
Loop      == INSTANCE AgentLoop WITH kept <- state
Fresh     == Loop!create_state
Loaded(f) == IF f.kind = "saved" THEN f.state ELSE Fresh
Durable   == Loaded(checkpoint)
Flushed   == Loaded(disk.checkpoint)
OnDisk    == INSTANCE AgentLoop WITH state <- Durable, kept <- Flushed

Init ==
  /\ args \in Loop!Arguments /\ limit \in MaxIterations
  /\ pc = "off" /\ last = FALSE /\ state = Fresh
  /\ RUNNING = FALSE /\ iterations = 0 /\ recorded = FALSE
  /\ checkpoint = NoFile /\ tmp = NoFile /\ aside = 0 /\ flushed = TRUE /\ memory = 0
  /\ disk = [checkpoint |-> NoFile, aside |-> 0]
  /\ kills = 0 /\ outages = 0 /\ torn = 0 /\ forgotten = 0

-----------------------------------------------------------------------------
\* mutant: a checkpoint that cannot be read stays where it is
StaysAside == UNCHANGED <<checkpoint, aside, flushed>>
MovesAside ==
  IF checkpoint = Torn THEN checkpoint' = NoFile /\ aside' = aside + 1 /\ flushed' = FALSE
                       ELSE UNCHANGED <<checkpoint, aside, flushed>>

\* run_loop up to its while: load_checkpoint, or a new state.
Start ==
  /\ pc = "off" /\ pc' = "while" /\ last' = FALSE
  /\ state' = Durable /\ MovesAside
  /\ RUNNING' = TRUE /\ iterations' = 0 /\ recorded' = FALSE
  /\ UNCHANGED <<command, tmp, world>>

MayIterateOnceMore == RUNNING /\ (limit = 0 \/ iterations <= limit)   \* mutant
MayIterate == RUNNING /\ (limit = 0 \/ iterations < limit)

\* FileBackedMemory.add: a record with the signature is not added again.
AddTwice == memory' = memory + 1   \* mutant
Add == memory' = IF memory = 0 THEN 1 ELSE memory

\* The evidence is remembered before it is saved; an exception of the memory
\* is printed.
Remember ==
  \/ /\ recorded /\ UNCHANGED <<memory, recorded, forgotten>>
  \/ /\ ~recorded /\ Add /\ recorded' = TRUE /\ UNCHANGED forgotten
  \/ /\ ~recorded /\ forgotten < MaxForgotten /\ forgotten' = forgotten + 1
     /\ UNCHANGED <<memory, recorded>>

Advances == state' = Loop!advance_state(state)

AdvanceWithEvidence ==
  /\ pc = "while" /\ MayIterate /\ state.phase = "observation"
  /\ Advances /\ Remember /\ pc' = "save"
  /\ UNCHANGED <<command, last, RUNNING, iterations, files, disk, kills, outages, torn>>

Advance ==
  /\ pc = "while" /\ MayIterate /\ state.phase # "observation"
  /\ state.phase = "next_step" => state.actions < MaxActions
  /\ Advances /\ pc' = "save"
  /\ UNCHANGED <<command, last, RUNNING, iterations, recorded, files, world>>

\* mutant: a runner that may not iterate only skips the step
SleepsOn ==
  /\ pc = "while" /\ ~MayIterate /\ pc' = "sleep"
  /\ UNCHANGED <<command, last, state, RUNNING, iterations, recorded, files, world>>
Leave ==
  /\ pc = "while" /\ ~MayIterate /\ pc' = "save" /\ last' = TRUE
  /\ UNCHANGED <<command, state, RUNNING, iterations, recorded, files, world>>

\* mutant: the checkpoint is written in place
OpenInPlace ==
  /\ pc = "save" /\ pc' = "open"
  /\ checkpoint' = Torn /\ tmp' = Torn
  /\ UNCHANGED <<command, last, state, RUNNING, iterations, recorded, aside, flushed, world>>

\* save_checkpoint: the temporary file is truncated, written and renamed.
OpenTmp ==
  /\ pc = "save" /\ pc' = "open" /\ tmp' = Torn
  /\ UNCHANGED <<command, last, state, RUNNING, iterations, recorded, checkpoint, aside,
                 flushed, world>>

WriteTmp ==
  /\ pc = "open" /\ pc' = "written" /\ tmp' = Saved(state)
  /\ UNCHANGED <<command, last, state, RUNNING, iterations, recorded, checkpoint, aside,
                 flushed, world>>

Replace == pc = "written" /\ checkpoint' = tmp /\ tmp' = NoFile /\ flushed' = FALSE

EndIteration ==
  /\ ~last /\ Replace /\ pc' = "sleep"
  /\ iterations' = IF limit = 0 THEN 0 ELSE iterations + 1
  /\ UNCHANGED <<command, last, state, RUNNING, recorded, aside, world>>

Wake ==
  /\ pc = "sleep" /\ pc' = "while"
  /\ UNCHANGED <<command, last, state, RUNNING, iterations, recorded, files, world>>

\* The process is gone, and what it had in memory.
Gone == /\ pc' = "off" /\ last' = FALSE /\ state' = Fresh /\ RUNNING' = FALSE
        /\ iterations' = 0 /\ recorded' = FALSE

Exit == /\ last /\ Replace /\ Gone
        /\ UNCHANGED <<command, aside, world>>

-----------------------------------------------------------------------------
(* The environment. *)

\* SIGINT or SIGTERM; time.sleep goes on after the handler.
handle_signal ==
  /\ pc # "off" /\ RUNNING /\ RUNNING' = FALSE
  /\ UNCHANGED <<command, pc, last, state, iterations, recorded, files, world>>

Kill == /\ pc # "off" /\ kills + outages < MaxCrashes /\ kills' = kills + 1
        /\ Gone /\ UNCHANGED <<command, files, memory, disk, outages, torn, forgotten>>

\* The system writes back what it holds when it likes.
Flush ==
  /\ ~flushed /\ flushed' = TRUE
  /\ disk' = [checkpoint |-> checkpoint, aside |-> aside]
  /\ UNCHANGED <<command, process, checkpoint, tmp, aside, memory, kills, outages, torn,
                 forgotten>>

\* The directory of the checkpoints is as it was flushed, or a rename in it was
\* written back and the data of the renamed file was not.
CheckpointAfterOutage ==
  \/ checkpoint' = disk.checkpoint /\ aside' = disk.aside /\ UNCHANGED torn
  \/ /\ ~flushed /\ checkpoint.kind = "saved"
     /\ checkpoint' = Torn /\ torn' = torn + 1 /\ UNCHANGED aside

\* The memory file has reached the disk or is one from before the record, or a
\* torn one, which is read as empty.
MemoryAfterOutage ==
  /\ memory' \in {memory, 0}
  /\ forgotten' = IF memory' < memory THEN forgotten + 1 ELSE forgotten

\* What the temporary file holds does not matter: it is truncated before use.
PowerLoss ==
  /\ kills + outages < MaxCrashes /\ outages' = outages + 1
  /\ CheckpointAfterOutage /\ MemoryAfterOutage /\ Gone
  /\ tmp' = NoFile /\ flushed' = TRUE
  /\ disk' = [checkpoint |-> checkpoint', aside |-> aside']
  /\ UNCHANGED <<command, kills>>

\* The memory file is removed, as clean_demo_state.sh does.
MemoryRemoved ==
  /\ memory > 0 /\ memory' = 0
  /\ forgotten < MaxForgotten /\ forgotten' = forgotten + 1
  /\ UNCHANGED <<command, process, files, disk, kills, outages, torn>>

-----------------------------------------------------------------------------
RunnerStep == AdvanceWithEvidence \/ Advance \/ Leave \/ OpenTmp \/ WriteTmp
              \/ EndIteration \/ Wake \/ Exit

Next == Start \/ RunnerStep \/ handle_signal \/ Kill \/ Flush \/ PowerLoss \/ MemoryRemoved

Spec == Init /\ [][Next]_vars
\* A process that lives goes on; nobody has to start one.
FairSpec == Spec /\ WF_vars(RunnerStep)

-----------------------------------------------------------------------------
(* Properties. *)

TypeOK ==
  /\ pc \in {"off", "while", "save", "open", "written", "sleep"} /\ last \in BOOLEAN
  /\ state \in Loop!AgentLoopState
  /\ RUNNING \in BOOLEAN /\ recorded \in BOOLEAN
  /\ iterations \in 0..limit /\ limit \in MaxIterations /\ args \in Loop!Arguments
  /\ \A f \in {checkpoint, tmp, disk.checkpoint} :
       f \in {NoFile, Torn} \/ (f.kind = "saved" /\ f.state \in Loop!AgentLoopState)
  /\ flushed \in BOOLEAN
  /\ {aside, memory, disk.aside, torn, kills, outages, forgotten} \subseteq Nat
  /\ torn <= outages /\ kills + outages <= MaxCrashes
  /\ forgotten <= MaxForgotten + outages

\* Wherever the runner is killed, stopped and started again, its checkpoints
\* go through the loop one step at a time: no step is lost once it is saved and
\* none is done twice, as long as the power stays on.  A power loss takes the
\* loop back to the last checkpoint that had reached the disk, or to its start
\* when the file is torn; what had reached the disk before an earlier power
\* loss and was undone by it does not come back.
CheckpointFollowsLoop == OnDisk!Spec

\* "Corrupt checkpoint is moved aside": each torn checkpoint is kept for the
\* operator, none is overwritten by the loop that starts afresh.
TornIsKept == torn = aside + (IF checkpoint = Torn THEN 1 ELSE 0)

\* A checkpoint never holds an attempt that is half counted, and its verdict
\* is that of a loop that never crashed.
VerdictIsRight == Loop!Paced(Durable) /\ Loop!RightVerdict(Durable)

\* "Only records semantic memory when evidence content changes": however often
\* a step is done again after a kill or a power loss, the evidence is remembered
\* once; and evidence in a checkpoint is in the memory, unless the memory failed,
\* was removed, or a power loss took from it what had not reached the disk.
RememberedOnce ==
  /\ memory <= 1
  /\ (Durable.evidence > 0 /\ forgotten = 0) => memory = 1

\* A runner that is signalled saves its checkpoint and exits, or is killed.
StopIsObeyed == (pc # "off" /\ ~RUNNING) ~> pc = "off"

\* A runner that is left alone, without a limit, saves a verdict.
VerdictIsSaved ==
  pc # "off" ~> \/ pc = "off" \/ ~RUNNING
                \/ Durable.phase \in {"next_step", "escalation"}
=============================================================================
