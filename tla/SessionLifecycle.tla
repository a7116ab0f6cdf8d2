-------------------------- MODULE SessionLifecycle --------------------------
(***************************************************************************)
(* The session registry of the orchestrator (computer_use_demo/api):       *)
(* creation behind the concurrency limits, the worker container of a       *)
(* session, the task that follows one user message, the SSE proxy that     *)
(* persists worker events, deletion, expiry and restart.                   *)
(*                                                                         *)
(* The orchestrator is one asyncio event loop: what a handler does between *)
(* two awaits is one action here.  The database row of a session (status,  *)
(* stop_reason, deleted_at, events, messages) survives a Restart; the      *)
(* SESSIONS dict, the tasks and the SSE streams do not.                    *)
(***************************************************************************)
EXTENDS Naturals, Sequences, FiniteSets

CONSTANTS
  Session,                  \* ids that uuid4 may hand out
  User, Org,                \* an identity is a user together with an organization
  MaxUserSessions,          \* max_concurrent_sessions_per_user
  MaxOrgSessions,           \* max_concurrent_sessions_per_org
  MaxMessages,              \* max_messages_per_session
  MaxEvents,                \* max_events_per_session
  Followed,                 \* bound: sessions whose events some client follows
  EventBound,               \* bound: last value of events at which a refusal is still recorded
  CleanupOrphansOnStartup,  \* cleanup_orphan_workers_on_startup
  DbFaults                  \* whether the cleanup loop may meet a database error

\* config.py refuses a limit below one.
ASSUME LimitsAssumption ==
  /\ MaxUserSessions \in Nat \ {0} /\ MaxOrgSessions \in Nat \ {0}
  /\ MaxMessages \in Nat \ {0} /\ MaxEvents \in Nat \ {0}
  /\ EventBound \in Nat
  /\ CleanupOrphansOnStartup \in BOOLEAN /\ DbFaults \in BOOLEAN

ASSUME SessionAssumption == IsFiniteSet(Session)

VARIABLES
  \* rows of the database
  owner,        \* [Session -> Identity, or NoOne]
  status,       \* sessions.status
  stopReason,   \* sessions.stop_reason, the reasons of one kind merged
  deletedAt,    \* sessions whose deleted_at is set
  msgs,         \* number of user messages of a session
  events,       \* number of events of a session
  \* memory of the orchestrator process
  registry,     \* keys of SESSIONS
  creating,     \* where the POST /sessions handler of the session is
  task,         \* where _run_worker_message of the session is
  completion,   \* sessions whose completion_event is set
  clock,        \* how old and how idle the session is, as the limits see it
  stream,       \* sessions a client is following over SSE
  inflight,     \* completion event read from the worker, not yet persisted
  halfExpired,  \* sessions whose expiry raised; the cleanup loop is then dead
  \* the worker containers
  worker,       \* state of the container, and of the task in it
  queue,        \* completion events emitted by the worker, not yet read
  \* kept for the properties only
  leaked        \* sessions whose container outlived a stop or an orchestrator

registryVars == <<owner, registry, creating>>
rowVars      == <<status, stopReason, deletedAt>>
turnVars     == <<task, completion, msgs>>
streamVars   == <<stream, inflight>>
workerVars   == <<worker, queue, leaked>>
vars == <<owner, status, stopReason, deletedAt, msgs, events,
          registry, creating, task, completion, clock, stream, inflight,
          halfExpired, worker, queue, leaked>>

Identity == [user : User, org : Org]
NoOne    == [user |-> "nobody", org |-> "nobody"]  \* of an id not handed out

\* TERMINAL_SESSION_STATUSES and MESSAGE_ACCEPTING_STATUSES, restricted to
\* the statuses that some statement of the orchestrator writes.
Terminal   == {"failed", "expired", "deleted"}
Accepting  == {"ready", "completed"}
Status     == {"none", "starting", "running"} \cup Accepting \cup Terminal
StopReason == {"none", "failed", "expired", "deleted"}

\* The container is running; "done" and "error" are the outcomes of its last task.
Up         == {"idle", "busy", "done", "error"}
WorkerSt   == {"absent", "exited"} \cup Up
Completion == {"done", "error"}

\* A task that has not ended: the POST is on its way, the worker took it and
\* the answer is on its way, the task waits for completion_event, or it waits
\* for the answer of a status poll.
Pending    == {"posting", "accepted", "waiting", "polling"}

Init ==
  /\ owner = [s \in Session |-> NoOne]
  /\ status = [s \in Session |-> "none"]
  /\ stopReason = [s \in Session |-> "none"]
  /\ deletedAt = {}
  /\ msgs = [s \in Session |-> 0]
  /\ events = [s \in Session |-> 0]
  /\ registry = {}
  /\ creating = [s \in Session |-> "new"]
  /\ task = [s \in Session |-> "none"]
  /\ completion = {}
  /\ clock = [s \in Session |-> "fresh"]
  /\ stream = {} /\ halfExpired = {}
  /\ inflight = [s \in Session |-> "none"]
  /\ worker = [s \in Session |-> "absent"]
  /\ queue = [s \in Session |-> <<>>]
  /\ leaked = {}

-----------------------------------------------------------------------------
(* Shared steps of the handlers. *)

Busy(s) == task[s] # "none"

\* _touch: the idle time starts again, the age does not.
Touched(s) == IF clock[s] = "idle" THEN "fresh" ELSE clock[s]
Touch(s)   == clock' = [clock EXCEPT ![s] = Touched(s)]

\* update_session_status: stop_reason is kept when none is given.
WriteStatus(s, st, reason) ==
  /\ status' = [status EXCEPT ![s] = st]
  /\ stopReason' = [stopReason EXCEPT ![s] = IF reason = "none" THEN @ ELSE reason]

\* The first lines of _persist_worker_event: at the limit one quota_exceeded
\* marker is stored, and every event from there on is dropped.
Kept(s)         == events[s] < MaxEvents
Recorded(s)     == IF events[s] <= MaxEvents THEN events[s] + 1 ELSE events[s]
RecordEvent(s)  == events' = [events EXCEPT ![s] = Recorded(s)]

\* The rest of it for an event of the SSE stream.
PersistEvent(s, kind) ==
  /\ RecordEvent(s)
  /\ IF Kept(s) /\ kind \in Completion
     THEN /\ IF kind = "done" THEN WriteStatus(s, "completed", "none")
                              ELSE WriteStatus(s, "failed", "failed")
          /\ completion' = completion \cup ({s} \cap registry)
     ELSE UNCHANGED <<status, stopReason, completion>>

\* docker rm -f: the container is gone with the events it had not sent.
WorkersAfterStop(S) == [s \in Session |-> IF s \in S THEN "absent" ELSE worker[s]]
QueuesAfterStop(S)  == [s \in Session |-> IF s \in S THEN <<>> ELSE queue[s]]

\* stop_worker ignores the exit code: the containers of F run on, and what
\* calls it goes on as if they were gone.  For cleanup_project_workers, F is
\* everything when docker ps fails.
UpIn(S) == {s \in S : worker[s] \in Up}
Stop(S) == \E F \in SUBSET UpIn(S) :
  /\ worker' = WorkersAfterStop(S \ F)
  /\ queue' = QueuesAfterStop(S \ F)
  /\ leaked' = (leaked \ S) \cup F

\* task.cancel(): CancelledError is not an Exception, so the task ends
\* without writing a status.
CancelNothing(S) == UNCHANGED task   \* mutant: the cancel is missing
CancelTasks(S) == task' = [s \in Session |-> IF s \in S THEN "none" ELSE task[s]]

\* _stop_session_worker, for every session of S at once.
CloseSessions(S, st) ==
  /\ CancelTasks(S)
  /\ Stop(S)
  /\ events' = [s \in Session |-> IF s \in S THEN Recorded(s) ELSE events[s]]
  /\ status' = [s \in Session |-> IF s \in S THEN st ELSE status[s]]
  /\ stopReason' = [s \in Session |-> IF s \in S THEN st ELSE stopReason[s]]
  /\ registry' = registry \ S
  /\ completion' = completion \ S           \* the SessionState is dropped
  /\ clock' = [s \in Session |-> IF s \in S THEN "fresh" ELSE clock[s]]
  /\ UNCHANGED <<owner, creating, msgs, stream, inflight>>

\* What _active_session_counts counts.
ActiveOnceReady(s) ==   \* mutant: a session counts from readiness on
  s \in registry /\ s \notin deletedAt /\ status[s] \notin Terminal \cup {"starting"}
Active(s)     == s \in registry /\ s \notin deletedAt /\ status[s] \notin Terminal
UserActive(u) == {s \in Session : Active(s) /\ owner[s].user = u}
OrgActive(o)  == {s \in Session : Active(s) /\ owner[s].org = o}

-----------------------------------------------------------------------------
(* POST /sessions: everything up to the readiness await is one step. *)

Admitted(i) ==
  /\ Cardinality(UserActive(i.user)) < MaxUserSessions
  /\ Cardinality(OrgActive(i.org)) < MaxOrgSessions

CreateStarts(s, i) ==
  /\ creating[s] = "new" /\ Admitted(i)
  /\ owner' = [owner EXCEPT ![s] = i]
  /\ creating' = [creating EXCEPT ![s] = "readying"]
  /\ registry' = registry \cup {s}
  /\ WriteStatus(s, "starting", "none")
  /\ worker' = [worker EXCEPT ![s] = "idle"]
  /\ UNCHANGED <<deletedAt, turnVars, events, clock, streamVars,
                 halfExpired, queue, leaked>>

\* docker run answers with an error: the row ends failed, nothing is registered.
CreateRefused(s, i) ==
  /\ creating[s] = "new" /\ Admitted(i)
  /\ owner' = [owner EXCEPT ![s] = i]
  /\ creating' = [creating EXCEPT ![s] = "done"]
  /\ RecordEvent(s)
  /\ WriteStatus(s, "failed", "failed")
  /\ UNCHANGED <<deletedAt, registry, turnVars, clock, streamVars,
                 halfExpired, workerVars>>

\* Any other exception of start_worker leaves the row as it was written.
CreateRaises(s, i) ==
  /\ creating[s] = "new" /\ Admitted(i)
  /\ owner' = [owner EXCEPT ![s] = i]
  /\ creating' = [creating EXCEPT ![s] = "done"]
  /\ WriteStatus(s, "starting", "none")
  /\ UNCHANGED <<deletedAt, registry, turnVars, events, clock,
                 streamVars, halfExpired, workerVars>>

\* A health probe is answered; the handler has not run again yet.
ProbeAnswered(s) ==
  /\ creating[s] = "readying" /\ worker[s] \in Up
  /\ creating' = [creating EXCEPT ![s] = "probed"]
  /\ UNCHANGED <<owner, registry, rowVars, turnVars, events, clock, streamVars,
                 halfExpired, workerVars>>

\* The handler does not look whether the session is still there.
CreateAnswers(s) ==
  /\ creating[s] = "probed"
  /\ creating' = [creating EXCEPT ![s] = "done"]
  /\ WriteStatus(s, "ready", "none")
  /\ UNCHANGED <<owner, deletedAt, turnVars, events, clock,
                 streamVars, halfExpired, workerVars>>
CreateRegisters(s) ==   \* mutant: SESSIONS is written after readiness too
  CreateAnswers(s) /\ registry' = registry \cup {s}
CreateSucceeds(s) == CreateAnswers(s) /\ UNCHANGED registry

CreateGivesUp(s) ==
  /\ creating[s] = "readying"
  /\ creating' = [creating EXCEPT ![s] = "done"]
  /\ registry' = registry \ {s}
  /\ completion' = completion \ {s}
  /\ clock' = [clock EXCEPT ![s] = "fresh"]
  /\ RecordEvent(s)
  /\ WriteStatus(s, "failed", "failed")
  /\ UNCHANGED <<owner, deletedAt, task, msgs, streamVars, halfExpired>>
CreateLeaksWorker(s) == CreateGivesUp(s) /\ UNCHANGED workerVars  \* mutant: no stop_worker
CreateTimesOut(s) == CreateGivesUp(s) /\ Stop({s})

-----------------------------------------------------------------------------
(* POST /sessions/{id}/messages: no await between the checks and the task. *)

CanPostUnlessEnded(s) ==   \* mutant: only the ended statuses are refused
  /\ s \in registry /\ s \notin deletedAt
  /\ status[s] \notin Terminal
\* _authorize_session, _get_session and the status checks.
CanPost(s) ==
  /\ s \in registry /\ s \notin deletedAt
  /\ status[s] \in Accepting \cup {"running"}

QuotaOffByOne(s) == msgs[s] > MaxMessages   \* mutant
QuotaReached(s)  == msgs[s] >= MaxMessages

PostExpires(s) ==
  /\ CanPost(s) /\ clock[s] = "aged"
  /\ CloseSessions({s}, "expired")
  /\ UNCHANGED <<deletedAt, halfExpired>>

\* The quota_exceeded of the message limit is stored past the event limit too.
PostOverQuota(s) ==
  /\ CanPost(s) /\ clock[s] # "aged" /\ QuotaReached(s)
  /\ events[s] < EventBound
  /\ events' = [events EXCEPT ![s] = @ + 1]
  /\ UNCHANGED <<registryVars, rowVars, turnVars, clock, streamVars, halfExpired,
                 workerVars>>

KeepCompletion(s)  == UNCHANGED completion   \* mutant: completion_event.clear() is missing
ClearCompletion(s) == completion' = completion \ {s}

PostAccepted(s) ==
  /\ CanPost(s) /\ clock[s] # "aged" /\ ~QuotaReached(s)
  /\ ~Busy(s)
  /\ msgs' = [msgs EXCEPT ![s] = @ + 1]
  /\ WriteStatus(s, "running", "none")
  /\ ClearCompletion(s)
  /\ task' = [task EXCEPT ![s] = "posting"]
  /\ Touch(s)
  /\ UNCHANGED <<registryVars, deletedAt, events, streamVars,
                 halfExpired, workerVars>>

-----------------------------------------------------------------------------
(* _run_worker_message. *)

TaskStep(s, from, to) ==
  /\ task[s] = from
  /\ task' = [task EXCEPT ![s] = to]
  /\ UNCHANGED <<registryVars, rowVars, completion, msgs, events, clock, streamVars,
                 halfExpired, queue, leaked>>

\* The worker refuses a message while it is busy.
WorkerTakes(s) ==
  /\ worker[s] \in Up \ {"busy"}
  /\ worker' = [worker EXCEPT ![s] = "busy"]
  /\ TaskStep(s, "posting", "accepted")

PostReturns(s) == TaskStep(s, "accepted", "waiting") /\ UNCHANGED worker

\* wait_for gives up after WORKER_STATUS_POLL_SECONDS.
PollStarts(s) ==
  /\ s \notin completion
  /\ TaskStep(s, "waiting", "polling") /\ UNCHANGED worker

\* The answer was busy, or httpx.ReadTimeout.
PollAgain(s) == TaskStep(s, "polling", "waiting") /\ UNCHANGED worker

TaskEnds(s) ==
  /\ task' = [task EXCEPT ![s] = "none"]
  /\ Touch(s)
  /\ UNCHANGED <<registryVars, deletedAt, completion, msgs, events,
                 streamVars, halfExpired, workerVars>>

\* completion_event is set: whoever set it wrote the status.
TaskWakes(s) ==
  /\ task[s] = "waiting" /\ s \in completion
  /\ TaskEnds(s) /\ UNCHANGED <<status, stopReason>>

\* The answer was not busy.  A worker that is not busy stays so while this
\* task lives, so the answer is still right when it is used.
PollFinds(s) ==
  /\ task[s] = "polling" /\ worker[s] \in Up \ {"busy"}
  /\ IF worker[s] = "error" THEN WriteStatus(s, "failed", "failed")
                            ELSE WriteStatus(s, "completed", "none")
  /\ TaskEnds(s)

\* except Exception: the POST timed out (the worker may have taken it), was
\* refused, or a poll met another error than ReadTimeout.
TaskFails(s) ==
  /\ task[s] \in {"posting", "accepted", "polling"}
  /\ WriteStatus(s, "failed", "failed")
  /\ TaskEnds(s)

-----------------------------------------------------------------------------
(* GET /sessions/{id}/events, one client per session. *)

StreamOpens(s) ==
  /\ s \in Followed
  /\ s \in registry /\ s \notin deletedAt /\ s \notin stream
  /\ stream' = stream \cup {s}
  /\ Touch(s)
  /\ UNCHANGED <<registryVars, rowVars, turnVars, events, inflight, halfExpired,
                 workerVars>>

WorkerSends(s) ==
  /\ s \in stream /\ inflight[s] = "none"
  /\ worker[s] \in Up /\ queue[s] # <<>>
  /\ inflight' = [inflight EXCEPT ![s] = Head(queue[s])]
  /\ queue' = [queue EXCEPT ![s] = Tail(@)]
  /\ UNCHANGED <<registryVars, rowVars, turnVars, events, clock, stream,
                 halfExpired, worker, leaked>>

\* Nothing here asks whether the session still exists.
StreamDelivers(s) ==
  /\ inflight[s] # "none"
  /\ PersistEvent(s, inflight[s])
  /\ inflight' = [inflight EXCEPT ![s] = "none"]
  /\ Touch(s)
  /\ UNCHANGED <<registryVars, deletedAt, task, msgs, stream,
                 halfExpired, workerVars>>

\* ready, ping, and every event that completes nothing.
StreamDeliversOther(s) ==
  /\ s \in stream /\ worker[s] \in Up
  /\ PersistEvent(s, "ping")
  /\ Touch(s)
  /\ UNCHANGED <<registryVars, deletedAt, task, msgs, streamVars,
                 halfExpired, workerVars>>

\* More than SSE_RETRY_LIMIT failures in a row.
StreamGivesUp(s) ==
  /\ s \in stream
  /\ PersistEvent(s, "error")
  /\ stream' = stream \ {s}
  /\ inflight' = [inflight EXCEPT ![s] = "none"]
  /\ UNCHANGED <<registryVars, deletedAt, task, msgs, clock,
                 halfExpired, workerVars>>

\* The client leaves.  An event it had not seen is lost, or the worker
\* replays it to the next stream that sends a Last-Event-ID.
StreamCloses(s) ==
  /\ s \in stream
  /\ stream' = stream \ {s}
  /\ inflight' = [inflight EXCEPT ![s] = "none"]
  /\ \/ UNCHANGED queue
     \/ /\ inflight[s] # "none" /\ worker[s] \in Up
        /\ queue' = [queue EXCEPT ![s] = <<inflight[s]>> \o @]
  /\ UNCHANGED <<registryVars, rowVars, turnVars, events, clock, halfExpired, worker,
                 leaked>>

-----------------------------------------------------------------------------
(* DELETE, the cleanup loop, time, and the end of a process. *)

Delete(s) ==
  /\ s \in registry /\ s \notin deletedAt
  /\ CloseSessions({s}, "deleted")
  /\ deletedAt' = deletedAt \cup {s}
  /\ UNCHANGED halfExpired

\* The runtime limit holds for a busy session too, the idle limit does not.
ExpirableUnlessBusy ==   \* mutant: a busy session has no limit
  {s \in registry : clock[s] # "fresh" /\ ~Busy(s)}
Expirable == {s \in registry : \/ clock[s] = "aged"
                               \/ clock[s] = "idle" /\ ~Busy(s)}

\* One round of _cleanup_sessions_loop has no await in it.
CleanupPass ==
  /\ halfExpired = {} /\ Expirable # {}
  /\ CloseSessions(Expirable, "expired")
  /\ UNCHANGED <<deletedAt, halfExpired>>

\* update_session_status raises: the session was cancelled and stopped, its
\* row and its entry stay, and nothing restarts the loop.
CleanupFails(s) ==
  /\ DbFaults /\ halfExpired = {} /\ s \in Expirable
  /\ CancelTasks({s}) /\ Stop({s}) /\ RecordEvent(s)
  /\ halfExpired' = {s}
  /\ UNCHANGED <<registryVars, rowVars, completion, msgs, clock, streamVars>>

TimePasses(s, from, to) ==
  /\ s \in registry /\ clock[s] \in from
  /\ clock' = [clock EXCEPT ![s] = to]
  /\ UNCHANGED <<registryVars, rowVars, turnVars, events, streamVars, halfExpired,
                 workerVars>>

GrowsIdle(s) == TimePasses(s, {"fresh"}, "idle")
GrowsOld(s)  == TimePasses(s, {"fresh", "idle"}, "aged")

\* sampling_loop ends in the worker, which emits one completion event.
WorkerFinishes(s) == \E k \in Completion :
  /\ worker[s] = "busy"
  /\ worker' = [worker EXCEPT ![s] = k]
  /\ queue' = [queue EXCEPT ![s] = Append(@, k)]
  /\ UNCHANGED <<registryVars, rowVars, turnVars, events, clock, streamVars, halfExpired,
                 leaked>>

ContainerExits(s) ==
  /\ worker[s] \in Up
  /\ worker' = [worker EXCEPT ![s] = "exited"]
  /\ queue' = [queue EXCEPT ![s] = <<>>]
  /\ UNCHANGED <<registryVars, rowVars, turnVars, events, clock, streamVars, halfExpired,
                 leaked>>

\* The orchestrator dies and startup() runs: the rows stay as they are.
Restart ==
  /\ registry' = {} /\ stream' = {} /\ completion' = {} /\ halfExpired' = {}
  /\ creating' = [s \in Session |-> IF creating[s] = "new" THEN "new" ELSE "done"]
  /\ task' = [s \in Session |-> "none"]
  /\ clock' = [s \in Session |-> "fresh"]
  /\ inflight' = [s \in Session |-> "none"]
  /\ IF CleanupOrphansOnStartup
     THEN Stop(Session)
     ELSE leaked' = leaked \cup UpIn(registry) /\ UNCHANGED <<worker, queue>>
  /\ UNCHANGED <<owner, rowVars, msgs, events>>

-----------------------------------------------------------------------------
CreateStep(s) ==
  \/ \E i \in Identity : CreateStarts(s, i) \/ CreateRefused(s, i) \/ CreateRaises(s, i)
  \/ ProbeAnswered(s) \/ CreateSucceeds(s) \/ CreateTimesOut(s)
PostStep(s)   == PostExpires(s) \/ PostOverQuota(s) \/ PostAccepted(s)
RunStep(s)    == \/ WorkerTakes(s) \/ PostReturns(s) \/ PollStarts(s) \/ PollAgain(s)
                 \/ TaskWakes(s) \/ PollFinds(s) \/ TaskFails(s)
StreamStep(s) == \/ StreamOpens(s) \/ WorkerSends(s) \/ StreamDelivers(s)
                 \/ StreamDeliversOther(s) \/ StreamGivesUp(s) \/ StreamCloses(s)
OtherStep(s)  == \/ Delete(s) \/ CleanupFails(s) \/ GrowsIdle(s) \/ GrowsOld(s)
                 \/ WorkerFinishes(s) \/ ContainerExits(s)

Next ==
  \/ \E s \in Session : \/ CreateStep(s) \/ PostStep(s) \/ RunStep(s)
                        \/ StreamStep(s) \/ OtherStep(s)
  \/ CleanupPass
  \/ Restart

Spec == Init /\ [][Next]_vars

(* The event loop runs a coroutine that can go on, the cleanup loop wakes     *)
(* every CLEANUP_EVERY_SECONDS, and time passes.  Nothing is assumed of the   *)
(* worker, of the network or of the client.                                   *)
CreateProgress(s) == ProbeAnswered(s) \/ CreateSucceeds(s) \/ CreateTimesOut(s)
Fairness ==
  /\ WF_vars(CleanupPass)
  /\ \A s \in Session : /\ WF_vars(CreateProgress(s))
                        /\ WF_vars(RunStep(s))
                        /\ WF_vars(GrowsOld(s))
FairSpec == Spec /\ Fairness

-----------------------------------------------------------------------------
(* Properties. *)

TypeOK ==
  /\ owner \in [Session -> Identity \cup {NoOne}]
  /\ status \in [Session -> Status]
  /\ stopReason \in [Session -> StopReason]
  /\ deletedAt \subseteq Session
  /\ msgs \in [Session -> 0..MaxMessages]
  /\ events \in [Session -> Nat]
  /\ registry \subseteq Session
  /\ creating \in [Session -> {"new", "readying", "probed", "done"}]
  /\ task \in [Session -> {"none"} \cup Pending]
  /\ completion \subseteq Session
  /\ clock \in [Session -> {"fresh", "idle", "aged"}]
  /\ stream \subseteq Session
  /\ inflight \in [Session -> {"none"} \cup Completion]
  /\ halfExpired \subseteq Session
  /\ worker \in [Session -> WorkerSt]
  /\ queue \in [Session -> Seq(Completion)]
  /\ leaked \subseteq Session

\* "Stop workers on deletion, expiration": once a session has left SESSIONS,
\* on whatever path, no task acts for it, and its container runs only if a
\* docker rm -f failed on it or the orchestrator died and startup() did not
\* remove it (cleanup_orphan_workers_on_startup is off by default).
LeftSessionIsQuiet ==
  \A s \in Session \ registry : task[s] = "none" /\ (worker[s] \in Up => s \in leaked)

\* A message is only forwarded for a session whose creation handler has
\* answered; a stream that is open during startup cannot open the door.
ReadyBeforeWork == \A s \in Session : Busy(s) => creating[s] = "done"

\* A row says "running" only while a task will write what comes next, so no
\* session is left running by a task that ended.
RunningHasTask ==
  \A s \in registry \ halfExpired : status[s] = "running" => Busy(s) /\ s \notin completion

\* The concurrency limits hold among the sessions that never failed: two
\* creations that overlap cannot both take the last place.
NeverFailed == {s \in Session : stopReason[s] = "none"}
ConcurrencyLimit ==
  /\ \A u \in User : Cardinality(UserActive(u) \cap NeverFailed) <= MaxUserSessions
  /\ \A o \in Org : Cardinality(OrgActive(o) \cap NeverFailed) <= MaxOrgSessions

\* "Expired/deleted sessions cannot accept new messages", whatever late events
\* wrote into the row, and nothing brings a session that left SESSIONS back.
LeftSessionStaysOut ==
  [][\A s \in Session : creating[s] # "new" /\ s \notin registry
        => s \notin registry' /\ msgs'[s] = msgs[s]]_vars

\* While the cleanup loop lives, every message gets an answer: the row leaves
\* "running" or the session is expired, even when the worker never answers.
CleanupDead == halfExpired # {}
MessageResolved ==
  \A s \in Session : (s \in registry /\ status[s] = "running")
                       ~> (s \notin registry \/ status[s] # "running" \/ CleanupDead)

\* While the cleanup loop lives, every container is reclaimed some day, but
\* for those that nothing knows any more: a docker rm -f failed on them, or
\* the orchestrator died and startup() did not remove them.
ContainerReclaimed ==
  \A s \in Session :
    worker[s] \in Up ~> (worker[s] \notin Up \/ CleanupDead \/ s \in leaked)

-----------------------------------------------------------------------------
(* What the documents say and the code does not do. *)

\* A row with deleted_at says "deleted".
DeletedRowSaysDeleted == \A s \in deletedAt : status[s] = "deleted"

\* No user and no organization has more active sessions than its limit.
ActiveWithinLimits ==
  /\ \A u \in User : Cardinality(UserActive(u)) <= MaxUserSessions
  /\ \A o \in Org : Cardinality(OrgActive(o)) <= MaxOrgSessions
=============================================================================
