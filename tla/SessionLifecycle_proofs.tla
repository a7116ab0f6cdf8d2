---------------------- MODULE SessionLifecycle_proofs ----------------------
(* Proofs about SessionLifecycle, for every set of sessions and identities   *)
(* and every value of the limits.                                            *)
EXTENDS SessionLifecycle, FiniteSetTheorems, SequenceTheorems, TLAPS

-----------------------------------------------------------------------------
(* The type invariant. *)

LEMMA InitTyped == Init => TypeOK
BY LimitsAssumption DEF Init, TypeOK, NoOne, Status, StopReason, WorkerSt

\* What stop_worker writes has the types of the variables it writes.
LEMMA StopTyped ==
  ASSUME TypeOK, NEW S \in SUBSET Session, Stop(S)
  PROVE  /\ worker' \in [Session -> WorkerSt]
         /\ queue' \in [Session -> Seq(Completion)]
         /\ leaked' \subseteq Session
<1>1. PICK F \in SUBSET UpIn(S) : /\ worker' = WorkersAfterStop(S \ F)
                                 /\ queue' = QueuesAfterStop(S \ F)
                                 /\ leaked' = (leaked \ S) \cup F
  BY DEF Stop
<1> QED BY <1>1 DEF TypeOK, UpIn, WorkersAfterStop, QueuesAfterStop, WorkerSt

\* Whichever containers of S stop_worker fails on, session t has its container
\* and its events or none, and a container of S that runs on is in leaked.
Stopped(S, t) ==
  /\ worker'[t] = worker[t] \/ worker'[t] = "absent"
  /\ queue[t] = <<>> => queue'[t] = <<>>
  /\ t \in S => (worker'[t] \in Up => t \in leaked')
  /\ t \notin S /\ (worker[t] \in Up => t \in leaked) => (worker'[t] \in Up => t \in leaked')

LEMMA StopLeaks ==
  ASSUME TypeOK, NEW S \in SUBSET Session, Stop(S), NEW t \in Session
  PROVE  Stopped(S, t)
<1>1. PICK F \in SUBSET UpIn(S) : /\ worker' = WorkersAfterStop(S \ F)
                                 /\ queue' = QueuesAfterStop(S \ F)
                                 /\ leaked' = (leaked \ S) \cup F
  BY DEF Stop
<1> QED BY <1>1 DEF Stopped, TypeOK, UpIn, WorkersAfterStop, QueuesAfterStop, Up

\* What _stop_session_worker writes has the types of the variables it writes.
LEMMA CloseTyped ==
  ASSUME TypeOK, NEW S \in SUBSET Session, NEW st \in {"expired", "deleted"},
         CloseSessions(S, st)
  PROVE  /\ owner' \in [Session -> Identity \cup {NoOne}]
         /\ status' \in [Session -> Status]
         /\ stopReason' \in [Session -> StopReason]
         /\ msgs' \in [Session -> 0..MaxMessages]
         /\ events' \in [Session -> Nat]
         /\ registry' \subseteq Session
         /\ creating' \in [Session -> {"new", "readying", "probed", "done"}]
         /\ task' \in [Session -> {"none"} \cup Pending]
         /\ completion' \subseteq Session
         /\ clock' \in [Session -> {"fresh", "idle", "aged"}]
         /\ stream' \subseteq Session
         /\ inflight' \in [Session -> {"none"} \cup Completion]
         /\ worker' \in [Session -> WorkerSt]
         /\ queue' \in [Session -> Seq(Completion)]
         /\ leaked' \subseteq Session
<1>1. /\ worker' \in [Session -> WorkerSt] /\ queue' \in [Session -> Seq(Completion)]
      /\ leaked' \subseteq Session
  BY StopTyped DEF CloseSessions
<1> QED BY <1>1, LimitsAssumption DEF TypeOK, CloseSessions, CancelTasks, Recorded, Status, Terminal,
        StopReason

\* What _persist_worker_event writes has the types of the variables it writes.
LEMMA PersistTyped ==
  ASSUME TypeOK, NEW s \in Session, NEW kind, PersistEvent(s, kind)
  PROVE  /\ events' \in [Session -> Nat]
         /\ status' \in [Session -> Status]
         /\ stopReason' \in [Session -> StopReason]
         /\ completion' \subseteq Session
<1>1. events' \in [Session -> Nat]
  BY LimitsAssumption DEF TypeOK, PersistEvent, RecordEvent, Recorded
<1>2. CASE Kept(s) /\ kind \in Completion
  <2>1. completion' \subseteq Session
    BY <1>2 DEF TypeOK, PersistEvent
  <2>2. CASE kind = "done"
    <3>1. WriteStatus(s, "completed", "none")
      BY <1>2, <2>2 DEF PersistEvent
    <3>2. status' \in [Session -> Status] /\ stopReason' \in [Session -> StopReason]
      BY <3>1 DEF TypeOK, WriteStatus, Status, Accepting
    <3> QED BY <1>1, <2>1, <3>2
  <2>3. CASE kind # "done"
    <3>1. WriteStatus(s, "failed", "failed")
      BY <1>2, <2>3 DEF PersistEvent
    <3>2. status' \in [Session -> Status] /\ stopReason' \in [Session -> StopReason]
      BY <3>1 DEF TypeOK, WriteStatus, Status, Terminal, StopReason
    <3> QED BY <1>1, <2>1, <3>2
  <2> QED BY <2>2, <2>3
<1>3. CASE ~(Kept(s) /\ kind \in Completion)
  BY <1>1, <1>3 DEF TypeOK, PersistEvent
<1> QED BY <1>2, <1>3

LEMMA CreateTyped == ASSUME TypeOK, NEW s \in Session, CreateStep(s) PROVE TypeOK'
<1> USE LimitsAssumption DEF TypeOK, rowVars, turnVars, streamVars, workerVars, registryVars
<1>1. ASSUME NEW i \in Identity, CreateStarts(s, i) PROVE TypeOK'
  BY <1>1 DEF CreateStarts, WriteStatus, Status, WorkerSt, Up
<1>2. ASSUME NEW i \in Identity, CreateRefused(s, i) PROVE TypeOK'
  <2>1. events' \in [Session -> Nat]
    BY <1>2 DEF CreateRefused, RecordEvent, Recorded
  <2>2. status' \in [Session -> Status] /\ stopReason' \in [Session -> StopReason]
    BY <1>2 DEF CreateRefused, WriteStatus, Status, Terminal, StopReason
  <2> QED BY <1>2, <2>1, <2>2 DEF CreateRefused
<1>3. ASSUME NEW i \in Identity, CreateRaises(s, i) PROVE TypeOK'
  BY <1>3 DEF CreateRaises, WriteStatus, Status
<1>4. CASE ProbeAnswered(s)
  BY <1>4 DEF ProbeAnswered
<1>5. CASE CreateSucceeds(s)
  BY <1>5 DEF CreateSucceeds, CreateAnswers, WriteStatus, Status, Accepting
<1>6. CASE CreateTimesOut(s)
  BY <1>6, StopTyped DEF CreateTimesOut, CreateGivesUp, WriteStatus, RecordEvent, Recorded, Status,
     Terminal, StopReason
<1> QED BY <1>1, <1>2, <1>3, <1>4, <1>5, <1>6 DEF CreateStep

LEMMA PostTyped == ASSUME TypeOK, NEW s \in Session, PostStep(s) PROVE TypeOK'
<1>1. CASE PostExpires(s)
  BY <1>1, CloseTyped DEF PostExpires, TypeOK
<1>2. CASE PostOverQuota(s)
  BY <1>2 DEF PostOverQuota, TypeOK, registryVars, rowVars, turnVars, streamVars, workerVars
<1>3. CASE PostAccepted(s)
  <2>1. msgs'[s] \in 0..MaxMessages /\ clock' \in [Session -> {"fresh", "idle", "aged"}]
    BY <1>3, LimitsAssumption DEF PostAccepted, QuotaReached, TypeOK, Touch, Touched
  <2>2. status' \in [Session -> Status] /\ stopReason' \in [Session -> StopReason]
    BY <1>3 DEF PostAccepted, WriteStatus, TypeOK, Status
  <2> QED BY <1>3, <2>1, <2>2 DEF PostAccepted, TypeOK, ClearCompletion, Pending, registryVars,
          streamVars, workerVars
<1> QED BY <1>1, <1>2, <1>3 DEF PostStep

LEMMA RunTyped == ASSUME TypeOK, NEW s \in Session, RunStep(s) PROVE TypeOK'
<1> USE DEF TypeOK, rowVars, registryVars, streamVars, workerVars
<1>1. CASE WorkerTakes(s)
  BY <1>1 DEF WorkerTakes, TaskStep, Pending, WorkerSt, Up
<1>2. CASE PostReturns(s) \/ PollStarts(s) \/ PollAgain(s)
  BY <1>2 DEF PostReturns, PollStarts, PollAgain, TaskStep, Pending
<1>3. CASE TaskWakes(s)
  BY <1>3 DEF TaskWakes, TaskEnds, Touch, Touched
<1>4. CASE PollFinds(s)
  BY <1>4 DEF PollFinds, TaskEnds, Touch, Touched, WriteStatus, Status, Terminal, Accepting,
     StopReason
<1>5. CASE TaskFails(s)
  BY <1>5 DEF TaskFails, TaskEnds, Touch, Touched, WriteStatus, Status, Terminal, StopReason
<1> QED BY <1>1, <1>2, <1>3, <1>4, <1>5 DEF RunStep

LEMMA StreamTyped == ASSUME TypeOK, NEW s \in Session, StreamStep(s) PROVE TypeOK'
<1> USE DEF rowVars, turnVars, registryVars, streamVars, workerVars
<1>1. CASE StreamOpens(s)
  BY <1>1 DEF TypeOK, StreamOpens, Touch, Touched
<1>2. CASE WorkerSends(s)
  <2>1. Head(queue[s]) \in Completion /\ Tail(queue[s]) \in Seq(Completion)
    BY <1>2, HeadTailProperties DEF TypeOK, WorkerSends
  <2> QED BY <1>2, <2>1 DEF TypeOK, WorkerSends
<1>3. CASE StreamDelivers(s)
  BY <1>3, PersistTyped DEF TypeOK, StreamDelivers, Touch, Touched
<1>4. CASE StreamDeliversOther(s)
  BY <1>4, PersistTyped DEF TypeOK, StreamDeliversOther, Touch, Touched
<1>5. CASE StreamGivesUp(s)
  BY <1>5, PersistTyped DEF TypeOK, StreamGivesUp
<1>6. CASE StreamCloses(s)
  <2>1. ASSUME inflight[s] # "none" PROVE <<inflight[s]>> \o queue[s] \in Seq(Completion)
    <3>1. inflight[s] \in Completion /\ queue[s] \in Seq(Completion)
      BY <2>1 DEF TypeOK
    <3>2. <<inflight[s]>> \in Seq(Completion)
      BY <3>1
    <3> HIDE DEF Completion
    <3> QED BY <3>1, <3>2, ConcatProperties
  <2>2. queue' \in [Session -> Seq(Completion)]
    <3> USE DEF StreamCloses
    <3>1. queue \in [Session -> Seq(Completion)]
      BY DEF TypeOK
    <3>2. CASE UNCHANGED queue
      BY <3>1, <3>2
    <3>3. CASE inflight[s] # "none" /\ queue' = [queue EXCEPT ![s] = <<inflight[s]>> \o @]
      <4> DEFINE q == <<inflight[s]>> \o queue[s]
      <4>1. q \in Seq(Completion) /\ queue' = [queue EXCEPT ![s] = q]
        BY <2>1, <3>3
      <4> HIDE DEF q
      <4> QED BY <3>1, <4>1
    <3> QED BY <1>6, <3>2, <3>3
  <2>3. stream' \subseteq Session /\ inflight' \in [Session -> {"none"} \cup Completion]
    BY <1>6 DEF TypeOK, StreamCloses
  <2> QED BY <1>6, <2>2, <2>3 DEF TypeOK, StreamCloses
<1> QED BY <1>1, <1>2, <1>3, <1>4, <1>5, <1>6 DEF StreamStep

LEMMA OtherTyped == ASSUME TypeOK, NEW s \in Session, OtherStep(s) PROVE TypeOK'
<1> USE DEF rowVars, turnVars, registryVars, streamVars, workerVars
<1>1. CASE Delete(s)
  BY <1>1, CloseTyped DEF Delete, TypeOK
<1>2. CASE CleanupFails(s)
  BY <1>2, StopTyped, LimitsAssumption DEF CleanupFails, TypeOK, CancelTasks, RecordEvent, Recorded
<1>3. CASE GrowsIdle(s) \/ GrowsOld(s)
  BY <1>3 DEF GrowsIdle, GrowsOld, TimePasses, TypeOK
<1>4. CASE WorkerFinishes(s)
  <2>1. PICK k \in Completion : /\ worker' = [worker EXCEPT ![s] = k]
                                /\ queue' = [queue EXCEPT ![s] = Append(@, k)]
    BY <1>4 DEF WorkerFinishes
  <2>2. Append(queue[s], k) \in Seq(Completion)
    BY AppendProperties DEF TypeOK
  <2> QED BY <1>4, <2>1, <2>2 DEF WorkerFinishes, TypeOK, WorkerSt, Up, Completion
<1>5. CASE ContainerExits(s)
  BY <1>5 DEF ContainerExits, TypeOK, WorkerSt
<1> QED BY <1>1, <1>2, <1>3, <1>4, <1>5 DEF OtherStep

LEMMA StepTyped == TypeOK /\ [Next]_vars => TypeOK'
<1> SUFFICES ASSUME TypeOK, [Next]_vars PROVE TypeOK'
  OBVIOUS
<1>1. CASE CleanupPass
  BY <1>1, CloseTyped DEF CleanupPass, Expirable, TypeOK
<1>2. CASE Restart
  <2>1. /\ worker' \in [Session -> WorkerSt] /\ queue' \in [Session -> Seq(Completion)]
        /\ leaked' \subseteq Session
    <3>1. CASE CleanupOrphansOnStartup
      BY <1>2, <3>1, StopTyped DEF Restart
    <3>2. CASE ~CleanupOrphansOnStartup
      BY <1>2, <3>2 DEF Restart, TypeOK, UpIn
    <3> QED BY <3>1, <3>2
  <2> QED BY <1>2, <2>1 DEF Restart, TypeOK, rowVars
<1>3. CASE UNCHANGED vars
  BY <1>3 DEF TypeOK, vars
<1> QED BY <1>1, <1>2, <1>3, CreateTyped, PostTyped, RunTyped, StreamTyped, OtherTyped DEF Next

\* Every variable keeps its type, the number of messages stays in its quota.
THEOREM SessionTyped == Spec => []TypeOK
BY InitTyped, StepTyped, PTL DEF Spec

-----------------------------------------------------------------------------
(* The inductive invariant.  The properties are not inductive by themselves: *)
(* whether a session that left SESSIONS can come back, get a message or      *)
(* count twice depends on what its creation handler, its task and its worker *)
(* can still do.                                                             *)

\* No task without an entry in SESSIONS, and no container but one that a stop
\* or a restart left running.
Quiet(s) == s \notin registry => task[s] = "none" /\ (worker[s] \in Up => s \in leaked)

\* Until its creation handler has answered, a session cannot have been given
\* work: its worker has emitted nothing, and no status accepts a message.
Unready(s) ==
  creating[s] # "done" => /\ task[s] = "none"
                          /\ inflight[s] = "none" /\ queue[s] = <<>>
                          /\ worker[s] \in {"absent", "exited", "idle"}
                          /\ status[s] \notin Accepting \cup {"running"}
                          /\ creating[s] = "new" => s \notin registry

\* RunningHasTask, for one session.
Running(s) ==
  s \in registry \ halfExpired /\ status[s] = "running" => Busy(s) /\ s \notin completion

\* A session that ended as the status says has a reason.
Reasoned(s) == s \in registry /\ status[s] \in Terminal => stopReason[s] # "none"

IInv == /\ TypeOK
        /\ \A s \in Session : Quiet(s) /\ Unready(s) /\ Running(s) /\ Reasoned(s)

-----------------------------------------------------------------------------
(* Each part of the invariant is preserved. *)

LEMMA CreatePreserves ==
  ASSUME IInv, NEW s \in Session, CreateStep(s), NEW t \in Session
  PROVE  (Quiet(t) /\ Unready(t) /\ Running(t) /\ Reasoned(t))'
<1> USE DEF IInv, TypeOK, Quiet, Unready, Running, Reasoned, Busy, rowVars, turnVars, streamVars,
        workerVars, registryVars
<1>1. ASSUME NEW i \in Identity, CreateStarts(s, i)
      PROVE  (Quiet(t) /\ Unready(t) /\ Running(t) /\ Reasoned(t))'
  BY <1>1 DEF CreateStarts, WriteStatus, Accepting, Terminal
<1>2. ASSUME NEW i \in Identity, CreateRefused(s, i)
      PROVE  (Quiet(t) /\ Unready(t) /\ Running(t) /\ Reasoned(t))'
  BY <1>2 DEF CreateRefused, WriteStatus, Accepting, Terminal
<1>3. ASSUME NEW i \in Identity, CreateRaises(s, i)
      PROVE  (Quiet(t) /\ Unready(t) /\ Running(t) /\ Reasoned(t))'
  BY <1>3 DEF CreateRaises, WriteStatus, Accepting, Terminal
<1>4. CASE ProbeAnswered(s)
  BY <1>4 DEF ProbeAnswered
<1>5. CASE CreateSucceeds(s)
  BY <1>5 DEF CreateSucceeds, CreateAnswers, WriteStatus, Accepting, Terminal
<1>6. CASE CreateTimesOut(s)
  <2>1. Stopped({s}, t)
    BY <1>6, StopLeaks DEF CreateTimesOut
  <2> QED BY <1>6, <2>1 DEF Stopped, CreateTimesOut, CreateGivesUp, WriteStatus, Accepting, Terminal
<1> QED BY <1>1, <1>2, <1>3, <1>4, <1>5, <1>6 DEF CreateStep

LEMMA ClosePreserves ==
  ASSUME IInv, NEW S \in SUBSET Session, NEW st \in {"expired", "deleted"}, CloseSessions(S, st),
         UNCHANGED halfExpired, NEW t \in Session
  PROVE  (Quiet(t) /\ Unready(t) /\ Running(t) /\ Reasoned(t))'
<1>1. Stopped(S, t)
  BY StopLeaks DEF IInv, CloseSessions
<1> QED BY <1>1 DEF Stopped, IInv, TypeOK, Quiet, Unready, Running, Reasoned, Busy, CloseSessions,
        CancelTasks, Accepting, Terminal

LEMMA PostPreserves ==
  ASSUME IInv, NEW s \in Session, PostStep(s), NEW t \in Session
  PROVE  (Quiet(t) /\ Unready(t) /\ Running(t) /\ Reasoned(t))'
<1>1. CASE PostExpires(s)
  BY <1>1, ClosePreserves DEF PostExpires
<1>2. CASE PostOverQuota(s)
  BY <1>2 DEF PostOverQuota, IInv, TypeOK, Quiet, Unready, Running, Reasoned, Busy, rowVars,
     turnVars, streamVars, workerVars, registryVars
<1>3. CASE PostAccepted(s)
  BY <1>3 DEF PostAccepted, CanPost, ClearCompletion, WriteStatus, IInv, TypeOK, Quiet, Unready,
     Running, Reasoned, Busy, Accepting, Terminal, rowVars, streamVars, workerVars, registryVars
<1> QED BY <1>1, <1>2, <1>3 DEF PostStep

LEMMA RunPreserves ==
  ASSUME IInv, NEW s \in Session, RunStep(s), NEW t \in Session
  PROVE  (Quiet(t) /\ Unready(t) /\ Running(t) /\ Reasoned(t))'
<1> USE DEF IInv, TypeOK, Quiet, Unready, Running, Reasoned, Busy, rowVars, turnVars, streamVars,
        workerVars, registryVars
<1>1. CASE WorkerTakes(s)
  BY <1>1 DEF WorkerTakes, TaskStep, Up
<1>2. CASE PostReturns(s) \/ PollStarts(s) \/ PollAgain(s)
  BY <1>2 DEF PostReturns, PollStarts, PollAgain, TaskStep
<1>3. CASE TaskWakes(s)
  BY <1>3 DEF TaskWakes, TaskEnds
<1>4. CASE PollFinds(s)
  BY <1>4 DEF PollFinds, TaskEnds, WriteStatus, Accepting, Terminal
<1>5. CASE TaskFails(s)
  BY <1>5 DEF TaskFails, TaskEnds, WriteStatus, Accepting, Terminal
<1> QED BY <1>1, <1>2, <1>3, <1>4, <1>5 DEF RunStep

LEMMA StreamPreserves ==
  ASSUME IInv, NEW s \in Session, StreamStep(s), NEW t \in Session
  PROVE  (Quiet(t) /\ Unready(t) /\ Running(t) /\ Reasoned(t))'
<1> USE DEF IInv, TypeOK, Quiet, Unready, Running, Reasoned, Busy, rowVars, turnVars, streamVars,
        workerVars, registryVars
<1>1. CASE StreamOpens(s)
  BY <1>1 DEF StreamOpens
<1>2. CASE WorkerSends(s)
  BY <1>2 DEF WorkerSends
<1>3. CASE StreamDelivers(s)
  BY <1>3 DEF StreamDelivers, PersistEvent, WriteStatus, Completion, Accepting, Terminal
<1>4. CASE StreamDeliversOther(s)
  BY <1>4 DEF StreamDeliversOther, PersistEvent, Completion
<1>5. CASE StreamGivesUp(s)
  BY <1>5 DEF StreamGivesUp, PersistEvent, WriteStatus, Completion, Accepting, Terminal
<1>6. CASE StreamCloses(s)
  BY <1>6 DEF StreamCloses
<1> QED BY <1>1, <1>2, <1>3, <1>4, <1>5, <1>6 DEF StreamStep

LEMMA OtherPreserves ==
  ASSUME IInv, NEW s \in Session, OtherStep(s), NEW t \in Session
  PROVE  (Quiet(t) /\ Unready(t) /\ Running(t) /\ Reasoned(t))'
<1> USE DEF Quiet, Unready, Running, Reasoned, Busy, rowVars, turnVars, streamVars, workerVars,
        registryVars
<1>1. CASE Delete(s)
  BY <1>1, ClosePreserves DEF Delete
<1>2. CASE CleanupFails(s)
  <2>1. Stopped({s}, t)
    BY <1>2, StopLeaks DEF CleanupFails, IInv
  <2> QED BY <1>2, <2>1 DEF Stopped, CleanupFails, CancelTasks, Expirable, IInv, TypeOK
<1>3. CASE GrowsIdle(s) \/ GrowsOld(s)
  BY <1>3 DEF GrowsIdle, GrowsOld, TimePasses, IInv, TypeOK
<1>4. CASE WorkerFinishes(s)
  BY <1>4 DEF WorkerFinishes, IInv, TypeOK, Up, Completion
<1>5. CASE ContainerExits(s)
  BY <1>5 DEF ContainerExits, IInv, TypeOK, Up
<1> QED BY <1>1, <1>2, <1>3, <1>4, <1>5 DEF OtherStep

LEMMA RestartPreserves ==
  ASSUME IInv, Restart, NEW t \in Session
  PROVE  (Quiet(t) /\ Unready(t) /\ Running(t) /\ Reasoned(t))'
<1>1. CASE CleanupOrphansOnStartup
  <2>1. Stopped(Session, t)
    BY <1>1, StopLeaks DEF Restart, IInv
  <2> QED BY <2>1 DEF Stopped, Restart, IInv, TypeOK, Quiet, Unready, Running, Reasoned, rowVars
<1>2. CASE ~CleanupOrphansOnStartup
  BY <1>2 DEF Restart, UpIn, IInv, TypeOK, Quiet, Unready, Running, Reasoned, rowVars
<1> QED BY <1>1, <1>2

LEMMA InvariantStep == IInv /\ [Next]_vars => IInv'
<1> SUFFICES ASSUME IInv, [Next]_vars PROVE IInv'
  OBVIOUS
<1>1. TypeOK'
  BY StepTyped DEF IInv
<1> SUFFICES ASSUME NEW t \in Session
             PROVE  (Quiet(t) /\ Unready(t) /\ Running(t) /\ Reasoned(t))'
  BY <1>1 DEF IInv
<1>2. CASE CleanupPass
  BY <1>2, ClosePreserves DEF CleanupPass, Expirable, IInv, TypeOK
<1>3. CASE UNCHANGED vars
  BY <1>3 DEF vars, IInv, Quiet, Unready, Running, Reasoned, Busy
<1> QED BY <1>2, <1>3, RestartPreserves, CreatePreserves, PostPreserves, RunPreserves,
        StreamPreserves, OtherPreserves DEF Next

LEMMA Invariant == Spec => []IInv
<1>1. Init => IInv
  BY InitTyped DEF Init, IInv, Quiet, Unready, Running, Reasoned, Up, Accepting
<1> QED BY <1>1, InvariantStep, PTL DEF Spec

-----------------------------------------------------------------------------
(* The properties that follow from the invariant. *)

\* A session that has left SESSIONS has no task, and its container runs only if
\* a docker rm -f failed on it or a restart did not remove it: no path of
\* _stop_session_worker or of a failed creation forgets one.
THEOREM LeftSessionsAreQuiet == Spec => []LeftSessionIsQuiet
<1>1. IInv => LeftSessionIsQuiet
  BY DEF IInv, Quiet, LeftSessionIsQuiet
<1> QED BY <1>1, Invariant, PTL

\* No message reaches a worker before POST /sessions has answered.
THEOREM WorkFollowsReadiness == Spec => []ReadyBeforeWork
<1>1. IInv => ReadyBeforeWork
  BY DEF IInv, Unready, ReadyBeforeWork, Busy
<1> QED BY <1>1, Invariant, PTL

\* Every session that says "running" has a task that still has to end, and
\* whose completion_event nobody has set for an earlier message.
THEOREM RunningSessionsHaveTasks == Spec => []RunningHasTask
<1>1. IInv => RunningHasTask
  BY DEF IInv, Running, RunningHasTask, TypeOK
<1> QED BY <1>1, Invariant, PTL

\* A session that has left SESSIONS never comes back and gets no message.
THEOREM LeftSessionsStayOut == Spec => LeftSessionStaysOut
<1>1. ASSUME IInv, [Next]_vars, NEW s \in Session, creating[s] # "new", s \notin registry
      PROVE  s \notin registry' /\ msgs'[s] = msgs[s]
  <2> USE <1>1 DEF IInv, TypeOK, turnVars, registryVars, CloseSessions
  <2>1. ASSUME NEW t \in Session, CreateStep(t) PROVE s \notin registry' /\ msgs'[s] = msgs[s]
    BY <2>1 DEF CreateStep, CreateStarts, CreateRefused, CreateRaises, ProbeAnswered, CreateSucceeds,
       CreateAnswers, CreateTimesOut, CreateGivesUp
  <2>2. ASSUME NEW t \in Session, PostStep(t) PROVE s \notin registry' /\ msgs'[s] = msgs[s]
    BY <2>2 DEF PostStep, PostExpires, PostOverQuota, PostAccepted, CanPost
  <2>3. ASSUME NEW t \in Session, RunStep(t) PROVE s \notin registry' /\ msgs'[s] = msgs[s]
    BY <2>3 DEF RunStep, WorkerTakes, PostReturns, PollStarts, PollAgain, TaskStep, TaskWakes,
       PollFinds, TaskFails, TaskEnds
  <2>4. ASSUME NEW t \in Session, StreamStep(t) PROVE s \notin registry' /\ msgs'[s] = msgs[s]
    BY <2>4 DEF StreamStep, StreamOpens, WorkerSends, StreamDelivers, StreamDeliversOther,
       StreamGivesUp, StreamCloses
  <2>5. ASSUME NEW t \in Session, OtherStep(t) PROVE s \notin registry' /\ msgs'[s] = msgs[s]
    BY <2>5 DEF OtherStep, Delete, CleanupFails, GrowsIdle, GrowsOld, TimePasses, WorkerFinishes,
       ContainerExits
  <2> QED BY <2>1, <2>2, <2>3, <2>4, <2>5 DEF Next, CleanupPass, Restart, vars
<1>2. IInv /\ [Next]_vars
        => [\A s \in Session : creating[s] # "new" /\ s \notin registry
              => s \notin registry' /\ msgs'[s] = msgs[s]]_vars
  BY <1>1
<1> QED BY <1>2, Invariant, PTL DEF Spec, LeftSessionStaysOut

-----------------------------------------------------------------------------
(* The concurrency limits.  Only the first step of POST /sessions adds to the *)
(* sessions that count and never failed, and it adds one.                    *)

Counted(s) == Active(s) /\ s \in NeverFailed

LEMMA CountedBefore ==
  ASSUME IInv, [Next]_vars, NEW t \in Session, Counted(t)',
         ~\E i \in Identity : CreateStarts(t, i)
  PROVE  Counted(t) /\ owner'[t] = owner[t]
<1> USE DEF IInv, TypeOK, Unready, Reasoned, Counted, Active, NeverFailed, rowVars, turnVars,
        streamVars, workerVars, registryVars
<1>1. ASSUME NEW s \in Session, CreateStep(s) PROVE Counted(t) /\ owner'[t] = owner[t]
  <2>1. ASSUME NEW i \in Identity, CreateStarts(s, i) PROVE Counted(t) /\ owner'[t] = owner[t]
    BY <2>1 DEF CreateStarts, WriteStatus
  <2>2. ASSUME NEW i \in Identity, CreateRefused(s, i) \/ CreateRaises(s, i)
        PROVE  Counted(t) /\ owner'[t] = owner[t]
    BY <2>2 DEF CreateRefused, CreateRaises, WriteStatus
  <2>3. CASE ProbeAnswered(s)
    BY <2>3 DEF ProbeAnswered
  <2>4. CASE CreateSucceeds(s)
    BY <2>4 DEF CreateSucceeds, CreateAnswers, WriteStatus
  <2>5. CASE CreateTimesOut(s)
    BY <2>5 DEF CreateTimesOut, CreateGivesUp, WriteStatus
  <2> QED BY <1>1, <2>1, <2>2, <2>3, <2>4, <2>5 DEF CreateStep
<1>2. ASSUME NEW s \in Session, PostStep(s) PROVE Counted(t) /\ owner'[t] = owner[t]
  BY <1>2 DEF PostStep, PostExpires, PostOverQuota, PostAccepted, WriteStatus, CloseSessions
<1>3. ASSUME NEW s \in Session, RunStep(s) PROVE Counted(t) /\ owner'[t] = owner[t]
  BY <1>3 DEF RunStep, WorkerTakes, PostReturns, PollStarts, PollAgain, TaskStep, TaskWakes,
     PollFinds, TaskFails, TaskEnds, WriteStatus
<1>4. ASSUME NEW s \in Session, StreamStep(s) PROVE Counted(t) /\ owner'[t] = owner[t]
  <2>1. ASSUME NEW kind, PersistEvent(s, kind), UNCHANGED <<registryVars, deletedAt>>
        PROVE  Counted(t) /\ owner'[t] = owner[t]
    BY <2>1 DEF PersistEvent, WriteStatus
  <2>2. CASE StreamDelivers(s) \/ StreamDeliversOther(s) \/ StreamGivesUp(s)
    BY <2>1, <2>2 DEF StreamDelivers, StreamDeliversOther, StreamGivesUp
  <2>3. CASE StreamOpens(s) \/ WorkerSends(s) \/ StreamCloses(s)
    BY <2>3 DEF StreamOpens, WorkerSends, StreamCloses
  <2> QED BY <1>4, <2>2, <2>3 DEF StreamStep
<1>5. ASSUME NEW s \in Session, OtherStep(s) PROVE Counted(t) /\ owner'[t] = owner[t]
  BY <1>5 DEF OtherStep, Delete, CleanupFails, GrowsIdle, GrowsOld, TimePasses, WorkerFinishes,
     ContainerExits, CloseSessions
<1>6. CASE CleanupPass
  BY <1>6 DEF CleanupPass, CloseSessions
<1>7. CASE Restart
  BY <1>7 DEF Restart
<1>8. CASE UNCHANGED vars
  BY <1>8 DEF vars
<1> QED BY <1>1, <1>2, <1>3, <1>4, <1>5, <1>6, <1>7, <1>8 DEF Next

\* Within a limit: a set that keeps to its members, or a set of fewer than the
\* limit that gets one more.
LEMMA OneMore ==
  ASSUME NEW S, NEW T, NEW s, NEW Limit \in Nat, IsFiniteSet(S),
         \/ T \subseteq S /\ Cardinality(S) <= Limit
         \/ T \subseteq S \cup {s} /\ Cardinality(S) < Limit
  PROVE  Cardinality(T) <= Limit
<1>1. IsFiniteSet(S \cup {s}) /\ Cardinality(S \cup {s}) <= Cardinality(S) + 1
  <2>1. Cardinality(S) \in Nat
    BY FS_CardinalityType
  <2>2. Cardinality(S \cup {s}) = IF s \in S THEN Cardinality(S) ELSE Cardinality(S) + 1
    BY FS_AddElement
  <2>3. IsFiniteSet(S \cup {s})
    BY FS_AddElement
  <2> QED BY <2>1, <2>2, <2>3
<1>2. CASE T \subseteq S /\ Cardinality(S) <= Limit
  BY <1>2, FS_Subset, FS_CardinalityType
<1>3. CASE T \subseteq S \cup {s} /\ Cardinality(S) < Limit
  <2>1. IsFiniteSet(T) /\ Cardinality(T) <= Cardinality(S \cup {s})
    BY <1>1, <1>3, FS_Subset
  <2> QED BY <1>1, <1>3, <2>1, FS_CardinalityType
<1> QED BY <1>2, <1>3

\* A step of POST /sessions leaves the sets that count as they are, but for
\* the new session, which was let in by Admitted.
LEMMA LimitStep == IInv /\ ConcurrencyLimit /\ [Next]_vars => ConcurrencyLimit'
<1> SUFFICES ASSUME IInv, ConcurrencyLimit, [Next]_vars PROVE ConcurrencyLimit'
  OBVIOUS
<1> DEFINE U(u) == UserActive(u) \cap NeverFailed
           O(o) == OrgActive(o) \cap NeverFailed
<1>1. /\ \A u \in User : IsFiniteSet(UserActive(u)) /\ IsFiniteSet(U(u))
      /\ \A o \in Org : IsFiniteSet(OrgActive(o)) /\ IsFiniteSet(O(o))
  BY SessionAssumption, FS_Subset DEF UserActive, OrgActive
<1>2. MaxUserSessions \in Nat /\ MaxOrgSessions \in Nat
  BY LimitsAssumption
<1>3. CASE ~\E s \in Session, i \in Identity : CreateStarts(s, i)
  <2>1. /\ \A u \in User : U(u)' \subseteq U(u)
        /\ \A o \in Org : O(o)' \subseteq O(o)
    BY <1>3, CountedBefore DEF UserActive, OrgActive, Counted, NeverFailed
  <2>2. ASSUME NEW u \in User PROVE Cardinality(U(u)') <= MaxUserSessions
    BY <1>1, <1>2, <2>1, OneMore DEF ConcurrencyLimit
  <2>3. ASSUME NEW o \in Org PROVE Cardinality(O(o)') <= MaxOrgSessions
    BY <1>1, <1>2, <2>1, OneMore DEF ConcurrencyLimit
  <2> QED BY <2>2, <2>3 DEF ConcurrencyLimit
<1>4. ASSUME NEW s \in Session, NEW i \in Identity, CreateStarts(s, i) PROVE ConcurrencyLimit'
  <2>1. \A t \in Session \ {s} : Counted(t)' => Counted(t) /\ owner'[t] = owner[t]
    BY <1>4 DEF CreateStarts, IInv, TypeOK, Counted, Active, NeverFailed, WriteStatus
  <2>2. owner'[s] = i
    BY <1>4 DEF CreateStarts, IInv, TypeOK
  <2>3. ASSUME NEW u \in User PROVE Cardinality(U(u)') <= MaxUserSessions
    <3>1. CASE u = i.user
      <4>1. U(u)' \subseteq U(u) \cup {s}
        BY <2>1 DEF UserActive, Counted, NeverFailed
      <4>2. Cardinality(U(u)) < MaxUserSessions
        BY <1>1, <1>2, <1>4, <3>1, FS_Subset, FS_CardinalityType DEF CreateStarts, Admitted
      <4> QED BY <1>1, <1>2, <4>1, <4>2, OneMore
    <3>2. CASE u # i.user
      <4>1. U(u)' \subseteq U(u)
        BY <2>1, <2>2, <3>2 DEF UserActive, Counted, NeverFailed
      <4> QED BY <1>1, <1>2, <4>1, OneMore DEF ConcurrencyLimit
    <3> QED BY <3>1, <3>2
  <2>4. ASSUME NEW o \in Org PROVE Cardinality(O(o)') <= MaxOrgSessions
    <3>1. CASE o = i.org
      <4>1. O(o)' \subseteq O(o) \cup {s}
        BY <2>1 DEF OrgActive, Counted, NeverFailed
      <4>2. Cardinality(O(o)) < MaxOrgSessions
        BY <1>1, <1>2, <1>4, <3>1, FS_Subset, FS_CardinalityType DEF CreateStarts, Admitted
      <4> QED BY <1>1, <1>2, <4>1, <4>2, OneMore
    <3>2. CASE o # i.org
      <4>1. O(o)' \subseteq O(o)
        BY <2>1, <2>2, <3>2 DEF OrgActive, Counted, NeverFailed
      <4> QED BY <1>1, <1>2, <4>1, OneMore DEF ConcurrencyLimit
    <3> QED BY <3>1, <3>2
  <2> QED BY <2>3, <2>4 DEF ConcurrencyLimit
<1> QED BY <1>3, <1>4

\* Creations that overlap their readiness waits never take more places than
\* the limits leave, among the sessions that have not failed.
THEOREM LimitsHold == Spec => []ConcurrencyLimit
<1>1. Init => ConcurrencyLimit
  <2>1. ASSUME Init PROVE /\ \A u \in User : UserActive(u) \cap NeverFailed = {}
                          /\ \A o \in Org : OrgActive(o) \cap NeverFailed = {}
    BY <2>1 DEF Init, UserActive, OrgActive, Active
  <2> QED BY <2>1, FS_EmptySet, LimitsAssumption DEF ConcurrencyLimit
<1> QED BY <1>1, Invariant, LimitStep, PTL DEF Spec
=============================================================================
