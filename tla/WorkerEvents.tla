---------------------------- MODULE WorkerEvents ----------------------------
(***************************************************************************)
(* How the events of a worker reach the database of the orchestrator.  The *)
(* worker (worker_api.py) puts each event into a log, which is replayed,   *)
(* and into a queue, which is read live.  The proxy of the orchestrator    *)
(* (sse_events in api/main.py) reads them over a connection that breaks,   *)
(* persists each and hands it to the harness of the message; done and      *)
(* error also wake the task of the message, which polls as well.  A        *)
(* session that has max_events_per_session events drops all further ones.  *)
(* One session, at most one client of its event stream at a time.          *)
(***************************************************************************)
EXTENDS SessionHarness, Sequences, FiniteSets, SequencesExt

CONSTANTS
  EVENT_LOG_MAX,     \* events the worker can replay
  SSE_RETRY_LIMIT,   \* failures in a row after which the proxy gives up
  MaxTurns,          \* bound: messages
  MaxBreaks,         \* bound: broken connections, failed ones, clients that leave,
                     \* failed writes of the database
  MaxTrouble,        \* bound: two for each message and one for each such break
  WireCap            \* bound: events the worker sends ahead of the proxy

ASSUME EventsAssumption ==
  /\ EVENT_LOG_MAX \in Nat \ {0} /\ SSE_RETRY_LIMIT \in Nat /\ MaxTurns \in Nat
  /\ MaxBreaks \in Nat /\ MaxTrouble \in Nat /\ WireCap \in Nat \ {0}

VARIABLES
  \* the worker: STATE
  run, serving, status, next_event_id, event_log, queue,
  \* its event streams: that of the proxy, and how many have lost their client
  stream, stale,
  \* the connection: blocks under way, and one that was cut in the middle
  wire, torn,
  \* the proxy: its loop, headers["Last-Event-ID"] (0: absent), retries
  proxy, lastId, retries, breaks,
  \* the messages: how many, and of the last SessionState.task,
  \* completion_event, harness and its row
  turn, task, completion_event, harness, row,
  \* the session has reached the event limit
  full,
  \* history: ids persisted, in order so far, replayed at all, excused from
  \* arriving; and of the current message: an event of another message or a
  \* repeated one came, the orchestrator lost touch with the worker
  got, tidy, replayed, excused, strayed, repeated, lapsed

worker  == <<run, serving, status, next_event_id, event_log, queue>>
link    == <<stream, stale, wire, torn, proxy, lastId, retries, breaks>>
message == <<turn, task, completion_event, harness, row, full, strayed, repeated, lapsed>>
history == <<got, tidy, replayed, excused>>
vars    == <<worker, link, message, history>>

MayPost  == turn < MaxTurns /\ 2 * (turn + 1) + breaks <= MaxTrouble
MayBreak == breaks < MaxBreaks /\ 2 * turn + breaks + 1 <= MaxTrouble

Ids(s)  == {e.id : e \in ToSet(s)}
Emitted == 1 .. next_event_id - 1

NoStream == [mode |-> "off", rest |-> <<>>, shared |-> FALSE]
NoEvent  == [id |-> 0, turn |-> 0, event |-> "other"]

\* A turn emits at most five events (RunStep).
EventRec ==
  [id : 1 .. 5 * MaxTurns, turn : 1 .. MaxTurns, event : Event]

(* WorkerEvents!TypeOK: what the variables hold; the log never holds more than *)
(* EVENT_LOG_MAX events and ids are those given out by _emit.                  *)
TypeOK ==
  /\ {turn, serving} \subseteq 0 .. MaxTurns /\ run \in {"off", "started", "tool"}
  /\ status \in {"idle", "running", "done", "error"}
  /\ next_event_id \in 1 .. 5 * MaxTurns + 1
  /\ ToSet(event_log) \cup ToSet(queue) \cup ToSet(wire) \subseteq EventRec
  /\ Len(event_log) <= EVENT_LOG_MAX /\ Len(wire) <= WireCap
  /\ stream.mode \in {"off", "replay", "live", "ended"}
  /\ ToSet(stream.rest) \subseteq EventRec /\ stream.shared \in BOOLEAN
  /\ stale \in 0 .. MaxBreaks /\ torn \in EventRec \cup {NoEvent}
  /\ proxy \in {"none", "connecting", "connected"}
  /\ lastId \in {0} \cup Emitted /\ retries \in 0 .. SSE_RETRY_LIMIT
  /\ breaks \in 0 .. MaxBreaks
  /\ task \in {"none", "posting", "waiting"} /\ completion_event \in BOOLEAN
  /\ harness \in Harness /\ row \in {"ready", "running", "completed", "failed"}
  /\ got \cup excused \subseteq Emitted
  /\ {full, tidy, replayed, strayed, repeated, lapsed} \subseteq BOOLEAN

Init ==
  /\ turn = 0 /\ serving = 0 /\ run = "off" /\ status = "idle"
  /\ next_event_id = 1 /\ event_log = <<>> /\ queue = <<>>
  /\ stream = NoStream /\ stale = 0 /\ wire = <<>> /\ torn = NoEvent
  /\ proxy = "none" /\ lastId = 0 /\ retries = 0 /\ breaks = 0
  /\ task = "none" /\ completion_event = FALSE /\ harness = create /\ row = "ready"
  /\ full = FALSE /\ got = {} /\ tidy = TRUE /\ replayed = FALSE /\ excused = {}
  /\ strayed = FALSE /\ repeated = FALSE /\ lapsed = FALSE

-----------------------------------------------------------------------------
(* The worker. *)

\* The log is cut by rebinding STATE.event_log.
\* mutant: the log is never cut
KeepAll(log) == log
Cut(log) ==
  IF Len(log) > EVENT_LOG_MAX
  THEN SubSeq(log, Len(log) - EVENT_LOG_MAX + 1, Len(log)) ELSE log

\* A replay goes on in the list it began with: it sees what is appended until
\* the list is rebound, the event that made it too long included.
Appended(s, evts) ==
  LET seen == Min({Len(evts), EVENT_LOG_MAX - Len(event_log) + 1})
  IN IF s.mode = "replay" /\ s.shared
     THEN [s EXCEPT !.rest = @ \o SubSeq(evts, 1, seen),
                    !.shared = Len(event_log) + Len(evts) <= EVENT_LOG_MAX]
     ELSE s

\* _emit for each of kinds, on behalf of message t.  An event that leaves the log before it was
\* persisted need not arrive.
_emit(t, kinds) ==
  LET evts == [k \in 1 .. Len(kinds) |->
                 [id |-> next_event_id + k - 1, turn |-> t, event |-> kinds[k]]]
  IN /\ next_event_id' = next_event_id + Len(kinds)
     /\ event_log' = Cut(event_log \o evts)
     /\ queue' = queue \o evts
     /\ stream' = Appended(stream, evts)
     /\ excused' = excused \cup (Ids(event_log \o evts) \ (Ids(event_log') \cup got))

\* POST /messages of the worker accepts: the task of the orchestrator waits, or
\* the answer is late and its task has failed.
WorkerTakes ==
  /\ task = "posting" /\ run = "off"
  /\ run' = "started" /\ serving' = turn /\ status' = "running"
  /\ \/ task' = "waiting" /\ UNCHANGED <<row, lapsed>>
     \/ task' = "none" /\ row' = "failed" /\ lapsed' = TRUE
  /\ UNCHANGED <<next_event_id, event_log, queue, link, turn, completion_event,
                 harness, full, strayed, repeated, history>>

\* The POST fails: the worker is busy, is not reached, or finds its settings
\* wrong and emits an error.
WorkerRefuses ==
  /\ task = "posting"
  /\ task' = "none" /\ row' = "failed" /\ lapsed' = TRUE
  /\ \/ UNCHANGED <<next_event_id, event_log, queue, stream, excused>>
     \/ run = "off" /\ _emit(turn, <<"error">>)
  /\ UNCHANGED <<run, serving, status, stale, wire, torn, proxy, lastId, retries, breaks,
                 turn, completion_event, harness, full, strayed, repeated, got, tidy,
                 replayed>>

\* _run between two suspensions.  Blocks are emitted by tasks of their own,
\* which run once _run has suspended or ended: the blocks of the last answer
\* and the result of the last tool follow done.  "block" is one or more.
RunStep ==
  /\ \/ /\ run = "started" /\ run' = "tool" /\ UNCHANGED status
        /\ _emit(serving, <<"user_message", "block">>)
     \/ /\ run = "started" /\ run' = "off" /\ status' = "done"
        /\ _emit(serving, <<"user_message", "done", "block">>)
     \/ /\ run = "started" /\ run' = "off" /\ status' = "error"
        /\ _emit(serving, <<"user_message", "error">>)
     \/ /\ run = "tool" /\ run' = "off" /\ status' = "done"
        /\ _emit(serving, <<"done", "block">>)
     \/ /\ run = "tool" /\ run' = "off" /\ status' = "error"
        /\ _emit(serving, <<"error", "block">>)
  /\ UNCHANGED <<serving, stale, wire, torn, proxy, lastId, retries, breaks, message,
                 got, tidy, replayed>>
-----------------------------------------------------------------------------
(* The event streams of the worker. *)

\* The log from the first event beyond last on; ids ascend in it.
LogFrom(last) ==
  LET i == SelectInSeq(event_log, LAMBDA e : e.id > last)
  IN IF i = 0 THEN <<>> ELSE SubSeq(event_log, i, Len(event_log))

\* mutant: an event the client has not seen is passed over
SkipOne(last) == LogFrom(last + 1)
\* mutant: the whole log is replayed
ReplayWhole(last) == event_log
Replayed(last) == LogFrom(last)

\* mutant: a stream without Last-Event-ID replays too
ReplayAnyway(last) == [mode |-> "replay", rest |-> Replayed(last), shared |-> TRUE]
\* A stream without Last-Event-ID starts live.
NewStream(last) ==
  IF last = 0 THEN [NoStream EXCEPT !.mode = "live"]
  ELSE [mode |-> "replay", rest |-> Replayed(last), shared |-> TRUE]

\* Replay: the stream ends with the first done or error, else goes live.
Replay ==
  /\ stream.mode = "replay"
  /\ IF stream.rest = <<>>
     THEN /\ stream' = [NoStream EXCEPT !.mode = "live"]
          /\ UNCHANGED wire
     ELSE /\ Len(wire) < WireCap
          /\ wire' = Append(wire, Head(stream.rest))
          /\ stream' = IF Head(stream.rest).event \in {"done", "error"}
                       THEN [NoStream EXCEPT !.mode = "ended"]
                       ELSE [stream EXCEPT !.rest = Tail(@)]
  /\ UNCHANGED <<worker, stale, torn, proxy, lastId, retries, breaks, message, history>>

Live ==
  /\ stream.mode = "live" /\ queue # <<>> /\ Len(wire) < WireCap
  /\ queue' = Tail(queue) /\ wire' = Append(wire, Head(queue))
  /\ UNCHANGED <<run, serving, status, next_event_id, event_log, stream, stale, torn,
                 proxy, lastId, retries, breaks, message, history>>

\* A stream whose client has gone takes an event before it is cancelled.  A
\* stream that has already begun will not replay it.
StaleTakes ==
  /\ stale > 0 /\ queue # <<>>
  /\ queue' = Tail(queue)
  /\ excused' = IF proxy = "connected" /\ Head(queue).id \notin got
                THEN excused \cup {Head(queue).id} ELSE excused
  /\ UNCHANGED <<run, serving, status, next_event_id, event_log, link, message,
                 got, tidy, replayed>>

StaleEnds ==
  /\ stale > 0 /\ stale' = stale - 1
  /\ UNCHANGED <<worker, stream, wire, torn, proxy, lastId, retries, breaks, message, history>>

-----------------------------------------------------------------------------
(* The proxy. *)

\* The event is in the database.
Stored(e) ==
  /\ strayed' = (strayed \/ e.turn # turn)
  /\ repeated' = (repeated \/ e.id \in got)
  /\ tidy' = (tidy /\ \A i \in got : i < e.id)
  /\ got' = got \cup {e.id}
  /\ UNCHANGED excused

\* What is done with a stored event: the harness, the row and the task.
Noted(kind) ==
  /\ harness' = on_worker_event(harness, kind)
  /\ row' = CASE kind = "done"  -> "completed"
              [] kind = "error" -> "failed"
              [] OTHER          -> row
  /\ completion_event' = (completion_event \/ kind \in {"done", "error"})

\* A statement in between raises, which is only logged: before the harness (the
\* artifact of a screenshot) or after it (the row).
HalfNoted(kind) ==
  /\ harness' = IF kind = "block" THEN harness ELSE on_worker_event(harness, kind)
  /\ UNCHANGED <<row, completion_event>>

\* Nothing is done with it.
Dropped(e) ==
  /\ excused' = excused \cup {e.id}
  /\ UNCHANGED <<strayed, repeated, tidy, got, harness, row, completion_event>>

\* e may be read as an event of another kind if its block was cut.
_persist_worker_event(e, kind) ==
  \/ ~full /\ Stored(e) /\ Noted(kind) /\ UNCHANGED breaks
  \/ ~full /\ Stored(e) /\ HalfNoted(kind) /\ MayBreak /\ breaks' = breaks + 1
  \/ ~full /\ Dropped(e) /\ MayBreak /\ breaks' = breaks + 1
  \/ full /\ Dropped(e) /\ UNCHANGED breaks

\* An event that is stored is the last one: ready, ping and the events of the
\* orchestrator count as well, so it may be any.
LimitReached ==
  /\ ~full /\ full' = TRUE
  /\ UNCHANGED <<worker, link, turn, task, completion_event, harness, row, strayed, repeated,
                 lapsed, history>>

\* A block that was cut is still in the buffer when the new stream says ready:
\* the two are parsed as one.  Its id is that of the event, or, if the cut is in
\* the id line, there is no event in it, and no id or one the worker ignores.
DeliverTorn ==
  /\ proxy = "connected" /\ torn # NoEvent /\ torn' = NoEvent
  /\ \/ /\ \E kind \in {torn.event, "other"} : _persist_worker_event(torn, kind)
        /\ lastId' = torn.id
     \/ /\ lastId' \in {0, lastId}
        /\ UNCHANGED <<harness, row, completion_event, strayed, repeated, tidy, got, excused,
                       breaks>>
  /\ UNCHANGED <<worker, stream, stale, wire, proxy, retries, turn, task, full, lapsed,
                 replayed>>

Deliver ==
  /\ proxy = "connected" /\ torn = NoEvent /\ wire # <<>>
  /\ _persist_worker_event(Head(wire), Head(wire).event)
  /\ lastId' = Head(wire).id /\ wire' = Tail(wire)
  /\ UNCHANGED <<worker, stream, stale, torn, proxy, retries, turn, task, full, lapsed,
                 replayed>>

\* Without Last-Event-ID only what is still queued can come.
Connect ==
  /\ proxy = "connecting"
  /\ proxy' = "connected" /\ retries' = 0
  /\ stream' = NewStream(lastId)
  /\ replayed' = (replayed \/ lastId # 0)
  /\ excused' = IF lastId = 0 THEN excused \cup (Emitted \ (Ids(queue) \cup got))
                ELSE excused
  /\ UNCHANGED <<worker, stale, wire, torn, lastId, breaks, message, got, tidy>>

\* The connection is gone: what was under way is lost, the last block perhaps
\* only in part, and the stream at the worker has to find out.
Lose ==
  /\ torn' \in {torn} \cup (IF wire # <<>> /\ torn = NoEvent THEN {Head(wire)} ELSE {})
  /\ wire' = <<>> /\ stream' = NoStream
  /\ stale' = stale + 1

\* Both except clauses: another attempt, or the end of the proxy, which
\* persists an error of its own, if it can.
Retry ==
  IF retries + 1 > SSE_RETRY_LIMIT
  THEN /\ proxy' = "none" /\ UNCHANGED retries
       /\ \/ ~full /\ lapsed' = TRUE /\ (Noted("error") \/ HalfNoted("error"))
          \/ UNCHANGED <<lapsed, harness, row, completion_event>>
  ELSE /\ proxy' = "connecting" /\ retries' = retries + 1
       /\ UNCHANGED <<lapsed, harness, row, completion_event>>

Break ==
  /\ proxy = "connected" /\ MayBreak
  /\ breaks' = breaks + 1 /\ Lose /\ Retry
  /\ UNCHANGED <<worker, lastId, turn, task, full, strayed, repeated, history>>

ConnectFails ==
  /\ proxy = "connecting" /\ MayBreak
  /\ breaks' = breaks + 1 /\ Retry
  /\ UNCHANGED <<worker, stream, stale, wire, torn, lastId, turn, task, full, strayed,
                 repeated, history>>

\* The worker ended the stream after a replay.
StreamEnds ==
  /\ proxy = "connected" /\ stream.mode = "ended" /\ wire = <<>> /\ torn = NoEvent
  /\ stream' = NoStream /\ Retry
  /\ UNCHANGED <<worker, stale, wire, torn, lastId, breaks, turn, task, full, strayed,
                 repeated, history>>

\* GET /sessions/{id}/events.  The console sends no Last-Event-ID, other
\* clients the last one they were given.
ClientComes ==
  /\ proxy = "none" /\ proxy' = "connecting" /\ retries' = 0 /\ torn' = NoEvent
  /\ lastId' \in {0, lastId}
  /\ UNCHANGED <<worker, stream, stale, wire, breaks, message, history>>

\* The client closes its stream, which cancels the proxy.
ClientLeaves ==
  /\ proxy # "none" /\ MayBreak
  /\ breaks' = breaks + 1 /\ proxy' = "none" /\ torn' = NoEvent
  /\ wire' = <<>> /\ stream' = NoStream
  /\ stale' = stale + (IF proxy = "connected" THEN 1 ELSE 0)
  /\ UNCHANGED <<worker, lastId, retries, message, history>>

-----------------------------------------------------------------------------
(* The message and its task in the orchestrator. *)

\* mutant: the completion event of the last message is not cleared
PostUncleared ==
  /\ task = "none" /\ MayPost
  /\ turn' = turn + 1 /\ task' = "posting" /\ row' = "running"
  /\ harness' = create /\ UNCHANGED completion_event
  /\ strayed' = FALSE /\ repeated' = FALSE /\ lapsed' = FALSE
  /\ UNCHANGED <<worker, link, full, history>>
\* Every message gets a harness of its own.
Post ==
  /\ task = "none" /\ MayPost
  /\ turn' = turn + 1 /\ task' = "posting" /\ row' = "running"
  /\ harness' = create /\ completion_event' = FALSE
  /\ strayed' = FALSE /\ repeated' = FALSE /\ lapsed' = FALSE
  /\ UNCHANGED <<worker, link, full, history>>

TaskWakes ==
  /\ task = "waiting" /\ completion_event /\ task' = "none"
  /\ UNCHANGED <<worker, link, turn, completion_event, harness, row, full, strayed,
                 repeated, lapsed, history>>

\* mutant: the poll looks out for a failed worker only
PollForError ==
  /\ task = "waiting" /\ ~completion_event /\ run = "off"
  /\ status = "error" /\ row' = "failed" /\ task' = "none"
  /\ UNCHANGED <<worker, link, turn, completion_event, harness, full, strayed, repeated,
                 lapsed, history>>
\* WORKER_STATUS_POLL_SECONDS passed and the worker is no longer busy.
PollFinds ==
  /\ task = "waiting" /\ ~completion_event /\ run = "off"
  /\ row' = (IF status = "error" THEN "failed" ELSE "completed") /\ task' = "none"
  /\ UNCHANGED <<worker, link, turn, completion_event, harness, full, strayed, repeated,
                 lapsed, history>>

-----------------------------------------------------------------------------
Next ==
  \/ Post \/ WorkerTakes \/ WorkerRefuses \/ RunStep
  \/ Replay \/ Live \/ StaleTakes \/ StaleEnds
  \/ Connect \/ ConnectFails \/ Deliver \/ DeliverTorn \/ LimitReached
  \/ Break \/ StreamEnds \/ ClientComes \/ ClientLeaves
  \/ TaskWakes \/ PollFinds

Spec == Init /\ [][Next]_vars

\* The worker's turns end (its tools have timeouts), the coroutines of stream
\* and proxy run, and so does the task of the message.  Messages, clients,
\* failures and the limit are free; a stream without a client may stay.
FairSpec ==
  /\ Spec
  /\ WF_vars(WorkerTakes \/ WorkerRefuses \/ RunStep)
  /\ WF_vars(Replay \/ Live \/ Connect \/ Deliver \/ DeliverTorn \/ StreamEnds)
  /\ WF_vars(TaskWakes \/ PollFinds)

-----------------------------------------------------------------------------
(* Properties. *)

\* A replay that has ended leaves the rest to the next one, which starts after
\* the last id on the wire.
NextReplayFrom == IF wire = <<>> THEN lastId ELSE Last(wire).id
ToBeReplayed(id) ==
  /\ proxy = "connecting" \/ stream.mode = "ended"
  /\ id \in Ids(event_log) /\ id > NextReplayFrom
OnItsWay(id) ==
  id \in Ids(queue) \cup Ids(wire) \cup Ids(stream.rest) \/ ToBeReplayed(id)

(* An event the proxy has not handled yet is still going to reach it: queued,   *)
(* sent, being replayed, or in the log beyond the Last-Event-ID of the next      *)
(* attempt; and what it handles is persisted.  Excused are events dropped at     *)
(* the event limit or by a failed write, events cut from the log, events lost    *)
(* before a first id was known, and events a stream without a client took from   *)
(* one that had begun (_event_stream, sse_events and _persist_worker_event:      *)
(* replay and queue together lose nothing else).                                *)
NothingSkipped ==
  proxy = "connected" \/ (proxy = "connecting" /\ lastId > 0) =>
    \A id \in Emitted \ (got \cup excused) : OnItsWay(id)

(* As long as no stream was resumed with a Last-Event-ID, events are persisted   *)
(* in the order they were emitted in and none twice, whatever connections break  *)
(* and whichever clients come and go (the queue of worker_api.py).               *)
InOrderUntilReplay == ~replayed => tidy

(* A message whose task has ended, which the orchestrator never lost touch with *)
(* and which no event of an earlier message reached, has ended in the worker,   *)
(* and its row says what the worker's status says (_run_worker_message and      *)
(* _persist_worker_event, by event or by poll).                                 *)
OutcomeIsRight ==
  turn > 0 /\ task = "none" /\ ~strayed /\ ~lapsed =>
    run = "off" /\ row = (IF status = "done" THEN "completed" ELSE "failed")

(* If every event reached the harness of its own message and none twice, a trace *)
(* that says completed has passed its gates, although blocks are observed after  *)
(* done, and its row is not failed (SessionHarness.on_worker_event).             *)
CompletedTraceIsJudged ==
  harness.final = "completed" /\ ~strayed /\ ~repeated /\ ~lapsed =>
    harness.gates = "passed" /\ row # "failed"

(* Again and again everything emitted so far is persisted, unless it is excused  *)
(* as in NothingSkipped, by the event limit too, or the client is gone (the     *)
(* retry loop of sse_events makes progress through every replay; turns being    *)
(* bounded, each event arrives).                                                *)
EventsArrive == []<>(Emitted \subseteq got \cup excused \/ proxy = "none")

(* The task of a message ends, with or without a client that follows the events *)
(* (_run_worker_message polls the status as well).                              *)
TurnEnds == task # "none" ~> task = "none"

=============================================================================
