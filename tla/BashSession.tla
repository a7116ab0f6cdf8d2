---------------------------- MODULE BashSession ----------------------------
(***************************************************************************)
(* The bash tool (tools/bash.py).  A command is written to the standard    *)
(* input of a shell with an echo of a sentinel after it, and the buffers   *)
(* of the two asyncio readers are looked at until the sentinel is in that  *)
(* of standard output.  The shell, the two pipes and the readers that fill *)
(* the buffers run by themselves; a reader stops when its buffer is over   *)
(* its limit.  Output is counted in pieces.                                *)
(***************************************************************************)
EXTENDS Naturals, Sequences, FiniteSets, SequencesExt

CONSTANTS
  Program,         \* what commands do: [writes, ending, leaves]
  Limit,           \* pieces over which a reader pauses (twice its limit)
  PipeCap,         \* pieces a pipe holds
  MaxCalls         \* bound: calls of tools

ASSUME BashAssumption ==
  /\ Limit \in Nat /\ PipeCap \in Nat \ {0} /\ MaxCalls \in Nat
  /\ \A p \in Program :
       /\ p.writes \in Seq({"out", "err", "sentinel"})
       /\ p.ending \in {"returns", "hangs", "exits"} /\ p.leaves \in BOOLEAN

VARIABLES
  calls,           \* calls so far; a command is named by its call
  session,         \* _session and its _timed_out
  waiting,         \* the command that run waits for, or 0
  stdin, busy, todo, alive,   \* the shell: input, command it is at, what that
                   \* has yet to write, whether the process lives
  child,           \* a process in the background that has the pipes of the shell
  others,          \* there are processes of shells that have no session any more
  pipe, buf, paused,   \* of the readers "out" and "err"
  program,         \* history: the programs of the commands
  result,          \* the last result of the tool
  messy            \* history: a command of this shell printed the sentinel
                   \* itself or left a process that has its pipes
bashVars == <<calls, session, waiting, stdin, busy, todo, alive, child, others, pipe, buf,
              paused, program, result, messy>>

Reader == {"out", "err"}
\* Pieces of a child in the background have number 0.
Piece  == [cmd : 0 .. MaxCalls, what : {"text", "sentinel"}]
None   == [cmd |-> 0, kind |-> "none", out |-> <<>>, err |-> <<>>]
Nothing == [writes |-> <<>>, ending |-> "returns", leaves |-> FALSE]

(* BashSession!TypeOK: what the variables hold; nothing is read into a buffer *)
(* that is over its limit.                                                    *)
BashTypeOK ==
  /\ calls \in 0 .. MaxCalls /\ session \in {"none", "started", "timed_out"}
  /\ waiting \in 0 .. MaxCalls /\ busy \in 0 .. MaxCalls
  /\ stdin \in Seq(1 .. MaxCalls) /\ {alive, child, others} \subseteq BOOLEAN
  /\ todo \in Seq({"out", "err", "sentinel"})
  /\ \A r \in Reader : /\ pipe[r] \in Seq(Piece) /\ Len(pipe[r]) <= PipeCap
                       /\ buf[r] \in Seq(Piece) /\ Len(buf[r]) <= Limit + 1
  /\ paused \in [Reader -> BOOLEAN]
  /\ program \in Seq(Program \cup {Nothing}) /\ Len(program) = calls
  /\ result.kind \in {"none", "result", "timed_out", "exited", "restarted"}
  /\ messy \in BOOLEAN

NoShell ==
  /\ stdin = <<>> /\ busy = 0 /\ todo = <<>> /\ alive = FALSE /\ child = FALSE
  /\ pipe = [r \in Reader |-> <<>>] /\ buf = [r \in Reader |-> <<>>]
  /\ paused = [r \in Reader |-> FALSE] /\ messy = FALSE

BashInit ==
  /\ calls = 0 /\ session = "none" /\ waiting = 0 /\ others = FALSE
  /\ program = <<>> /\ result = None /\ NoShell

-----------------------------------------------------------------------------
(* The shell and the readers. *)

shellVars  == <<stdin, busy, todo, alive, child, others>>
readerVars == <<pipe, buf, paused>>
callVars   == <<calls, session, waiting, program, result>>

Ending == program[busy].ending

\* The shell goes on to its next command once the last has returned.
ShellReads ==
  /\ alive /\ busy = 0 /\ stdin # <<>>
  /\ busy' = Head(stdin) /\ stdin' = Tail(stdin)
  /\ todo' = program[Head(stdin)].writes \o
             (IF program[Head(stdin)].ending = "returns" THEN <<"sentinel">> ELSE <<>>)
  /\ UNCHANGED <<alive, child, others, readerVars, callVars, messy>>

Target(w) == IF w = "err" THEN "err" ELSE "out"

\* The command, or the echo after it, writes a piece; a full pipe stops it.
ShellWrites ==
  /\ todo # <<>> /\ LET r == Target(Head(todo)) IN
       /\ Len(pipe[r]) < PipeCap
       /\ pipe' = [pipe EXCEPT ![r] = Append(@,
            [cmd |-> busy, what |-> IF Head(todo) = "sentinel" THEN "sentinel" ELSE "text"])]
  /\ todo' = Tail(todo)
  /\ messy' = (messy \/ (Head(todo) = "sentinel" /\ (Ending # "returns" \/ Len(todo) > 1)))
  /\ UNCHANGED <<stdin, busy, alive, child, others, buf, paused, callVars>>

\* The command is over: the shell is at its prompt, perhaps with a child in the
\* background, or has exited.  A command that hangs never gets here.
ShellReturns ==
  /\ alive /\ busy > 0 /\ todo = <<>> /\ Ending # "hangs"
  /\ busy' = 0 /\ alive' = (Ending # "exits")
  /\ child' = (child \/ program[busy].leaves)
  /\ messy' = (messy \/ program[busy].leaves)
  /\ UNCHANGED <<stdin, todo, others, readerVars, callVars>>

\* The process in the background writes, or all such processes have ended.
ChildWrites ==
  /\ child /\ \E r \in Reader :
       /\ Len(pipe[r]) < PipeCap
       /\ pipe' = [pipe EXCEPT ![r] = Append(@, [cmd |-> 0, what |-> "text"])]
  /\ UNCHANGED <<shellVars, buf, paused, callVars, messy>>
OthersEnd ==
  /\ (others \/ child) /\ others' = FALSE /\ child' = FALSE
  /\ UNCHANGED <<stdin, busy, todo, alive, readerVars, callVars, messy>>

\* feed_data: the reader pauses once its buffer is over the limit.
Feed(r) ==
  /\ ~paused[r] /\ pipe[r] # <<>>
  /\ buf' = [buf EXCEPT ![r] = Append(@, Head(pipe[r]))]
  /\ pipe' = [pipe EXCEPT ![r] = Tail(@)]
  /\ paused' = [paused EXCEPT ![r] = Len(buf[r]) + 1 > Limit]
  /\ UNCHANGED <<shellVars, callVars, messy>>

-----------------------------------------------------------------------------
(* The tool. *)

Shell(lives) ==
  /\ stdin' = <<>> /\ busy' = 0 /\ todo' = <<>> /\ alive' = lives /\ child' = FALSE
  /\ pipe' = [r \in Reader |-> <<>>] /\ buf' = [r \in Reader |-> <<>>]
  /\ paused' = [r \in Reader |-> FALSE] /\ messy' = FALSE

\* mutant: the loop does not await a tool
CallAnyTime == calls < MaxCalls
CanCall == waiting = 0 /\ calls < MaxCalls

\* Every call has a number, and p is what it does.  Of the calls before it only
\* those the shell has not done with are remembered.
Called(p) ==
  /\ CanCall /\ calls' = calls + 1
  /\ program' = Append([i \in 1 .. calls |->
       IF i = busy \/ i \in ToSet(stdin) THEN program[i] ELSE Nothing], p)

\* restart: the shell is terminated, but not what it is running, nor what it
\* has left in the background.
Restart ==
  /\ Called(Nothing) /\ Shell(TRUE)
  /\ session' = "started" /\ result' = [None EXCEPT !.cmd = calls + 1, !.kind = "restarted"]
  /\ others' = (others \/ child \/ (alive /\ busy > 0))
  /\ UNCHANGED waiting

\* The first command starts a shell.
FirstCommand(p) ==
  /\ session = "none" /\ Called(p)
  /\ session' = "started" /\ waiting' = calls + 1
  /\ stdin' = <<calls + 1>> /\ alive' = TRUE /\ result' = None
  /\ UNCHANGED <<busy, todo, child, others, readerVars, messy>>

Send(p) ==
  /\ session = "started" /\ alive /\ Called(p)
  /\ waiting' = calls + 1 /\ stdin' = Append(stdin, calls + 1)
  /\ result' = None
  /\ UNCHANGED <<session, busy, todo, alive, child, others, readerVars, messy>>

\* The shell has exited, or the session has timed out: an error either way.
Refuse ==
  /\ session # "none" /\ (~alive \/ session = "timed_out") /\ Called(Nothing)
  /\ result' = [None EXCEPT !.cmd = calls + 1, !.kind = IF alive THEN "timed_out" ELSE "exited"]
  /\ UNCHANGED <<session, waiting, shellVars, readerVars, messy>>

HasSentinel(s) == \E i \in DOMAIN s : s[i].what = "sentinel"
BeforeSentinel(s) == SubSeq(s, 1, SelectInSeq(s, LAMBDA x : x.what = "sentinel") - 1)

\* mutant: what comes with the sentinel is left for the next command
ReturnsUncleared ==
  /\ waiting > 0 /\ HasSentinel(buf["out"])
  /\ result' = [cmd |-> waiting, kind |-> "result",
                out |-> BeforeSentinel(buf["out"]), err |-> buf["err"]]
  /\ buf' = [buf EXCEPT !["err"] = <<>>]
  /\ waiting' = 0
  /\ UNCHANGED <<calls, session, program, shellVars, pipe, paused, messy>>
\* The sentinel is there: both buffers are taken and cleared, by hand, so that
\* a reader that has paused is not told to go on.
Returns ==
  /\ waiting > 0 /\ HasSentinel(buf["out"])
  /\ result' = [cmd |-> waiting, kind |-> "result",
                out |-> BeforeSentinel(buf["out"]), err |-> buf["err"]]
  /\ buf' = [r \in Reader |-> <<>>]
  /\ waiting' = 0
  /\ UNCHANGED <<calls, session, program, shellVars, pipe, paused, messy>>

\* _timeout has passed.
TimesOut ==
  /\ waiting > 0
  /\ session' = "timed_out" /\ waiting' = 0
  /\ result' = [None EXCEPT !.cmd = waiting, !.kind = "timed_out"]
  /\ UNCHANGED <<calls, program, shellVars, readerVars, messy>>

\* The message is over: the next has a ToolCollection of its own.  The old
\* shell is not stopped.
BashNewTurn ==
  /\ waiting = 0 /\ Shell(FALSE)
  /\ session' = "none" /\ result' = None
  /\ others' = (others \/ child \/ alive)
  /\ UNCHANGED <<calls, waiting, program>>

BashNext ==
  \/ ShellReads \/ ShellWrites \/ ShellReturns \/ ChildWrites \/ OthersEnd
  \/ (\E r \in Reader : Feed(r))
  \/ (\E p \in Program : FirstCommand(p) \/ Send(p)) \/ Restart \/ Refuse
  \/ Returns \/ TimesOut

-----------------------------------------------------------------------------
(* Properties. *)

Outs(writes) == Cardinality({i \in DOMAIN writes : writes[i] = "out"})

(* A result holds the standard output of its own command, all of it and nothing *)
(* else, unless a command of the shell printed the sentinel itself or left a    *)
(* process behind that writes (_BashSession.run).                               *)
OutputIsOwn ==
  result.kind = "result" /\ ~messy =>
    /\ \A i \in DOMAIN result.out : result.out[i].cmd = result.cmd
    /\ Len(result.out) = Outs(program[result.cmd].writes)

(* bash.py:97: "clear the buffers so that the next output can be read         *)
(* correctly": when a result is returned both readers go on reading.          *)
NextOutputCanBeRead ==
  result.kind = "result" /\ ~messy => paused = [r \in Reader |-> FALSE]

=============================================================================
