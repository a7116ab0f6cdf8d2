------------------------- MODULE BashSession_proofs -------------------------
(* Proofs about the bash tool, for any programs, limits and number of calls. *)
(* Tools_proofs puts them together with those about the edit tool.           *)
EXTENDS BashSession, FiniteSetTheorems, TLAPS

-----------------------------------------------------------------------------
(* The inductive invariant. *)

\* What is on its way from the shell to the tool.
Stream == buf["out"] \o pipe["out"]

\* Nothing that a later command could take for its own.
Idle == stdin = <<>> /\ todo = <<>> /\ Stream = <<>>

\* The shell has yet to read the command that is waited for.
Unread == stdin = <<waiting>> /\ todo = <<>> /\ Stream = <<>>

\* The shell is at this command, or done with it: what is on its way is the
\* command's, and together with what the shell has yet to write it is all of it.
Ended == todo = <<>> /\ program[waiting].ending = "returns"
AllSent ==
  /\ Len(Stream) = Outs(program[waiting].writes) + 1
  /\ \A i \in 1 .. Len(Stream) : Stream[i].what = "sentinel" <=> i = Len(Stream)
PartSent ==
  /\ Len(Stream) + Outs(todo) = Outs(program[waiting].writes)
  /\ \A i \in 1 .. Len(Stream) : Stream[i].what # "sentinel"
AtIt ==
  /\ stdin = <<>> /\ (todo # <<>> => busy = waiting)
  /\ \A i \in 1 .. Len(Stream) : Stream[i].cmd = waiting
  /\ todo # <<>> /\ program[waiting].ending = "returns" => todo[Len(todo)] = "sentinel"
  /\ (Ended => AllSent) /\ (~Ended => PartSent)

OwnInv ==
  /\ child => messy
  /\ ~messy /\ waiting = 0 /\ session # "timed_out" => Idle
  /\ ~messy /\ waiting > 0 => Unread \/ AtIt

Typed ==
  /\ calls \in 0 .. MaxCalls /\ session \in {"none", "started", "timed_out"}
  /\ waiting \in 0 .. calls /\ busy \in 0 .. calls /\ (waiting > 0 => session = "started")
  /\ stdin \in Seq(1 .. calls) /\ alive \in BOOLEAN /\ child \in BOOLEAN
  /\ others \in BOOLEAN
  /\ todo \in Seq({"out", "err", "sentinel"})
  /\ pipe \in [Reader -> Seq(Piece)] /\ buf \in [Reader -> Seq(Piece)]
  /\ paused \in [Reader -> BOOLEAN]
  /\ program \in Seq(Program \cup {Nothing}) /\ Len(program) = calls
  /\ result.kind \in {"none", "result", "timed_out", "exited", "restarted"}
  /\ messy \in BOOLEAN

\* A reader that goes on has room for one more piece.
RoomInv ==
  \A r \in Reader : /\ Len(pipe[r]) <= PipeCap /\ Len(buf[r]) <= Limit + 1
                    /\ ~paused[r] => Len(buf[r]) <= Limit

BashInv == Typed /\ RoomInv /\ OwnInv /\ OutputIsOwn

\* A call of another tool, as the bash tool sees it.
OtherCall ==
  /\ Called(Nothing) /\ result' = None
  /\ UNCHANGED <<session, waiting, shellVars, readerVars, messy>>

-----------------------------------------------------------------------------
(* Sequences of pieces. *)

Kind == {"out", "err", "sentinel"}

LEMMA OutsOfTail ==
  ASSUME NEW s \in Seq(Kind), s # <<>>
  PROVE  /\ Outs(s) \in Nat /\ Outs(Tail(s)) \in Nat
         /\ Outs(s) = Outs(Tail(s)) + (IF Head(s) = "out" THEN 1 ELSE 0)
<1> DEFINE n == Len(s)
           S == {i \in DOMAIN s : s[i] = "out"}
           T == {i \in DOMAIN Tail(s) : Tail(s)[i] = "out"}
           U == {i \in 2 .. n : s[i] = "out"}
<1>1. n \in Nat /\ n > 0 /\ Len(Tail(s)) = n - 1 /\ Head(s) = s[1]
      /\ DOMAIN s = 1 .. n /\ DOMAIN Tail(s) = 1 .. (n - 1)
      /\ \A i \in 1 .. (n - 1) : Tail(s)[i] = s[i + 1]
  OBVIOUS
<1>2. IsFiniteSet(T) /\ IsFiniteSet(U)
  <2>1. IsFiniteSet(1 .. (n - 1)) /\ IsFiniteSet(2 .. n)
    BY <1>1, FS_Interval
  <2>2. T \in SUBSET (1 .. (n - 1)) /\ U \in SUBSET (2 .. n)
    BY <1>1
  <2> QED BY <2>1, <2>2, FS_Subset
<1>3. Cardinality(U) = Cardinality(T)
  <2> DEFINE f == [i \in T |-> i + 1]
  <2>1. f \in [T -> U]
    BY <1>1
  <2>2. \A i, j \in T : f[i] = f[j] => i = j
    BY <1>1
  <2>3. \A u \in U : \E i \in T : f[i] = u
    <3> SUFFICES ASSUME NEW u \in U PROVE \E i \in T : f[i] = u
      OBVIOUS
    <3>1. u - 1 \in T
      BY <1>1
    <3>2. f[u - 1] = u
      BY <1>1, <3>1
    <3> QED BY <3>1, <3>2
  <2> HIDE DEF f
  <2>4. f \in Bijection(T, U)
    <3>1. IsInjective(f)
      BY <2>1, <2>2 DEF IsInjective
    <3> QED BY <2>1, <2>3, <3>1 DEF Bijection, Injection, Surjection
  <2>5. ExistsBijection(T, U)
    BY <2>4 DEF ExistsBijection
  <2> QED BY <1>2, <2>5, FS_Bijection
<1>4. S = IF Head(s) = "out" THEN U \cup {1} ELSE U
  BY <1>1
<1>5. 1 \notin U
  BY <1>1
<1>6. Cardinality(S) = Cardinality(U) + (IF Head(s) = "out" THEN 1 ELSE 0)
  <2>1. CASE Head(s) = "out"
    <3>1. S = U \cup {1}
      BY <1>4, <2>1
    <3>2. Cardinality(U \cup {1}) = Cardinality(U) + 1
      BY <1>2, <1>5, FS_AddElement
    <3> QED BY <3>1, <3>2, <2>1
  <2>2. CASE Head(s) # "out"
    <3>1. S = U
      BY <1>4, <2>2
    <3>2. Cardinality(U) \in Nat
      BY <1>2, FS_CardinalityType
    <3> HIDE DEF S, U
    <3>3. Cardinality(S) = Cardinality(U) + 0
      BY <3>1, <3>2
    <3> QED BY <2>2, <3>3
  <2> HIDE DEF S, U
  <2> QED BY <2>1, <2>2
<1>7. Cardinality(T) \in Nat
  BY <1>2, FS_CardinalityType
<1>8. Outs(s) = Cardinality(S) /\ Outs(Tail(s)) = Cardinality(T)
  BY DEF Outs
<1> HIDE DEF S, T, U
<1> QED BY <1>3, <1>6, <1>7, <1>8

LEMMA OutsOfNone == Outs(<<>>) = 0
<1>1. {i \in DOMAIN <<>> : <<>>[i] = "out"} = {}
  OBVIOUS
<1> QED BY <1>1, FS_EmptySet DEF Outs

\* The echo is no output of the command.
LEMMA OutsOfEcho ==
  ASSUME NEW s \in Seq(Kind)
  PROVE  Outs(s \o <<"sentinel">>) = Outs(s) /\ Outs(s) \in Nat
<1> DEFINE e == s \o <<"sentinel">>
<1>1. e \in Seq(Kind) /\ Len(e) = Len(s) + 1 /\ Len(s) \in Nat
      /\ DOMAIN s = 1 .. Len(s) /\ DOMAIN e = 1 .. (Len(s) + 1)
      /\ e[Len(s) + 1] = "sentinel" /\ \A i \in 1 .. Len(s) : e[i] = s[i]
  BY DEF Kind
<1>2. {i \in DOMAIN e : e[i] = "out"} = {i \in DOMAIN s : s[i] = "out"}
  BY <1>1
<1>3. Outs(s) \in Nat
  <2>1. IsFiniteSet(1 .. Len(s))
    BY <1>1, FS_Interval
  <2>2. {i \in DOMAIN s : s[i] = "out"} \in SUBSET (1 .. Len(s))
    BY <1>1
  <2> QED BY <2>1, <2>2, FS_Subset, FS_CardinalityType DEF Outs
<1> QED BY <1>2, <1>3 DEF Outs

LEMMA LastOne ==
  ASSUME NEW s \in Seq(Kind), s # <<>>, Tail(s) = <<>>
  PROVE  Len(s) = 1
<1>1. Len(s) \in Nat /\ Len(s) > 0 /\ Len(Tail(s)) = Len(s) - 1
  OBVIOUS
<1>2. Len(<<>>) = 0
  OBVIOUS
<1>3. Len(Tail(s)) = 0
  BY <1>2, Zenon
<1>4. ASSUME NEW n \in Nat, NEW m \in Nat, n = m - 1, n = 0 PROVE m = 1
  BY <1>4
<1> QED BY <1>1, <1>3, <1>4, Zenon

\* A reader that takes a piece from its pipe leaves the two together as they are.
LEMMA FeedKeepsStream ==
  ASSUME NEW b \in Seq(Piece), NEW q \in Seq(Piece), q # <<>>
  PROVE  Append(b, Head(q)) \o Tail(q) = b \o q
<1>1. Len(b) \in Nat /\ Len(q) \in Nat /\ Len(q) > 0
  OBVIOUS
<1>2. /\ Append(b, Head(q)) \in Seq(Piece) /\ Tail(q) \in Seq(Piece)
      /\ Len(Append(b, Head(q))) = Len(b) + 1 /\ Len(Tail(q)) = Len(q) - 1
  BY <1>1
<1>3. Len(Append(b, Head(q)) \o Tail(q)) = Len(b \o q)
  BY <1>1, <1>2
<1>4. ASSUME NEW i \in 1 .. Len(b \o q)
      PROVE  (Append(b, Head(q)) \o Tail(q))[i] = (b \o q)[i]
  <2>1. CASE i \in 1 .. Len(b)
    BY <1>1, <1>2, <2>1
  <2>2. CASE i = Len(b) + 1
    BY <1>1, <1>2, <2>2
  <2>3. CASE i \in Len(b) + 2 .. Len(b) + Len(q)
    BY <1>1, <1>2, <2>3
  <2> QED BY <1>1, <1>4, <2>1, <2>2, <2>3
<1>5. Append(b, Head(q)) \o Tail(q) \in Seq(Piece) /\ b \o q \in Seq(Piece)
  BY <1>2
<1> QED BY <1>3, <1>4, <1>5

LEMMA WriteAddsToStream ==
  ASSUME NEW b \in Seq(Piece), NEW q \in Seq(Piece), NEW x \in Piece
  PROVE  /\ b \o Append(q, x) = Append(b \o q, x)
         /\ b \o q \in Seq(Piece)
OBVIOUS

\* All but the last piece.
LEMMA FrontFacts ==
  ASSUME NEW s \in Seq(Piece), Len(s) > 0
  PROVE  LET t == SubSeq(s, 1, Len(s) - 1)
         IN /\ DOMAIN t = 1 .. (Len(s) - 1) /\ Len(t) = Len(s) - 1
            /\ \A i \in 1 .. (Len(s) - 1) : t[i] = s[i]
<1> DEFINE n == Len(s) - 1
           t == SubSeq(s, 1, n)
<1>1. Len(s) \in Nat /\ n \in Nat /\ n <= Len(s) /\ n = Len(s) - 1
  OBVIOUS
<1> HIDE DEF n
<1>2. DOMAIN t = 1 .. n /\ Len(t) = n
  BY <1>1
<1>3. \A i \in 1 .. n : t[i] = s[i]
  BY <1>1
<1> QED BY <1>2, <1>3 DEF n

-----------------------------------------------------------------------------
(* What calls and programs are. *)

LEMMA Programs ==
  ASSUME NEW p \in Program \cup {Nothing}
  PROVE  /\ p.writes \in Seq(Kind)
         /\ p.ending \in {"returns", "hangs", "exits"} /\ p.leaves \in BOOLEAN
<1>1. CASE p = Nothing
  BY <1>1 DEF Nothing
<1>2. CASE p \in Program
  BY <1>2, BashAssumption DEF Kind
<1> QED BY <1>1, <1>2

LEMMA WiderSeq ==
  ASSUME NEW n \in Nat, NEW m \in Nat, n <= m, NEW s \in Seq(1 .. n)
  PROVE  s \in Seq(1 .. m)
OBVIOUS

LEMMA CalledFacts ==
  ASSUME Typed, NEW p \in Program \cup {Nothing}, Called(p)
  PROVE  /\ waiting = 0 /\ calls' = calls + 1 /\ calls' \in 0 .. MaxCalls
         /\ calls \in Nat /\ busy \in 0 .. calls' /\ stdin \in Seq(1 .. calls')
         /\ program' \in Seq(Program \cup {Nothing}) /\ Len(program') = calls'
<1>0. MaxCalls \in Nat
  BY BashAssumption
<1>1. /\ calls \in 0 .. MaxCalls /\ busy \in 0 .. calls /\ stdin \in Seq(1 .. calls)
      /\ program \in Seq(Program \cup {Nothing}) /\ Len(program) = calls
  BY DEF Typed
<1>2. waiting = 0 /\ calls < MaxCalls /\ calls' = calls + 1
  BY DEF Called, CanCall
<1>3. calls \in Nat /\ calls' \in 0 .. MaxCalls /\ busy \in 0 .. calls'
  BY <1>0, <1>1, <1>2
<1>4. stdin \in Seq(1 .. calls')
  BY <1>1, <1>2, <1>3, WiderSeq
<1> DEFINE kept == [i \in 1 .. calls |->
                     IF i = busy \/ i \in ToSet(stdin) THEN program[i] ELSE Nothing]
<1>5. kept \in Seq(Program \cup {Nothing}) /\ Len(kept) = calls
  <2>1. \A i \in 1 .. calls : program[i] \in Program \cup {Nothing}
    BY <1>1, <1>3
  <2>2. kept \in [1 .. calls -> Program \cup {Nothing}]
    BY <2>1
  <2> HIDE DEF kept
  <2> QED BY <1>3, <2>2
<1>6. program' = Append(kept, p)
  BY DEF Called
<1> HIDE DEF kept
<1>7. program' \in Seq(Program \cup {Nothing}) /\ Len(program') = calls'
  BY <1>2, <1>3, <1>5, <1>6
<1> QED BY <1>2, <1>3, <1>4, <1>7

\* The steps that leave the last result and the program of its command alone,
\* and do not make a shell clean again, keep the property of results.
LEMMA ResultKept ==
  ASSUME OutputIsOwn, UNCHANGED <<result, program>>, messy => messy'
  PROVE  OutputIsOwn'
BY DEF OutputIsOwn

\* The steps that leave everything that belongs to a command alone.
LEMMA OwnKept ==
  ASSUME OwnInv, UNCHANGED <<stdin, todo, busy, program, waiting, session, messy>>,
         Stream' = Stream, child' => child
  PROVE  OwnInv'
BY DEF OwnInv, Idle, Unread, AtIt, Ended, AllSent, PartSent

-----------------------------------------------------------------------------
(* Initially, and with a new shell or a new message. *)

LEMMA EmptyShell ==
  ASSUME NoShell
  PROVE  /\ stdin \in Seq(1 .. calls) /\ busy = 0 /\ alive \in BOOLEAN
         /\ todo \in Seq({"out", "err", "sentinel"})
         /\ pipe \in [Reader -> Seq(Piece)] /\ buf \in [Reader -> Seq(Piece)]
         /\ paused \in [Reader -> BOOLEAN] /\ messy = FALSE /\ child = FALSE
         /\ RoomInv /\ Idle
<1>1. Limit \in Nat /\ PipeCap \in Nat
  BY BashAssumption
<1>a. stdin = <<>> /\ todo = <<>> /\ busy = 0
  BY DEF NoShell
<1>b. messy = FALSE /\ child = FALSE /\ alive \in BOOLEAN
  BY DEF NoShell
<1>2. stdin \in Seq(1 .. calls) /\ todo \in Seq({"out", "err", "sentinel"})
  BY <1>a
<1>3. /\ pipe \in [Reader -> Seq(Piece)] /\ buf \in [Reader -> Seq(Piece)]
      /\ paused \in [Reader -> BOOLEAN]
  BY DEF NoShell
<1>4. \A r \in Reader : Len(pipe[r]) = 0 /\ Len(buf[r]) = 0
  BY DEF NoShell
<1>5. RoomInv
  BY <1>1, <1>4 DEF RoomInv
<1>6. Stream = <<>>
  BY DEF NoShell, Stream, Reader
<1> QED BY <1>a, <1>b, <1>2, <1>3, <1>5, <1>6 DEF Idle

LEMMA ShellIsEmpty ==
  ASSUME NEW lives \in BOOLEAN, Shell(lives)
  PROVE  /\ stdin' \in Seq(1 .. calls') /\ busy' = 0 /\ alive' \in BOOLEAN
         /\ todo' \in Seq({"out", "err", "sentinel"})
         /\ pipe' \in [Reader -> Seq(Piece)] /\ buf' \in [Reader -> Seq(Piece)]
         /\ paused' \in [Reader -> BOOLEAN] /\ messy' = FALSE /\ child' = FALSE
         /\ RoomInv' /\ Idle'
<1>1. Limit \in Nat /\ PipeCap \in Nat
  BY BashAssumption
<1>a. stdin' = <<>> /\ todo' = <<>> /\ busy' = 0
  BY DEF Shell
<1>b. messy' = FALSE /\ child' = FALSE /\ alive' \in BOOLEAN
  BY DEF Shell
<1>2. stdin' \in Seq(1 .. calls') /\ todo' \in Seq({"out", "err", "sentinel"})
  BY <1>a
<1>3. /\ pipe' \in [Reader -> Seq(Piece)] /\ buf' \in [Reader -> Seq(Piece)]
      /\ paused' \in [Reader -> BOOLEAN]
  BY DEF Shell
<1>4. \A r \in Reader : Len(pipe'[r]) = 0 /\ Len(buf'[r]) = 0
  BY DEF Shell
<1>5. RoomInv'
  BY <1>1, <1>4 DEF RoomInv
<1>6. Stream' = <<>>
  BY DEF Shell, Stream, Reader
<1> QED BY <1>a, <1>b, <1>2, <1>3, <1>5, <1>6 DEF Idle

LEMMA BashInitInv == BashInit => BashInv
<1> SUFFICES ASSUME BashInit PROVE BashInv
  OBVIOUS
<1>0. MaxCalls \in Nat
  BY BashAssumption
<1>1. /\ calls = 0 /\ session = "none" /\ waiting = 0 /\ others = FALSE
      /\ program = <<>> /\ result = None /\ NoShell
  BY DEF BashInit
<1>2. result.kind = "none"
  BY <1>1 DEF None
<1>3. program \in Seq(Program \cup {Nothing}) /\ Len(program) = calls
  BY <1>1
<1>4. Typed
  <2>1. calls \in 0 .. MaxCalls /\ waiting \in 0 .. calls /\ busy \in 0 .. calls /\ ~(waiting > 0)
    BY <1>0, <1>1, EmptyShell
  <2>2. session \in {"none", "started", "timed_out"} /\ others \in BOOLEAN
        /\ result.kind \in {"none", "result", "timed_out", "exited", "restarted"}
    BY <1>1, <1>2
  <2> QED BY <1>1, <1>3, <2>1, <2>2, EmptyShell DEF Typed
<1>5. OwnInv
  BY <1>1, EmptyShell DEF OwnInv
<1>6. OutputIsOwn
  BY <1>2 DEF OutputIsOwn
<1> QED BY <1>1, <1>4, <1>5, <1>6, EmptyShell DEF BashInv

-----------------------------------------------------------------------------
(* The types. *)

LEMMA TypedFacts ==
  ASSUME Typed, RoomInv
  PROVE  /\ Limit \in Nat /\ PipeCap \in Nat /\ MaxCalls \in Nat
         /\ calls \in Nat /\ calls <= MaxCalls /\ waiting \in Nat /\ waiting <= calls
         /\ busy \in Nat /\ busy <= calls
         /\ \A r \in Reader : /\ pipe[r] \in Seq(Piece) /\ buf[r] \in Seq(Piece)
                              /\ Len(pipe[r]) \in Nat /\ Len(buf[r]) \in Nat
                              /\ Len(pipe[r]) <= PipeCap /\ Len(buf[r]) <= Limit + 1
<1>1. Limit \in Nat /\ PipeCap \in Nat /\ MaxCalls \in Nat
  BY BashAssumption
<1>2. calls \in 0 .. MaxCalls /\ waiting \in 0 .. calls /\ busy \in 0 .. calls
  BY DEF Typed
<1>3. \A r \in Reader : pipe[r] \in Seq(Piece) /\ buf[r] \in Seq(Piece)
  BY DEF Typed
<1> QED BY <1>1, <1>2, <1>3 DEF RoomInv

\* A piece that goes to one pipe.
LEMMA OnePipe ==
  ASSUME Typed, RoomInv, NEW r \in Reader, NEW x \in Piece, Len(pipe[r]) < PipeCap,
         pipe' = [pipe EXCEPT ![r] = Append(@, x)], UNCHANGED <<buf, paused>>
  PROVE  /\ pipe' \in [Reader -> Seq(Piece)] /\ RoomInv'
         /\ Stream' = IF r = "out" THEN Append(Stream, x) ELSE Stream
<1>1. pipe \in [Reader -> Seq(Piece)] /\ pipe[r] \in Seq(Piece)
  BY DEF Typed
<1>2. Append(pipe[r], x) \in Seq(Piece) /\ Len(Append(pipe[r], x)) = Len(pipe[r]) + 1
  BY <1>1
<1>3. pipe' \in [Reader -> Seq(Piece)] /\ pipe'[r] = Append(pipe[r], x)
      /\ \A q \in Reader : q # r => pipe'[q] = pipe[q]
  BY <1>1, <1>2
<1>4. Len(pipe'[r]) <= PipeCap
  BY <1>2, <1>3, TypedFacts
<1>5. RoomInv'
  BY <1>3, <1>4 DEF RoomInv
<1>6. Stream' = IF r = "out" THEN Append(Stream, x) ELSE Stream
  <2>1. "out" \in Reader /\ buf["out"] \in Seq(Piece) /\ pipe["out"] \in Seq(Piece)
    BY DEF Reader, Typed
  <2>2. CASE r = "out"
    <3>1. Stream' = buf["out"] \o Append(pipe["out"], x)
      BY <1>3, <2>2 DEF Stream
    <3>2. buf["out"] \o Append(pipe["out"], x) = Append(buf["out"] \o pipe["out"], x)
      BY <2>1, WriteAddsToStream
    <3> QED BY <2>2, <3>1, <3>2 DEF Stream
  <2>3. CASE r # "out"
    BY <1>3, <2>1, <2>3 DEF Stream
  <2> QED BY <2>2, <2>3
<1> QED BY <1>3, <1>5, <1>6

LEMMA FeedFacts ==
  ASSUME Typed, RoomInv, NEW r \in Reader, Feed(r)
  PROVE  /\ pipe' \in [Reader -> Seq(Piece)] /\ buf' \in [Reader -> Seq(Piece)]
         /\ paused' \in [Reader -> BOOLEAN] /\ RoomInv' /\ Stream' = Stream
<1>1. /\ pipe \in [Reader -> Seq(Piece)] /\ buf \in [Reader -> Seq(Piece)]
      /\ paused \in [Reader -> BOOLEAN]
      /\ pipe[r] \in Seq(Piece) /\ buf[r] \in Seq(Piece) /\ pipe[r] # <<>>
  BY DEF Typed, Feed
<1>2. /\ Head(pipe[r]) \in Piece /\ Tail(pipe[r]) \in Seq(Piece)
      /\ Len(Tail(pipe[r])) = Len(pipe[r]) - 1
      /\ Append(buf[r], Head(pipe[r])) \in Seq(Piece)
      /\ Len(Append(buf[r], Head(pipe[r]))) = Len(buf[r]) + 1
  BY <1>1
<1>3. /\ buf' = [buf EXCEPT ![r] = Append(@, Head(pipe[r]))]
      /\ pipe' = [pipe EXCEPT ![r] = Tail(@)]
      /\ paused' = [paused EXCEPT ![r] = Len(buf[r]) + 1 > Limit]
      /\ ~paused[r]
  BY DEF Feed
<1>4. /\ pipe' \in [Reader -> Seq(Piece)] /\ pipe'[r] = Tail(pipe[r])
      /\ buf' \in [Reader -> Seq(Piece)] /\ buf'[r] = Append(buf[r], Head(pipe[r]))
      /\ \A q \in Reader : q # r => /\ pipe'[q] = pipe[q] /\ buf'[q] = buf[q]
                                   /\ paused'[q] = paused[q]
  BY <1>1, <1>2, <1>3
<1>5. paused' \in [Reader -> BOOLEAN] /\ paused'[r] = (Len(buf[r]) + 1 > Limit)
  BY <1>1, <1>3
<1>6. /\ Len(pipe'[r]) <= PipeCap /\ Len(buf'[r]) <= Limit + 1
      /\ ~paused'[r] => Len(buf'[r]) <= Limit
  <2>1. Len(buf[r]) <= Limit /\ Len(pipe[r]) <= PipeCap
    BY <1>3 DEF RoomInv
  <2>2. Len(pipe[r]) \in Nat /\ Len(buf[r]) \in Nat /\ Limit \in Nat /\ PipeCap \in Nat
    BY <1>1, BashAssumption
  <2>3. Len(pipe'[r]) = Len(pipe[r]) - 1 /\ Len(buf'[r]) = Len(buf[r]) + 1
    BY <1>2, <1>4
  <2>4. paused'[r] <=> Len(buf[r]) + 1 > Limit
    BY <1>5
  <2> QED BY <2>1, <2>2, <2>3, <2>4
<1>7. RoomInv'
  <2> SUFFICES ASSUME NEW q \in Reader
               PROVE  /\ Len(pipe'[q]) <= PipeCap /\ Len(buf'[q]) <= Limit + 1
                      /\ ~paused'[q] => Len(buf'[q]) <= Limit
    BY DEF RoomInv
  <2>1. CASE q = r
    BY <1>6, <2>1
  <2>2. CASE q # r
    BY <1>4, <2>2 DEF RoomInv
  <2> QED BY <2>1, <2>2
<1>8. Stream' = Stream
  <2>1. CASE r = "out"
    BY <1>1, <1>4, <2>1, FeedKeepsStream DEF Stream
  <2>2. CASE r # "out"
    BY <1>4, <2>2 DEF Stream, Reader
  <2> QED BY <2>1, <2>2
<1> QED BY <1>4, <1>5, <1>7, <1>8

-----------------------------------------------------------------------------
(* The shell. *)

\* Once the shell is at a command, all of its output is still to come.
LEMMA ReadsInv ==
  ASSUME BashInv, ShellReads
  PROVE  BashInv'
<1> DEFINE w == Head(stdin)
           p == program[w]
<1>1. /\ calls \in Nat /\ stdin \in Seq(1 .. calls) /\ stdin # <<>>
      /\ program \in Seq(Program \cup {Nothing}) /\ Len(program) = calls
  BY TypedFacts DEF BashInv, Typed, ShellReads
<1>2. w \in 1 .. calls /\ Tail(stdin) \in Seq(1 .. calls)
  BY <1>1
<1>3. p \in Program \cup {Nothing}
  BY <1>1, <1>2
<1>4. /\ p.writes \in Seq(Kind) /\ p.ending \in {"returns", "hangs", "exits"}
  BY <1>3, Programs
<1>5. /\ busy' = w /\ stdin' = Tail(stdin)
      /\ todo' = p.writes \o (IF p.ending = "returns" THEN <<"sentinel">> ELSE <<>>)
      /\ UNCHANGED <<alive, child, others, readerVars, callVars, messy>>
  BY DEF ShellReads
<1> HIDE DEF w, p
<1>6. todo' \in Seq(Kind)
  <2>1. <<"sentinel">> \in Seq(Kind) /\ <<>> \in Seq(Kind)
    BY DEF Kind
  <2> QED BY <1>4, <1>5, <2>1
<1>7. Typed'
  <2>1. busy' \in 0 .. calls /\ stdin' \in Seq(1 .. calls)
    BY <1>1, <1>2, <1>5
  <2> QED BY <1>5, <1>6, <2>1 DEF BashInv, Typed, readerVars, callVars, Kind
<1>8. RoomInv'
  BY <1>5 DEF BashInv, RoomInv, readerVars
<1>9. OutputIsOwn'
  BY <1>5, ResultKept DEF BashInv, callVars
<1>10. UNCHANGED <<waiting, session, program, messy, child>> /\ Stream' = Stream
  BY <1>5 DEF readerVars, callVars, Stream
<1>11. ASSUME ~messy', waiting' > 0 PROVE AtIt'
  <2>1. Unread
    BY <1>1, <1>10, <1>11 DEF BashInv, OwnInv, AtIt
  <2>2. w = waiting /\ stdin' = <<>> /\ Stream' = <<>>
    BY <1>1, <1>5, <1>10, <2>1 DEF Unread, w
  <2>3. program'[waiting'] = p /\ busy' = waiting' /\ Len(Stream') = 0
    BY <1>5, <1>10, <2>2 DEF p
  <2>4. CASE p.ending = "returns"
    <3>1. todo' = p.writes \o <<"sentinel">>
      BY <1>5, <2>4
    <3>2. todo' # <<>> /\ todo'[Len(todo')] = "sentinel"
      BY <1>4, <3>1
    <3>3. Outs(todo') = Outs(p.writes) /\ Outs(p.writes) \in Nat
      BY <1>4, <3>1, OutsOfEcho
    <3> QED BY <2>2, <2>3, <3>2, <3>3 DEF AtIt, Ended, PartSent
  <2>5. CASE p.ending # "returns"
    <3>1. todo' = p.writes /\ Outs(p.writes) \in Nat
      BY <1>4, <1>5, <2>5, OutsOfEcho
    <3> QED BY <2>2, <2>3, <2>5, <3>1 DEF AtIt, Ended, PartSent
  <2> QED BY <2>4, <2>5
<1>12. OwnInv'
  <2>1. ~messy /\ waiting = 0 /\ session # "timed_out" => FALSE
    BY <1>1 DEF BashInv, OwnInv, Idle
  <2> QED BY <1>10, <1>11, <2>1 DEF BashInv, OwnInv
<1> QED BY <1>7, <1>8, <1>9, <1>12 DEF BashInv

\* Every piece moves from what is to come to what is on its way, and the last
\* is the sentinel.
LEMMA WritesInv ==
  ASSUME BashInv, ShellWrites
  PROVE  BashInv'
<1> DEFINE k == Head(todo)
           r == Target(k)
           x == [cmd |-> busy, what |-> IF k = "sentinel" THEN "sentinel" ELSE "text"]
<1>1. todo \in Seq(Kind) /\ todo # <<>> /\ Len(todo) \in Nat /\ Len(todo) > 0
  BY DEF BashInv, Typed, ShellWrites, Kind
<1>2. /\ k \in Kind /\ Tail(todo) \in Seq(Kind) /\ Len(Tail(todo)) = Len(todo) - 1
      /\ k = todo[1]
  BY <1>1
<1>3. r \in Reader /\ (r = "out" <=> k # "err")
  BY <1>2 DEF Target, Reader
<1>4. x \in Piece
  <2>1. busy \in 0 .. MaxCalls
    BY TypedFacts DEF BashInv
  <2> QED BY <2>1 DEF Piece
<1>5. /\ Len(pipe[r]) < PipeCap /\ pipe' = [pipe EXCEPT ![r] = Append(@, x)]
      /\ todo' = Tail(todo)
      /\ UNCHANGED <<stdin, busy, alive, child, others, buf, paused, callVars>>
  BY DEF ShellWrites
<1>m. messy' = (messy \/ (k = "sentinel" /\ (Ending # "returns" \/ Len(todo) > 1)))
  BY DEF ShellWrites
<1> HIDE DEF k, r, x
<1>6. /\ pipe' \in [Reader -> Seq(Piece)] /\ RoomInv'
      /\ Stream' = IF r = "out" THEN Append(Stream, x) ELSE Stream
  BY <1>3, <1>4, <1>5, OnePipe DEF BashInv
<1>7. Typed'
  <2>1. messy' \in BOOLEAN
    BY <1>m DEF BashInv, Typed
  <2> QED BY <1>2, <1>5, <1>6, <2>1 DEF BashInv, Typed, callVars, Kind
<1>8. OutputIsOwn'
  BY <1>5, <1>m, ResultKept DEF BashInv, callVars
<1>9. UNCHANGED <<waiting, session, program, child, stdin, busy>>
  BY <1>5 DEF callVars
<1>10. ASSUME ~messy', waiting' > 0 PROVE AtIt'
  <2> DEFINE p == program[waiting]
  <2>1. AtIt
    BY <1>1, <1>9, <1>10, <1>m DEF BashInv, OwnInv, Unread
  <2>2. stdin = <<>> /\ busy = waiting /\ PartSent
        /\ (p.ending = "returns" => todo[Len(todo)] = "sentinel")
    BY <1>1, <2>1 DEF AtIt, Ended
  <2>3. k = "sentinel" => p.ending = "returns" /\ Len(todo) = 1
    <3>1. ~(k = "sentinel" /\ (Ending # "returns" \/ Len(todo) > 1))
      BY <1>10, <1>m
    <3>2. Ending = p.ending
      BY <2>2 DEF Ending
    <3>3. Len(todo) \in Nat /\ Len(todo) > 0
      BY <1>1
    <3>4. ASSUME k = "sentinel" PROVE p.ending = "returns" /\ Len(todo) = 1
      <4>1. p.ending = "returns" /\ ~(Len(todo) > 1)
        BY <3>1, <3>2, <3>4
      <4>2. Len(todo) = 1
        BY <3>3, <4>1
      <4> QED BY <4>1, <4>2
    <3> QED BY <3>4
  <2>4. /\ Outs(todo) \in Nat /\ Outs(todo') \in Nat
        /\ Outs(todo) = Outs(todo') + (IF k = "out" THEN 1 ELSE 0)
    BY <1>1, <1>5, OutsOfTail DEF k
  <2>5. Stream \in Seq(Piece) /\ Len(Stream) \in Nat
    <3>1. buf["out"] \in Seq(Piece) /\ pipe["out"] \in Seq(Piece)
      BY TypedFacts DEF BashInv, Reader
    <3>2. Stream \in Seq(Piece)
      BY <3>1 DEF Stream
    <3> QED BY <3>2
  <2>6. \A i \in 1 .. Len(Stream) : Stream[i].cmd = waiting /\ Stream[i].what # "sentinel"
    BY <2>1, <2>2 DEF AtIt, PartSent
  <2>7. Len(Stream) + Outs(todo) = Outs(p.writes)
    BY <2>2 DEF PartSent
  <2>8. program'[waiting'] = p /\ waiting' = waiting /\ stdin' = <<>> /\ busy' = waiting'
    BY <1>9, <2>2
  <2>9. todo' # <<>> /\ p.ending = "returns" => todo'[Len(todo')] = "sentinel"
    BY <1>1, <1>2, <1>5, <2>2
  <2>10. x.cmd = waiting /\ (x.what = "sentinel" <=> k = "sentinel")
    BY <2>2 DEF x
  <2>14. p.ending = "returns" => todo[Len(todo)] = "sentinel"
    BY <2>2
  <2>15. todo' = <<>> /\ p.ending = "returns" => k = "sentinel"
    <3> SUFFICES ASSUME todo' = <<>>, p.ending = "returns" PROVE k = "sentinel"
      OBVIOUS
    <3>1. Tail(todo) = <<>>
      BY <1>5
    <3>2. Len(todo) = 1
      BY <1>1, <3>1, LastOne
    <3> QED BY <1>2, <2>14, <3>2
  <2> HIDE DEF p
  <2>11. CASE k = "sentinel"
    <3>0. todo' = <<>>
      BY <1>1, <1>2, <1>5, <2>3, <2>11
    <3>1. todo' = <<>> /\ Outs(todo') = 0 /\ Outs(todo) = 0 /\ p.ending = "returns"
      BY <2>3, <2>4, <2>11, <3>0, OutsOfNone
    <3>2. Stream' = Append(Stream, x) /\ Len(Stream') = Len(Stream) + 1
      BY <1>3, <1>4, <1>6, <2>5, <2>11
    <3>3. Len(Stream') = Outs(p.writes) + 1
      BY <2>5, <2>7, <3>1, <3>2
    <3>4. ASSUME NEW i \in 1 .. Len(Stream')
          PROVE  Stream'[i].cmd = waiting /\ (Stream'[i].what = "sentinel" <=> i = Len(Stream'))
      <4>1. CASE i \in 1 .. Len(Stream)
        BY <2>5, <2>6, <3>2, <4>1
      <4>2. CASE i = Len(Stream')
        BY <2>5, <2>10, <2>11, <3>2, <4>2
      <4> QED BY <2>5, <3>2, <3>4, <4>1, <4>2
    <3> QED BY <2>8, <3>1, <3>3, <3>4 DEF AtIt, Ended, AllSent
  <2>12. CASE k = "out"
    <3>1. Stream' = Append(Stream, x) /\ Len(Stream') = Len(Stream) + 1
      BY <1>3, <1>4, <1>6, <2>5, <2>12
    <3>2. Len(Stream') + Outs(todo') = Outs(p.writes)
      BY <2>4, <2>5, <2>7, <2>12, <3>1
    <3>3. ASSUME NEW i \in 1 .. Len(Stream')
          PROVE  Stream'[i].cmd = waiting /\ Stream'[i].what # "sentinel"
      <4>1. CASE i \in 1 .. Len(Stream)
        BY <2>5, <2>6, <3>1, <4>1
      <4>2. CASE i = Len(Stream')
        BY <2>5, <2>10, <2>12, <3>1, <4>2
      <4> QED BY <2>5, <3>1, <3>3, <4>1, <4>2
    <3>4. ~(todo' = <<>> /\ p.ending = "returns")
      BY <2>15, <2>12
    <3> QED BY <2>8, <2>9, <3>2, <3>3, <3>4 DEF AtIt, Ended, PartSent
  <2>13. CASE k = "err"
    <3>1. Stream' = Stream
      BY <1>3, <1>6, <2>13
    <3>2. Len(Stream') + Outs(todo') = Outs(p.writes)
      BY <2>4, <2>5, <2>7, <2>13, <3>1
    <3>3. ~(todo' = <<>> /\ p.ending = "returns")
      BY <2>15, <2>13
    <3> QED BY <2>6, <2>8, <2>9, <3>1, <3>2, <3>3 DEF AtIt, Ended, PartSent
  <2> QED BY <1>2, <2>11, <2>12, <2>13 DEF Kind
<1>11. OwnInv'
  <2>1. ~messy /\ waiting = 0 /\ session # "timed_out" => FALSE
    BY <1>1 DEF BashInv, OwnInv, Idle
  <2>2. child' => messy'
    BY <1>9, <1>m DEF BashInv, OwnInv
  <2> QED BY <1>9, <1>10, <1>m, <2>1, <2>2 DEF OwnInv
<1> QED BY <1>6, <1>7, <1>8, <1>11 DEF BashInv

\* A process in the background writes only where a command has left one.
LEMMA ShellInv ==
  ASSUME BashInv, ShellReturns \/ ChildWrites \/ OthersEnd \/ \E r \in Reader : Feed(r)
  PROVE  BashInv'
<1>1. CASE ShellReturns
  <2>1. /\ busy > 0 /\ todo = <<>> /\ busy' = 0 /\ alive' = (Ending # "exits")
        /\ child' = (child \/ program[busy].leaves)
        /\ messy' = (messy \/ program[busy].leaves)
        /\ UNCHANGED <<stdin, todo, others, readerVars, callVars>>
    BY <1>1 DEF ShellReturns
  <2>2. program[busy].leaves \in BOOLEAN
    <3>1. busy \in 1 .. Len(program) /\ program \in Seq(Program \cup {Nothing})
      BY <2>1, TypedFacts DEF BashInv, Typed
    <3>2. program[busy] \in Program \cup {Nothing}
      BY <3>1
    <3> QED BY <3>2, Programs
  <2>3. child' \in BOOLEAN /\ messy' \in BOOLEAN /\ alive' \in BOOLEAN
    BY <2>1, <2>2 DEF BashInv, Typed
  <2>4. (messy => messy') /\ (~messy' => ~messy /\ ~child')
    BY <2>1, <2>2 DEF BashInv, OwnInv
  <2>5. Typed'
    <3>1. busy' \in 0 .. calls'
      BY <2>1, TypedFacts DEF BashInv, callVars
    <3> QED BY <2>1, <2>3, <3>1 DEF BashInv, Typed, readerVars, callVars
  <2>6. RoomInv'
    BY <2>1 DEF BashInv, RoomInv, readerVars
  <2>7. OutputIsOwn'
    BY <2>1, <2>4, ResultKept DEF BashInv, callVars
  <2>8. UNCHANGED <<stdin, todo, waiting, session, program>> /\ Stream' = Stream
    BY <2>1 DEF readerVars, callVars, Stream
  <2>9. OwnInv'
    <3>1. AtIt => AtIt'
      BY <2>1, <2>8 DEF AtIt, Ended, AllSent, PartSent
    <3>2. (Unread => Unread') /\ (Idle => Idle')
      BY <2>8 DEF Unread, Idle
    <3> QED BY <2>4, <2>8, <3>1, <3>2 DEF BashInv, OwnInv
  <2> QED BY <2>5, <2>6, <2>7, <2>9 DEF BashInv
<1>2. CASE ChildWrites
  <2>1. PICK r \in Reader :
          /\ Len(pipe[r]) < PipeCap
          /\ pipe' = [pipe EXCEPT ![r] = Append(@, [cmd |-> 0, what |-> "text"])]
    BY <1>2 DEF ChildWrites
  <2>2. child /\ UNCHANGED <<shellVars, buf, paused, callVars, messy>>
    BY <1>2 DEF ChildWrites
  <2>3. [cmd |-> 0, what |-> "text"] \in Piece
    BY TypedFacts DEF BashInv, Piece
  <2>4. pipe' \in [Reader -> Seq(Piece)] /\ RoomInv'
    BY <2>1, <2>2, <2>3, OnePipe DEF BashInv
  <2>5. Typed'
    BY <2>2, <2>4 DEF BashInv, Typed, shellVars, callVars
  <2>6. messy'
    BY <2>2 DEF BashInv, OwnInv
  <2>7. OwnInv' /\ OutputIsOwn'
    BY <2>6 DEF OwnInv, OutputIsOwn
  <2> QED BY <2>4, <2>5, <2>7 DEF BashInv
<1>3. CASE OthersEnd
  <2>1. /\ others' = FALSE /\ child' = FALSE
        /\ UNCHANGED <<stdin, busy, todo, alive, readerVars, callVars, messy>>
    BY <1>3 DEF OthersEnd
  <2>2. Typed'
    BY <2>1 DEF BashInv, Typed, readerVars, callVars
  <2>3. RoomInv'
    BY <2>1 DEF BashInv, RoomInv, readerVars
  <2>4. OutputIsOwn'
    BY <2>1, ResultKept DEF BashInv, callVars
  <2>5. OwnInv'
    BY <2>1, OwnKept DEF BashInv, readerVars, callVars, Stream
  <2> QED BY <2>2, <2>3, <2>4, <2>5 DEF BashInv
<1>4. ASSUME NEW r \in Reader, Feed(r) PROVE BashInv'
  <2>1. UNCHANGED <<shellVars, callVars, messy>>
    BY <1>4 DEF Feed
  <2>2. /\ pipe' \in [Reader -> Seq(Piece)] /\ buf' \in [Reader -> Seq(Piece)]
        /\ paused' \in [Reader -> BOOLEAN] /\ RoomInv' /\ Stream' = Stream
    BY <1>4, FeedFacts DEF BashInv
  <2>3. Typed'
    BY <2>1, <2>2 DEF BashInv, Typed, shellVars, callVars
  <2>4. OutputIsOwn'
    BY <2>1, ResultKept DEF BashInv, callVars
  <2>5. OwnInv'
    BY <2>1, <2>2, OwnKept DEF BashInv, shellVars, callVars
  <2> QED BY <2>2, <2>3, <2>4, <2>5 DEF BashInv
<1> QED BY <1>1, <1>2, <1>3, <1>4

-----------------------------------------------------------------------------
(* The calls. *)

\* No step but Returns gives a result with output.
LEMMA NoOutput ==
  ASSUME result'.kind # "result"
  PROVE  OutputIsOwn'
BY DEF OutputIsOwn

LEMMA Results ==
  ASSUME NEW n, NEW k \in {"none", "timed_out", "exited", "restarted"}
  PROVE  /\ None.kind = "none" /\ [None EXCEPT !.cmd = n, !.kind = k].kind = k
         /\ k # "result" /\ k \in {"none", "result", "timed_out", "exited", "restarted"}
BY DEF None

LEMMA RestartInv ==
  ASSUME BashInv, Restart
  PROVE  BashInv'
<1>1. /\ Called(Nothing) /\ Shell(TRUE) /\ session' = "started" /\ UNCHANGED waiting
      /\ result' = [None EXCEPT !.cmd = calls + 1, !.kind = "restarted"]
      /\ others' = (others \/ child \/ (alive /\ busy > 0))
  BY DEF Restart
<1>2. others' \in BOOLEAN /\ result'.kind = "restarted"
  BY <1>1, Results DEF BashInv, Typed
<1>3. /\ waiting = 0 /\ calls' \in 0 .. MaxCalls /\ calls' = calls + 1 /\ calls \in Nat
      /\ program' \in Seq(Program \cup {Nothing}) /\ Len(program') = calls'
  BY <1>1, CalledFacts DEF BashInv
<1>4. waiting' \in 0 .. calls' /\ ~(waiting' > 0)
  BY <1>1, <1>3
<1>s. /\ stdin' \in Seq(1 .. calls') /\ busy' = 0 /\ alive' \in BOOLEAN
      /\ todo' \in Seq({"out", "err", "sentinel"})
      /\ pipe' \in [Reader -> Seq(Piece)] /\ buf' \in [Reader -> Seq(Piece)]
      /\ paused' \in [Reader -> BOOLEAN] /\ messy' = FALSE /\ child' = FALSE
      /\ RoomInv' /\ Idle'
  BY <1>1, ShellIsEmpty
<1>5. busy' \in 0 .. calls'
  BY <1>3, <1>s
<1>6. Typed'
  BY <1>1, <1>2, <1>3, <1>4, <1>5, <1>s DEF Typed
<1>7. OwnInv'
  BY <1>4, <1>s DEF OwnInv
<1> QED BY <1>2, <1>6, <1>7, <1>s, NoOutput DEF BashInv

\* What is sent is the next thing the shell reads.
LEMMA SendInv ==
  ASSUME BashInv, NEW p \in Program, FirstCommand(p) \/ Send(p)
  PROVE  BashInv'
<1>1. /\ Called(p) /\ session' = "started" /\ waiting' = calls + 1 /\ result' = None
      /\ stdin' = <<calls + 1>> \/ stdin' = Append(stdin, calls + 1)
      /\ UNCHANGED <<busy, todo, child, others, readerVars, messy>>
      /\ session \in {"none", "started"}
  BY DEF FirstCommand, Send
<1>a. alive' \in BOOLEAN
  BY DEF FirstCommand, Send, BashInv, Typed
<1>2. /\ waiting = 0 /\ calls' = calls + 1 /\ calls' \in 0 .. MaxCalls /\ calls \in Nat
      /\ busy \in 0 .. calls' /\ stdin \in Seq(1 .. calls')
      /\ program' \in Seq(Program \cup {Nothing}) /\ Len(program') = calls'
  BY <1>1, CalledFacts DEF BashInv
<1>3. stdin' \in Seq(1 .. calls')
  <2>1. calls + 1 \in 1 .. calls'
    BY <1>2
  <2>2. <<calls + 1>> \in Seq(1 .. calls') /\ Append(stdin, calls + 1) \in Seq(1 .. calls')
    BY <1>2, <2>1
  <2> QED BY <1>1, <2>2
<1>4. waiting' \in 0 .. calls' /\ waiting' > 0 /\ result'.kind = "none"
  BY <1>1, <1>2, Results
<1>5. Typed'
  BY <1>1, <1>a, <1>2, <1>3, <1>4 DEF BashInv, Typed, readerVars
<1>6. RoomInv'
  BY <1>1 DEF BashInv, RoomInv, readerVars
<1>7. ASSUME ~messy' PROVE Unread'
  <2>1. Idle
    BY <1>1, <1>2, <1>7 DEF BashInv, OwnInv
  <2>2. stdin' = <<calls + 1>>
    BY <1>1, <2>1 DEF Idle
  <2> QED BY <1>1, <2>1, <2>2 DEF Unread, Idle, Stream, readerVars
<1>8. OwnInv'
  BY <1>1, <1>4, <1>7 DEF BashInv, OwnInv
<1> QED BY <1>4, <1>5, <1>6, <1>8, NoOutput DEF BashInv

\* A call that the shell does not see: a refused one, or one of another tool.
LEMMA AsideInv ==
  ASSUME BashInv, Refuse \/ OtherCall
  PROVE  BashInv'
<1>1. Called(Nothing) /\ UNCHANGED <<session, waiting, shellVars, readerVars, messy>>
  BY DEF Refuse, OtherCall
<1>2. /\ result'.kind # "result"
      /\ result'.kind \in {"none", "result", "timed_out", "exited", "restarted"}
  BY Results DEF Refuse, OtherCall
<1>3. /\ waiting = 0 /\ calls' = calls + 1 /\ calls' \in 0 .. MaxCalls /\ calls \in Nat
      /\ busy \in 0 .. calls' /\ stdin \in Seq(1 .. calls')
      /\ program' \in Seq(Program \cup {Nothing}) /\ Len(program') = calls'
  BY <1>1, CalledFacts DEF BashInv
<1>4. waiting' \in 0 .. calls' /\ ~(waiting' > 0)
  BY <1>1, <1>3
<1>5. Typed'
  BY <1>1, <1>2, <1>3, <1>4 DEF BashInv, Typed, shellVars, readerVars
<1>6. RoomInv'
  BY <1>1 DEF BashInv, RoomInv, readerVars
<1>7. OwnInv'
  BY <1>1, <1>4 DEF BashInv, OwnInv, Idle, Stream, shellVars, readerVars
<1> QED BY <1>2, <1>5, <1>6, <1>7, NoOutput DEF BashInv

LEMMA NewTurnInv ==
  ASSUME BashInv, BashNewTurn
  PROVE  BashInv'
<1>1. /\ waiting = 0 /\ Shell(FALSE) /\ session' = "none" /\ result' = None
      /\ others' = (others \/ child \/ alive) /\ UNCHANGED <<calls, waiting, program>>
  BY DEF BashNewTurn
<1>2. others' \in BOOLEAN /\ result'.kind = "none"
  BY <1>1, Results DEF BashInv, Typed
<1>s. /\ stdin' \in Seq(1 .. calls') /\ busy' = 0 /\ alive' \in BOOLEAN
      /\ todo' \in Seq({"out", "err", "sentinel"})
      /\ pipe' \in [Reader -> Seq(Piece)] /\ buf' \in [Reader -> Seq(Piece)]
      /\ paused' \in [Reader -> BOOLEAN] /\ messy' = FALSE /\ child' = FALSE
      /\ RoomInv' /\ Idle'
  BY <1>1, ShellIsEmpty
<1>3. busy' \in 0 .. calls' /\ ~(waiting' > 0)
  BY <1>1, <1>s, TypedFacts DEF BashInv
<1>4. Typed'
  BY <1>1, <1>2, <1>3, <1>s DEF BashInv, Typed
<1>5. OwnInv'
  BY <1>3, <1>s DEF OwnInv
<1> QED BY <1>2, <1>4, <1>5, <1>s, NoOutput DEF BashInv

LEMMA TimesOutInv ==
  ASSUME BashInv, TimesOut
  PROVE  BashInv'
<1>1. /\ session' = "timed_out" /\ waiting' = 0
      /\ result' = [None EXCEPT !.cmd = waiting, !.kind = "timed_out"]
      /\ UNCHANGED <<calls, program, shellVars, readerVars, messy>>
  BY DEF TimesOut
<1>2. result'.kind = "timed_out"
  BY <1>1, Results
<1>3. waiting' \in 0 .. calls' /\ ~(waiting' > 0)
  BY <1>1, TypedFacts DEF BashInv
<1>4. Typed'
  BY <1>1, <1>2, <1>3 DEF BashInv, Typed, shellVars, readerVars
<1>5. RoomInv'
  BY <1>1 DEF BashInv, RoomInv, readerVars
<1>6. OwnInv'
  BY <1>1, <1>3 DEF BashInv, OwnInv, shellVars
<1> QED BY <1>2, <1>4, <1>5, <1>6, NoOutput DEF BashInv

-----------------------------------------------------------------------------
(* The result. *)

\* The output of a clean shell that holds a sentinel is the whole output of the
\* command that is waited for, with the sentinel at its end.
LEMMA SentinelIsLast ==
  ASSUME BashInv, ~messy, waiting > 0, HasSentinel(buf["out"])
  PROVE  /\ AtIt /\ todo = <<>> /\ pipe["out"] = <<>>
         /\ Len(buf["out"]) = Outs(program[waiting].writes) + 1
         /\ \A i \in 1 .. Len(buf["out"]) :
              /\ buf["out"][i].cmd = waiting
              /\ buf["out"][i].what = "sentinel" <=> i = Len(buf["out"])
<1> DEFINE b == buf["out"]
           q == pipe["out"]
<1>1. b \in Seq(Piece) /\ q \in Seq(Piece) /\ Stream = b \o q
  BY TypedFacts DEF BashInv, Stream, Reader
<1>2. PICK n \in 1 .. Len(b) : b[n].what = "sentinel"
  BY <1>1 DEF HasSentinel
<1>3. Unread \/ AtIt
  BY DEF BashInv, OwnInv
<1> HIDE DEF b, q
<1>4. /\ Len(b) \in Nat /\ Len(q) \in Nat /\ Len(Stream) = Len(b) + Len(q)
      /\ \A i \in 1 .. Len(b) : Stream[i] = b[i]
  BY <1>1
<1>5. n \in 1 .. Len(Stream) /\ Stream[n].what = "sentinel"
  BY <1>2, <1>4
<1>6. Stream # <<>>
  BY <1>5
<1>7. AtIt
  BY <1>3, <1>6 DEF Unread
<1>8. Ended /\ AllSent
  BY <1>5, <1>7 DEF AtIt, PartSent
<1>9. n = Len(Stream)
  BY <1>5, <1>8 DEF AllSent
<1>10. Len(q) = 0 /\ Len(Stream) = Len(b)
  BY <1>2, <1>4, <1>9
<1>11. q = <<>>
  BY <1>1, <1>10
<1>12. Len(b) = Outs(program[waiting].writes) + 1
  BY <1>8, <1>10 DEF AllSent
<1>13. \A i \in 1 .. Len(b) : b[i].cmd = waiting /\ (b[i].what = "sentinel" <=> i = Len(b))
  BY <1>4, <1>7, <1>8, <1>10 DEF AtIt, AllSent
<1>14. todo = <<>>
  BY <1>8 DEF Ended
<1> QED BY <1>7, <1>11, <1>12, <1>13, <1>14 DEF b, q

\* What is before the sentinel, where it is the last piece.
LEMMA BeforeLast ==
  ASSUME NEW s \in Seq(Piece), Len(s) > 0,
         \A i \in 1 .. Len(s) : s[i].what = "sentinel" <=> i = Len(s)
  PROVE  BeforeSentinel(s) = SubSeq(s, 1, Len(s) - 1)
<1> DEFINE I == {i \in 1 .. Len(s) : s[i].what = "sentinel"}
           n == SelectInSeq(s, LAMBDA x : x.what = "sentinel")
<1>1. Len(s) \in Nat
  OBVIOUS
<1>2. I = {Len(s)}
  BY <1>1
<1>3. n = IF I # {} THEN Min(I) ELSE 0
  BY DEF SelectInSeq
<1>4. Min({Len(s)}) = Len(s)
  BY <1>1 DEF Min
<1> HIDE DEF I
<1>5. n = Len(s)
  BY <1>2, <1>3, <1>4
<1> QED BY <1>5 DEF BeforeSentinel

\* The result is the command's, and nothing of it is left for the next.
LEMMA ReturnsInv ==
  ASSUME BashInv, Returns
  PROVE  BashInv'
<1> DEFINE b == buf["out"]
<1>1. /\ waiting > 0 /\ HasSentinel(b) /\ waiting' = 0
      /\ result' = [cmd |-> waiting, kind |-> "result",
                    out |-> BeforeSentinel(b), err |-> buf["err"]]
      /\ buf' = [r \in Reader |-> <<>>]
      /\ UNCHANGED <<calls, session, program, shellVars, pipe, paused, messy>>
  BY DEF Returns
<1>2. buf' \in [Reader -> Seq(Piece)] /\ \A r \in Reader : Len(buf'[r]) = 0
  BY <1>1
<1>3. Typed'
  <2>1. waiting' \in 0 .. calls' /\ ~(waiting' > 0)
    BY <1>1, TypedFacts DEF BashInv
  <2>2. result'.kind \in {"none", "result", "timed_out", "exited", "restarted"}
    BY <1>1
  <2> QED BY <1>1, <1>2, <2>1, <2>2 DEF BashInv, Typed, shellVars
<1>4. RoomInv'
  <2>1. \A r \in Reader : Len(pipe'[r]) <= PipeCap
    BY <1>1 DEF BashInv, RoomInv
  <2>2. \A r \in Reader : Len(buf'[r]) <= Limit + 1 /\ Len(buf'[r]) <= Limit
    BY <1>2, TypedFacts DEF BashInv
  <2> QED BY <2>1, <2>2 DEF RoomInv
<1>5. ASSUME ~messy'
      PROVE  /\ Idle'
             /\ \A i \in DOMAIN result'.out : result'.out[i].cmd = result'.cmd
             /\ Len(result'.out) = Outs(program'[result'.cmd].writes)
  <2>1. /\ AtIt /\ todo = <<>> /\ pipe["out"] = <<>>
        /\ Len(b) = Outs(program[waiting].writes) + 1
        /\ \A i \in 1 .. Len(b) : /\ b[i].cmd = waiting
                                  /\ b[i].what = "sentinel" <=> i = Len(b)
    BY <1>1, <1>5, SentinelIsLast
  <2>2. b \in Seq(Piece) /\ Len(b) \in Nat
    BY TypedFacts DEF BashInv, Reader
  <2>3. Outs(program[waiting].writes) \in Nat
    <3>1. waiting \in 1 .. Len(program) /\ program \in Seq(Program \cup {Nothing})
      BY <1>1, TypedFacts DEF BashInv, Typed
    <3>2. program[waiting] \in Program \cup {Nothing}
      BY <3>1
    <3> QED BY <3>2, Programs, OutsOfEcho
  <2>4. Idle'
    <3>1. stdin' = <<>> /\ todo' = <<>>
      BY <1>1, <2>1 DEF AtIt, shellVars
    <3>2. Stream' = <<>>
      BY <1>1, <2>1 DEF Stream, Reader
    <3> QED BY <3>1, <3>2 DEF Idle
  <2> HIDE DEF b
  <2>5. Len(b) > 0
    BY <2>1, <2>2, <2>3
  <2>6. BeforeSentinel(b) = SubSeq(b, 1, Len(b) - 1)
    BY <2>1, <2>2, <2>5, BeforeLast
  <2>7. /\ DOMAIN SubSeq(b, 1, Len(b) - 1) = 1 .. (Len(b) - 1)
        /\ Len(SubSeq(b, 1, Len(b) - 1)) = Len(b) - 1
        /\ \A i \in 1 .. (Len(b) - 1) : SubSeq(b, 1, Len(b) - 1)[i] = b[i]
    BY <2>2, <2>5, FrontFacts
  <2>8. result'.cmd = waiting /\ result'.out = SubSeq(b, 1, Len(b) - 1) /\ program' = program
    BY <1>1, <2>6
  <2>9. \A i \in DOMAIN result'.out : result'.out[i].cmd = result'.cmd
    BY <2>1, <2>2, <2>7, <2>8
  <2>10. Len(result'.out) = Outs(program'[result'.cmd].writes)
    BY <2>1, <2>2, <2>3, <2>7, <2>8
  <2> QED BY <2>4, <2>9, <2>10
<1>6. OwnInv'
  <2>1. child' => messy'
    BY <1>1 DEF BashInv, OwnInv, shellVars
  <2>2. ~(waiting' > 0)
    BY <1>1
  <2> QED BY <1>5, <2>1, <2>2 DEF OwnInv
<1>7. OutputIsOwn'
  BY <1>5 DEF OutputIsOwn
<1> QED BY <1>3, <1>4, <1>6, <1>7 DEF BashInv

-----------------------------------------------------------------------------
(* The invariant. *)

LEMMA BashStepInv ==
  ASSUME BashInv, BashNext \/ OtherCall \/ BashNewTurn \/ UNCHANGED bashVars
  PROVE  BashInv'
<1>1. CASE UNCHANGED bashVars
  <2>1. Typed'
    BY <1>1 DEF bashVars, BashInv, Typed
  <2>2. RoomInv'
    BY <1>1 DEF bashVars, BashInv, RoomInv
  <2>3. OwnInv' /\ OutputIsOwn'
    BY <1>1, OwnKept, ResultKept DEF bashVars, BashInv, Stream
  <2> QED BY <2>1, <2>2, <2>3 DEF BashInv
<1>2. CASE BashNext
  BY <1>2, ReadsInv, WritesInv, ShellInv, RestartInv, SendInv, AsideInv, ReturnsInv,
     TimesOutInv DEF BashNext
<1> QED BY <1>1, <1>2, AsideInv, NewTurnInv

\* The types that the runs check.
LEMMA BashTypes ==
  ASSUME BashInv
  PROVE  BashTypeOK
<1>1. /\ Limit \in Nat /\ PipeCap \in Nat /\ MaxCalls \in Nat
      /\ calls \in Nat /\ calls <= MaxCalls /\ waiting \in Nat /\ waiting <= calls
      /\ busy \in Nat /\ busy <= calls
  BY TypedFacts DEF BashInv
<1>2. calls \in 0 .. MaxCalls /\ waiting \in 0 .. MaxCalls /\ busy \in 0 .. MaxCalls
  BY <1>1
<1>3. stdin \in Seq(1 .. MaxCalls)
  BY <1>1, WiderSeq DEF BashInv, Typed
<1>4. \A r \in Reader : /\ pipe[r] \in Seq(Piece) /\ Len(pipe[r]) <= PipeCap
                        /\ buf[r] \in Seq(Piece) /\ Len(buf[r]) <= Limit + 1
  BY TypedFacts DEF BashInv
<1>5. {alive, child, others} \subseteq BOOLEAN
  BY DEF BashInv, Typed
<1> QED BY <1>2, <1>3, <1>4, <1>5 DEF BashInv, Typed, BashTypeOK
=============================================================================
