------------------------ MODULE WorkerEvents_proofs ------------------------
(* Proofs about WorkerEvents, for any limits and any number of messages,    *)
(* broken connections and events under way.                                 *)
EXTENDS WorkerEvents, WellFoundedInduction, TLAPS

-----------------------------------------------------------------------------
(* The inductive invariant. *)

StreamRec == [mode : {"off", "replay", "live", "ended"},
              rest : Seq(EventRec), shared : BOOLEAN]
Typed ==
  /\ turn \in 0 .. MaxTurns /\ serving \in 0 .. MaxTurns
  /\ run \in {"off", "started", "tool"} /\ status \in {"idle", "running", "done", "error"}
  /\ next_event_id \in Nat \ {0}
  /\ event_log \in Seq(EventRec) /\ queue \in Seq(EventRec) /\ wire \in Seq(EventRec)
  /\ stream \in StreamRec
  /\ stale \in Nat /\ breaks \in 0 .. MaxBreaks /\ torn \in EventRec \cup {NoEvent}
  /\ proxy \in {"none", "connecting", "connected"}
  /\ lastId \in Nat /\ retries \in 0 .. SSE_RETRY_LIMIT
  /\ task \in {"none", "posting", "waiting"} /\ completion_event \in BOOLEAN
  /\ harness \in Harness /\ row \in {"ready", "running", "completed", "failed"}
  /\ full \in BOOLEAN /\ tidy \in BOOLEAN /\ replayed \in BOOLEAN
  /\ strayed \in BOOLEAN /\ repeated \in BOOLEAN /\ lapsed \in BOOLEAN

\* A message that is not taken yet has its five events left, a turn that has
\* begun four, one that uses a tool two.
DueOfRun == CASE run = "started" -> 4 [] run = "tool" -> 2 [] run = "off" -> 0
Due      == DueOfRun + (IF task = "posting" THEN 5 ELSE 0)

Budget ==
  /\ next_event_id - 1 + Due <= 5 * turn
  /\ stale <= breaks
  /\ Len(event_log) <= EVENT_LOG_MAX /\ Len(wire) <= WireCap

\* What is in the worker or under way.
Known == ToSet(event_log) \cup ToSet(queue) \cup ToSet(wire) \cup ToSet(stream.rest)
           \cup ({torn} \ {NoEvent})

Ascending(s)    == \A i, j \in 1 .. Len(s) : i < j => s[i].id < s[j].id
Before(s, r)    == \A a \in ToSet(s), b \in ToSet(r) : a.id < b.id

IdInv ==
  /\ \A e \in Known : e.id < next_event_id
  /\ lastId < next_event_id /\ got \subseteq Emitted /\ excused \subseteq Emitted
  /\ Ascending(event_log) /\ Ascending(queue) /\ Ascending(stream.rest)

LinkInv ==
  /\ proxy = "connected" <=> stream.mode # "off"
  /\ proxy # "connected" => wire = <<>>
  /\ stream.mode # "replay" => stream.rest = <<>>

\* Everything before an event m in s has a smaller id.
Timely(s, m) ==
  \A i \in 1 .. Len(s) : s[i].id > m => \E j \in 1 .. i - 1 : s[j].id = m

Missing == Emitted \ (got \cup excused)
InReplay(m) ==
  /\ stream.mode = "replay"
  /\ \/ m \in Ids(stream.rest)
     \/ ~stream.shared /\ m \in Ids(queue) /\ \A e \in ToSet(stream.rest) : e.id < m
Coming(m) ==
  \/ m \in Ids(wire) \/ InReplay(m) \/ stream.mode = "ended"
  \/ stream.mode = "live" /\ m \in Ids(queue)
MissingInv ==
  /\ Missing \subseteq Ids(event_log)
  /\ \A m \in Missing : lastId < m /\ torn.id <= m /\ Timely(wire, m)
  /\ proxy = "connected" => \A m \in Missing : Coming(m)

\* Without a replay, what was persisted, cut, sent and queued is in order.
OrderInv ==
  ~replayed =>
    /\ tidy /\ stream.mode \in {"off", "live"}
    /\ Ascending(wire) /\ Before(wire, queue)
    /\ \A g \in got : /\ torn # NoEvent => g < torn.id
                      /\ \A e \in ToSet(wire) \cup ToSet(queue) : g < e.id
    /\ \A e \in ToSet(wire) \cup ToSet(queue) : torn.id < e.id

\* The worker's turn and what its events say of it.
TurnInv ==
  /\ run # "off" <=> status = "running"
  /\ serving <= turn /\ (serving > 0 <=> status # "idle")
  /\ task = "posting" => serving < turn
  /\ task = "waiting" \/ (task = "none" /\ turn > 0 /\ ~lapsed) => serving = turn
Ended(s) == serving = turn /\ run = "off" /\ status = s
KnownInv ==
  \A e \in Known :
    /\ e.turn <= turn /\ (task = "posting" => e.turn < turn)
    /\ e.turn = turn /\ e.event = "done" => Ended("done")
    /\ e.turn = turn /\ e.event = "error" => lapsed \/ Ended("error")
OneDone ==
  \A d, e \in Known :
    d.turn = turn /\ e.turn = turn /\ d.event = "done" /\ e.event = "done" => d.id = e.id

Verdict == IF status = "done" THEN "completed" ELSE "failed"
OutcomeInv ==
  /\ completion_event /\ ~strayed /\ ~lapsed =>
       (Ended("done") \/ Ended("error")) /\ row = Verdict
  /\ row = "failed" /\ ~strayed /\ ~lapsed => Ended("error")
  /\ OutcomeIsRight
JudgeInv ==
  ~strayed /\ ~repeated /\ ~lapsed =>
    /\ harness.evidence =>
         /\ Ended("done")
         /\ \A e \in Known : e.turn = turn /\ e.event = "done" => e.id \in got
    /\ harness.final = "completed" =>
         harness.evidence /\ harness.gates = "passed" /\ row # "failed"

Delivery == Typed /\ Budget /\ IdInv /\ LinkInv /\ MissingInv /\ OrderInv
Messages == TurnInv /\ KnownInv /\ OneDone /\ OutcomeInv /\ JudgeInv
IInv     == Delivery /\ Messages

-----------------------------------------------------------------------------
(* Sequences of events. *)

LEMMA EventFacts ==
  /\ 5 * MaxTurns \in Nat /\ MaxTurns \in Nat
  /\ NoEvent \notin EventRec /\ NoEvent.id = 0
  /\ \A e \in EventRec : e.id \in Nat /\ e.id > 0 /\ e.turn \in Nat /\ e.turn > 0 /\ e.event \in Event
BY EventsAssumption DEF EventRec, NoEvent

LEMMA EmptyFacts ==
  /\ <<>> \in Seq(EventRec) /\ Len(<<>>) = 0
  /\ ToSet(<<>>) = {} /\ Ids(<<>>) = {} /\ Ascending(<<>>)
  /\ \A m : Timely(<<>>, m)
BY DEF ToSet, Ids, Ascending, Timely

LEMMA SetFacts ==
  ASSUME NEW s \in Seq(EventRec)
  PROVE  /\ ToSet(s) \subseteq EventRec /\ Ids(s) \subseteq Nat \ {0}
         /\ s # <<>> <=> ToSet(s) # {}
<1>1. Len(s) \in Nat /\ DOMAIN s = 1 .. Len(s) /\ \A i \in 1 .. Len(s) : s[i] \in EventRec
  OBVIOUS
<1>2. ToSet(s) \subseteq EventRec
  BY <1>1 DEF ToSet
<1>3. Ids(s) \subseteq Nat \ {0}
  BY <1>2, EventFacts DEF Ids
<1>4. ASSUME s # <<>> PROVE ToSet(s) # {}
  <2>1. Len(s) > 0
    BY <1>4
  <2>2. s[1] \in ToSet(s)
    BY <1>1, <2>1 DEF ToSet
  <2> QED BY <2>2
<1> QED BY <1>2, <1>3, <1>4, EmptyFacts

LEMMA KnownFacts ==
  ASSUME Typed
  PROVE  /\ ToSet(event_log) \subseteq EventRec /\ ToSet(queue) \subseteq EventRec
         /\ ToSet(wire) \subseteq EventRec /\ ToSet(stream.rest) \subseteq EventRec
         /\ Known \subseteq EventRec
         /\ \A e \in Known : e.id \in Nat /\ e.id > 0 /\ e.turn \in Nat /\ e.turn > 0
BY SetFacts, EventFacts DEF Typed, StreamRec, Known

LEMMA AppendFacts ==
  ASSUME NEW s \in Seq(EventRec), NEW e \in EventRec
  PROVE  /\ Append(s, e) \in Seq(EventRec) /\ Len(Append(s, e)) = Len(s) + 1
         /\ ToSet(Append(s, e)) = ToSet(s) \cup {e}
         /\ Ids(Append(s, e)) = Ids(s) \cup {e.id}
         /\ Ascending(s) /\ (\A a \in ToSet(s) : a.id < e.id) => Ascending(Append(s, e))
         /\ \A m \in Nat : Timely(s, m) /\ (m \in Ids(s) \/ e.id <= m)
                             => Timely(Append(s, e), m)
<1> DEFINE t == Append(s, e)
<1>1. /\ t \in Seq(EventRec) /\ Len(t) = Len(s) + 1 /\ t[Len(s) + 1] = e
      /\ \A i \in 1 .. Len(s) : t[i] = s[i] /\ s[i] \in EventRec
      /\ Len(s) \in Nat /\ DOMAIN t = 1 .. Len(s) + 1 /\ DOMAIN s = 1 .. Len(s)
  OBVIOUS
<1> HIDE DEF t
<1>2. ToSet(t) = ToSet(s) \cup {e}
  BY <1>1 DEF ToSet
<1>3. Ids(t) = Ids(s) \cup {e.id}
  BY <1>2 DEF Ids
<1>4. ASSUME Ascending(s), \A a \in ToSet(s) : a.id < e.id
      PROVE  Ascending(t)
  <2> SUFFICES ASSUME NEW i \in 1 .. Len(t), NEW j \in 1 .. Len(t), i < j
               PROVE  t[i].id < t[j].id
    BY DEF Ascending
  <2>1. CASE j = Len(s) + 1
    BY <1>1, <1>4, <2>1 DEF ToSet
  <2>2. CASE j # Len(s) + 1
    BY <1>1, <1>4, <2>2 DEF Ascending
  <2> QED BY <2>1, <2>2
<1>5. ASSUME NEW m \in Nat, Timely(s, m), m \in Ids(s) \/ e.id <= m
      PROVE  Timely(t, m)
  <2> SUFFICES ASSUME NEW i \in 1 .. Len(t), t[i].id > m
               PROVE  \E j \in 1 .. i - 1 : t[j].id = m
    BY DEF Timely
  <2>1. CASE i = Len(s) + 1
    <3>1. m \in Ids(s)
      BY <1>1, <1>5, <2>1, EventFacts
    <3>2. PICK j \in 1 .. Len(s) : s[j].id = m
      BY <1>1, <3>1 DEF Ids, ToSet
    <3> QED BY <1>1, <2>1, <3>2
  <2>2. CASE i # Len(s) + 1
    BY <1>1, <1>5, <2>2 DEF Timely
  <2> QED BY <2>1, <2>2
<1> QED BY <1>1, <1>2, <1>3, <1>4, <1>5 DEF t

LEMMA TailFacts ==
  ASSUME NEW s \in Seq(EventRec), s # <<>>
  PROVE  /\ Head(s) \in EventRec /\ Head(s) \in ToSet(s) /\ Head(s).id \in Ids(s)
         /\ Tail(s) \in Seq(EventRec) /\ Len(Tail(s)) = Len(s) - 1
         /\ ToSet(s) = {Head(s)} \cup ToSet(Tail(s))
         /\ Ids(s) = {Head(s).id} \cup Ids(Tail(s))
         /\ Ascending(s) => /\ Ascending(Tail(s))
                            /\ \A a \in ToSet(Tail(s)) : Head(s).id < a.id
         /\ \A m \in Nat : Timely(s, m) => /\ Head(s).id <= m
                                           /\ Head(s).id # m => Timely(Tail(s), m)
<1> DEFINE t == Tail(s)
<1>1. /\ t \in Seq(EventRec) /\ Len(s) \in Nat /\ Len(s) > 0 /\ Len(t) = Len(s) - 1
      /\ \A i \in 1 .. Len(s) - 1 : t[i] = s[i + 1]
      /\ \A i \in 1 .. Len(s) : s[i] \in EventRec
      /\ DOMAIN t = 1 .. Len(s) - 1 /\ DOMAIN s = 1 .. Len(s)
      /\ Head(s) = s[1] /\ s[1] \in EventRec
  OBVIOUS
<1> HIDE DEF t
<1>2. s[1] \in ToSet(s) /\ ToSet(t) \subseteq ToSet(s)
  <2>1. s[1] \in ToSet(s)
    BY <1>1 DEF ToSet
  <2>2. ASSUME NEW a \in ToSet(t) PROVE a \in ToSet(s)
    <3>1. PICK i \in 1 .. Len(s) - 1 : a = t[i]
      BY <1>1 DEF ToSet
    <3>2. i + 1 \in 1 .. Len(s) /\ a = s[i + 1]
      BY <1>1, <3>1
    <3> QED BY <1>1, <3>2 DEF ToSet
  <2> QED BY <2>1, <2>2
<1>3. ASSUME NEW i \in 1 .. Len(s), i # 1
      PROVE  i - 1 \in 1 .. Len(s) - 1 /\ t[i - 1] = s[i]
  BY <1>1, <1>3
<1>4. ToSet(s) = {s[1]} \cup ToSet(t)
  <2>1. ASSUME NEW a \in ToSet(s) PROVE a \in {s[1]} \cup ToSet(t)
    <3>1. PICK i \in 1 .. Len(s) : a = s[i]
      BY <1>1 DEF ToSet
    <3> QED BY <1>1, <1>3, <3>1 DEF ToSet
  <2> QED BY <1>2, <2>1
<1>5. Ids(s) = {s[1].id} \cup Ids(t) /\ s[1].id \in Ids(s)
  BY <1>4 DEF Ids
<1>6. ASSUME Ascending(s)
      PROVE  Ascending(t) /\ \A a \in ToSet(t) : s[1].id < a.id
  <2>1. ASSUME NEW i \in 1 .. Len(t), NEW j \in 1 .. Len(t), i < j
        PROVE  t[i].id < t[j].id
    BY <1>1, <1>6, <2>1 DEF Ascending
  <2>2. ASSUME NEW a \in ToSet(t) PROVE s[1].id < a.id
    <3>1. PICK i \in 1 .. Len(s) - 1 : a = s[i + 1]
      BY <1>1 DEF ToSet
    <3> QED BY <1>1, <1>6, <3>1 DEF Ascending
  <2> QED BY <2>1, <2>2 DEF Ascending
<1>7. ASSUME NEW m \in Nat, Timely(s, m)
      PROVE  s[1].id <= m /\ (s[1].id # m => Timely(t, m))
  <2>1. s[1].id <= m
    BY <1>1, <1>7, EventFacts DEF Timely
  <2>2. ASSUME s[1].id # m, NEW i \in 1 .. Len(t), t[i].id > m
        PROVE  \E j \in 1 .. i - 1 : t[j].id = m
    <3>1. i + 1 \in 1 .. Len(s) /\ s[i + 1].id > m
      BY <1>1, <2>2
    <3>2. PICK j \in 1 .. (i + 1) - 1 : s[j].id = m
      BY <1>7, <3>1 DEF Timely
    <3>3. j # 1 /\ j \in 1 .. Len(s)
      BY <1>1, <2>2, <3>2
    <3>4. j - 1 \in 1 .. i - 1 /\ t[j - 1].id = m
      BY <1>1, <1>3, <3>2, <3>3
    <3> QED BY <3>4
  <2> QED BY <2>1, <2>2 DEF Timely
<1> QED BY <1>1, <1>4, <1>5, <1>6, <1>7 DEF t

LEMMA ConcatFacts ==
  ASSUME NEW s \in Seq(EventRec), NEW r \in Seq(EventRec)
  PROVE  /\ s \o r \in Seq(EventRec) /\ Len(s \o r) = Len(s) + Len(r)
         /\ ToSet(s \o r) = ToSet(s) \cup ToSet(r)
         /\ Ids(s \o r) = Ids(s) \cup Ids(r)
         /\ Ascending(s) /\ Ascending(r) /\ Before(s, r) => Ascending(s \o r)
<1> DEFINE t == s \o r
<1>1. /\ t \in Seq(EventRec) /\ Len(s) \in Nat /\ Len(r) \in Nat /\ Len(t) = Len(s) + Len(r)
      /\ \A i \in 1 .. Len(s) : t[i] = s[i]
      /\ \A i \in 1 .. Len(t) : i > Len(s) => t[i] = r[i - Len(s)]
      /\ \A i \in 1 .. Len(s) : s[i] \in EventRec
      /\ \A i \in 1 .. Len(r) : r[i] \in EventRec
      /\ DOMAIN t = 1 .. Len(t) /\ DOMAIN s = 1 .. Len(s) /\ DOMAIN r = 1 .. Len(r)
  OBVIOUS
<1> HIDE DEF t
<1>2. ASSUME NEW j \in 1 .. Len(r)
      PROVE  Len(s) + j \in 1 .. Len(t) /\ t[Len(s) + j] = r[j]
  BY <1>1
<1>3. ToSet(t) = ToSet(s) \cup ToSet(r)
  <2>1. ASSUME NEW a \in ToSet(t) PROVE a \in ToSet(s) \cup ToSet(r)
    <3>1. PICK i \in 1 .. Len(t) : a = t[i]
      BY <1>1 DEF ToSet
    <3>2. CASE i \in 1 .. Len(s)
      BY <1>1, <3>1, <3>2 DEF ToSet
    <3>3. CASE i > Len(s)
      <4>1. i - Len(s) \in 1 .. Len(r) /\ a = r[i - Len(s)]
        BY <1>1, <3>1, <3>3
      <4> QED BY <1>1, <4>1 DEF ToSet
    <3> QED BY <1>1, <3>1, <3>2, <3>3
  <2>2. ASSUME NEW a \in ToSet(s) PROVE a \in ToSet(t)
    BY <1>1 DEF ToSet
  <2>3. ASSUME NEW a \in ToSet(r) PROVE a \in ToSet(t)
    BY <1>1, <1>2 DEF ToSet
  <2> QED BY <2>1, <2>2, <2>3
<1>4. Ids(t) = Ids(s) \cup Ids(r)
  BY <1>3 DEF Ids
<1>5. ASSUME Ascending(s), Ascending(r), Before(s, r)
      PROVE  Ascending(t)
  <2> SUFFICES ASSUME NEW i \in 1 .. Len(t), NEW j \in 1 .. Len(t), i < j
               PROVE  t[i].id < t[j].id
    BY DEF Ascending
  <2>1. CASE j <= Len(s)
    <3>1. i \in 1 .. Len(s) /\ j \in 1 .. Len(s) /\ t[i] = s[i] /\ t[j] = s[j]
      BY <1>1, <2>1
    <3> QED BY <1>5, <3>1 DEF Ascending
  <2>2. CASE i > Len(s)
    <3>1. i - Len(s) \in 1 .. Len(r) /\ j - Len(s) \in 1 .. Len(r) /\ i - Len(s) < j - Len(s)
      BY <1>1, <2>2
    <3>2. i > Len(s) /\ j > Len(s)
      BY <1>1, <2>2
    <3>3. t[i] = r[i - Len(s)] /\ t[j] = r[j - Len(s)]
      <4>1. \A k \in 1 .. Len(t) : k > Len(s) => t[k] = r[k - Len(s)]
        BY <1>1
      <4> QED BY <3>2, <4>1
    <3> QED BY <1>5, <3>1, <3>3 DEF Ascending
  <2>3. CASE i <= Len(s) /\ j > Len(s)
    <3>1. j - Len(s) \in 1 .. Len(r) /\ t[j] = r[j - Len(s)] /\ t[i] = s[i]
      BY <1>1, <2>3
    <3>2. r[j - Len(s)] \in ToSet(r)
      BY <1>1, <3>1 DEF ToSet
    <3>3. s[i] \in ToSet(s)
      <4>1. i \in 1 .. Len(s)
        BY <1>1, <2>3
      <4> QED BY <1>1, <4>1 DEF ToSet
    <3> QED BY <1>5, <3>1, <3>2, <3>3 DEF Before
  <2> QED BY <1>1, <2>1, <2>2, <2>3
<1> QED BY <1>1, <1>3, <1>4, <1>5 DEF t

\* A part of a sequence of events.
LEMMA PartFacts ==
  ASSUME NEW s \in Seq(EventRec), NEW i \in 1 .. Len(s) + 1, NEW j \in 0 .. Len(s), i <= j + 1
  PROVE  LET t == SubSeq(s, i, j)
         IN /\ t \in Seq(EventRec) /\ Len(t) = j - i + 1
            /\ \A k \in 1 .. Len(t) : t[k] = s[k + i - 1]
            /\ ToSet(t) = {s[k] : k \in i .. j} /\ ToSet(t) \subseteq ToSet(s)
            /\ Ascending(s) => Ascending(t)
<1> DEFINE t == SubSeq(s, i, j)
<1>1. /\ Len(s) \in Nat /\ DOMAIN s = 1 .. Len(s)
      /\ \A k \in 1 .. Len(s) : s[k] \in EventRec
  OBVIOUS
<1>2. /\ Len(t) = j - i + 1 /\ DOMAIN t = 1 .. j - i + 1
      /\ \A k \in 1 .. j - i + 1 : t[k] = s[k + i - 1]
  BY <1>1
<1>3. t \in Seq(EventRec)
  BY <1>1
<1> HIDE DEF t
<1>4. ToSet(t) = {s[k] : k \in i .. j}
  <2>1. ASSUME NEW a \in ToSet(t) PROVE a \in {s[k] : k \in i .. j}
    <3>1. PICK k \in 1 .. j - i + 1 : a = s[k + i - 1]
      BY <1>2 DEF ToSet
    <3>2. k + i - 1 \in i .. j
      OBVIOUS
    <3> QED BY <3>1, <3>2
  <2>2. ASSUME NEW k \in i .. j PROVE s[k] \in ToSet(t)
    <3>1. k - i + 1 \in 1 .. j - i + 1 /\ (k - i + 1) + i - 1 = k
      OBVIOUS
    <3>2. t[k - i + 1] = s[k]
      BY <1>2, <3>1
    <3> QED BY <1>2, <3>1, <3>2 DEF ToSet
  <2> QED BY <2>1, <2>2
<1>5. ToSet(t) \subseteq ToSet(s)
  <2>1. ASSUME NEW k \in i .. j PROVE s[k] \in ToSet(s)
    <3>1. k \in 1 .. Len(s)
      BY <1>1
    <3> QED BY <1>1, <3>1 DEF ToSet
  <2> QED BY <1>4, <2>1
<1>6. Ascending(s) => Ascending(t)
  <2> SUFFICES ASSUME Ascending(s), NEW m \in 1 .. j - i + 1, NEW n \in 1 .. j - i + 1, m < n
               PROVE  t[m].id < t[n].id
    BY <1>2 DEF Ascending
  <2>1. m + i - 1 \in 1 .. Len(s) /\ n + i - 1 \in 1 .. Len(s) /\ m + i - 1 < n + i - 1
    BY <1>1
  <2> QED BY <1>2, <2>1 DEF Ascending
<1> QED BY <1>2, <1>3, <1>4, <1>5, <1>6 DEF t

LEMMA CutFacts ==
  ASSUME NEW s \in Seq(EventRec)
  PROVE  /\ Cut(s) \in Seq(EventRec) /\ Len(Cut(s)) <= EVENT_LOG_MAX
         /\ ToSet(Cut(s)) \subseteq ToSet(s) /\ (Ascending(s) => Ascending(Cut(s)))
<1>1. EVENT_LOG_MAX \in Nat /\ EVENT_LOG_MAX > 0 /\ Len(s) \in Nat
  BY EventsAssumption
<1>2. CASE Len(s) > EVENT_LOG_MAX
  <2> DEFINE i == Len(s) - EVENT_LOG_MAX + 1
  <2>1. i \in 1 .. Len(s) + 1 /\ Len(s) \in 0 .. Len(s) /\ i <= Len(s) + 1
    BY <1>1, <1>2
  <2>2. Len(s) - i + 1 = EVENT_LOG_MAX
    BY <1>1
  <2>3. Cut(s) = SubSeq(s, i, Len(s))
    BY <1>2 DEF Cut
  <2> HIDE DEF i
  <2> QED BY <1>1, <2>1, <2>2, <2>3, PartFacts
<1>3. CASE ~(Len(s) > EVENT_LOG_MAX)
  <2>1. Cut(s) = s
    BY <1>3 DEF Cut
  <2> QED BY <1>1, <1>3, <2>1
<1> QED BY <1>2, <1>3

\* A replay is the part of the log beyond last.
LEMMA ReplayedFacts ==
  ASSUME event_log \in Seq(EventRec), Ascending(event_log), NEW last \in Nat
  PROVE  /\ Replayed(last) \in Seq(EventRec) /\ Ascending(Replayed(last))
         /\ ToSet(Replayed(last)) \subseteq ToSet(event_log)
         /\ \A e \in ToSet(event_log) : e.id > last => e \in ToSet(Replayed(last))
<1> DEFINE n == Len(event_log)
           I == {k \in 1 .. n : event_log[k].id > last}
           i == SelectInSeq(event_log, LAMBDA e : e.id > last)
<1>1. n \in Nat /\ DOMAIN event_log = 1 .. n /\ \A k \in 1 .. n : event_log[k] \in EventRec
  OBVIOUS
<1>2. i = IF I # {} THEN Min(I) ELSE 0
  BY DEF SelectInSeq
<1>3. Replayed(last) = IF i = 0 THEN <<>> ELSE SubSeq(event_log, i, n)
  BY DEF Replayed, LogFrom
<1> HIDE DEF n, i
<1>4. CASE I = {}
  <2>1. Replayed(last) = <<>>
    BY <1>2, <1>3, <1>4
  <2>2. ASSUME NEW e \in ToSet(event_log), e.id > last PROVE FALSE
    BY <1>1, <1>4, <2>2 DEF ToSet
  <2> QED BY <2>1, <2>2, EmptyFacts
<1>5. CASE I # {}
  <2>1. \E m \in I : \A k \in I : m <= k
    <3>1. PICK k0 \in I : TRUE
      BY <1>5
    <3>2. I \subseteq Nat
      BY <1>1
    <3> HIDE DEF I
    <3>3. ASSUME \A m \in I : \E k \in I : k < m
          PROVE  FALSE
      <4>1. PICK m \in I : \A k \in I : <<k, m>> \notin OpToRel(<, Nat)
        BY <3>1, <3>2, NatLessThanWellFounded, WFMin
      <4>2. \A k \in I : ~(k < m)
        BY <3>2, <4>1 DEF OpToRel
      <4> QED BY <3>3, <4>2
    <3> QED BY <3>2, <3>3
  <2>2. Min(I) \in I /\ \A k \in I : Min(I) <= k
    BY <2>1 DEF Min
  <2>3. i \in 1 .. n /\ event_log[i].id > last /\ i = Min(I)
    BY <1>1, <1>2, <1>5, <2>2
  <2>4. Replayed(last) = SubSeq(event_log, i, n)
    <3>1. i # 0
      BY <2>3
    <3> QED BY <1>3, <3>1, Zenon
  <2>5. i \in 1 .. n + 1 /\ n \in 0 .. n /\ i <= n + 1
    BY <1>1, <2>3
  <2>6. /\ Replayed(last) \in Seq(EventRec)
        /\ ToSet(Replayed(last)) = {event_log[k] : k \in i .. n}
        /\ ToSet(Replayed(last)) \subseteq ToSet(event_log)
        /\ Ascending(Replayed(last))
    BY <2>4, <2>5, PartFacts DEF n
  <2>7. ASSUME NEW e \in ToSet(event_log), e.id > last
        PROVE  e \in ToSet(Replayed(last))
    <3>1. PICK k \in 1 .. n : e = event_log[k]
      BY <1>1 DEF ToSet
    <3>2. k \in I
      BY <2>7, <3>1
    <3>3. k \in i .. n
      BY <1>1, <2>2, <2>3, <3>1, <3>2
    <3> QED BY <2>6, <3>1, <3>3
  <2> QED BY <2>6, <2>7
<1> QED BY <1>4, <1>5

\* The events of _emit.
New(t, kinds) ==
  [k \in 1 .. Len(kinds) |-> [id |-> next_event_id + k - 1, turn |-> t, event |-> kinds[k]]]

LEMMA NewFacts ==
  ASSUME next_event_id \in Nat \ {0}, NEW t \in 1 .. MaxTurns, NEW kinds \in Seq(Event),
         next_event_id - 1 + Len(kinds) <= 5 * MaxTurns
  PROVE  /\ New(t, kinds) \in Seq(EventRec) /\ Len(New(t, kinds)) = Len(kinds)
         /\ Ascending(New(t, kinds))
         /\ Ids(New(t, kinds)) = next_event_id .. next_event_id + Len(kinds) - 1
         /\ \A e \in ToSet(New(t, kinds)) :
              /\ e.id \in next_event_id .. next_event_id + Len(kinds) - 1
              /\ e.turn = t /\ \E k \in 1 .. Len(kinds) : e.event = kinds[k]
         /\ \A d, e \in ToSet(New(t, kinds)), k \in 1 .. Len(kinds) :
              /\ d.event = kinds[k] /\ e.event = kinds[k]
              /\ (\A j \in 1 .. Len(kinds) : kinds[j] = kinds[k] => j = k)
              => d = e
<1> DEFINE s == New(t, kinds)
           n == Len(kinds)
<1>1. n \in Nat /\ \A k \in 1 .. n : kinds[k] \in Event
  OBVIOUS
<1>2. ASSUME NEW k \in 1 .. n
      PROVE  /\ s[k] \in EventRec /\ s[k].id = next_event_id + k - 1 /\ s[k].turn = t
             /\ s[k].event = kinds[k]
  <2>1. next_event_id + k - 1 \in 1 .. 5 * MaxTurns
    BY <1>1, EventFacts
  <2> QED BY <1>1, <2>1 DEF New, EventRec
<1>3. DOMAIN s = 1 .. n /\ s \in Seq(EventRec) /\ Len(s) = n
  BY <1>1, <1>2 DEF New
<1> HIDE DEF s, n
<1>4. ToSet(s) = {s[k] : k \in 1 .. n}
  BY <1>3 DEF ToSet
<1>5. Ascending(s)
  BY <1>1, <1>2, <1>3 DEF Ascending
<1>6. Ids(s) = next_event_id .. next_event_id + n - 1
  <2>1. ASSUME NEW m \in Ids(s) PROVE m \in next_event_id .. next_event_id + n - 1
    <3>1. PICK k \in 1 .. n : m = s[k].id
      BY <1>4 DEF Ids
    <3> QED BY <1>1, <1>2, <3>1
  <2>2. ASSUME NEW m \in next_event_id .. next_event_id + n - 1 PROVE m \in Ids(s)
    <3>1. m - next_event_id + 1 \in 1 .. n
      BY <1>1
    <3>2. s[m - next_event_id + 1].id = m
      BY <1>2, <3>1
    <3> QED BY <1>4, <3>1, <3>2 DEF Ids
  <2> QED BY <2>1, <2>2
<1>7. ASSUME NEW e \in ToSet(s)
      PROVE  /\ e.id \in next_event_id .. next_event_id + n - 1
             /\ e.turn = t /\ \E k \in 1 .. n : e.event = kinds[k]
  <2>1. PICK k \in 1 .. n : e = s[k]
    BY <1>4
  <2> QED BY <1>1, <1>2, <2>1
<1>8. ASSUME NEW d \in ToSet(s), NEW e \in ToSet(s), NEW k \in 1 .. n,
             d.event = kinds[k], e.event = kinds[k],
             \A j \in 1 .. n : kinds[j] = kinds[k] => j = k
      PROVE  d = e
  BY <1>2, <1>4, <1>8
<1> QED BY <1>3, <1>5, <1>6, <1>7, <1>8 DEF s, n

\* A stream while events are emitted: the replay is prolonged by the first of
\* them, and all others come after it.
LEMMA AppendedFacts ==
  ASSUME Typed, Len(event_log) <= EVENT_LOG_MAX, NEW evts \in Seq(EventRec), Ascending(evts),
         Ascending(stream.rest), Before(stream.rest, evts)
  PROVE  LET s == Appended(stream, evts)
         IN /\ s \in StreamRec
            /\ s.mode = stream.mode /\ Ascending(s.rest)
            /\ ToSet(stream.rest) \subseteq ToSet(s.rest)
            /\ ToSet(s.rest) \subseteq ToSet(stream.rest) \cup ToSet(evts)
            /\ stream.mode # "replay" \/ ~stream.shared => s = stream
            /\ stream.mode = "replay" /\ stream.shared =>
                 \A e \in ToSet(evts) :
                   \/ e \in ToSet(s.rest)
                   \/ ~s.shared /\ \A a \in ToSet(s.rest) : a.id < e.id
<1> DEFINE s == Appended(stream, evts)
           left == EVENT_LOG_MAX - Len(event_log) + 1
           seen == Min({Len(evts), left})
           head == SubSeq(evts, 1, seen)
           n == Len(evts)
<1>1. /\ n \in Nat /\ left \in Nat /\ left > 0
      /\ stream.mode \in {"off", "replay", "live", "ended"}
      /\ stream.rest \in Seq(EventRec) /\ stream.shared \in BOOLEAN
  BY EventsAssumption DEF Typed, StreamRec
<1>2. CASE ~(stream.mode = "replay" /\ stream.shared)
  <2>1. s = stream
    BY <1>2 DEF Appended
  <2> QED BY <1>2, <2>1 DEF Typed
<1>3. CASE stream.mode = "replay" /\ stream.shared
  <2>1. seen = IF n <= left THEN n ELSE left
    BY <1>1 DEF Min
  <2>2. seen \in 0 .. n /\ 1 \in 1 .. n + 1 /\ 1 <= seen + 1
    BY <1>1, <2>1
  <2> HIDE DEF left
  <2> HIDE DEF seen
  <2>3. /\ head \in Seq(EventRec) /\ Ascending(head)
        /\ ToSet(head) = {evts[k] : k \in 1 .. seen} /\ ToSet(head) \subseteq ToSet(evts)
    BY <2>2, PartFacts
  <2>4. s = [stream EXCEPT !.rest = stream.rest \o head,
                           !.shared = Len(event_log) + n <= EVENT_LOG_MAX]
    BY <1>3 DEF Appended, seen, left
  <2> HIDE DEF head, s
  <2>5. Before(stream.rest, head)
    BY <2>3 DEF Before
  <2>6. /\ stream.rest \o head \in Seq(EventRec) /\ Ascending(stream.rest \o head)
        /\ ToSet(stream.rest \o head) = ToSet(stream.rest) \cup ToSet(head)
    BY <1>1, <2>3, <2>5, ConcatFacts
  <2>7. /\ s.mode = stream.mode /\ s.rest = stream.rest \o head
        /\ s.shared = (Len(event_log) + n <= EVENT_LOG_MAX)
        /\ s \in StreamRec
    <3>1. stream \in StreamRec /\ (Len(event_log) + n <= EVENT_LOG_MAX) \in BOOLEAN
      BY DEF Typed
    <3> QED BY <2>4, <2>6, <3>1 DEF StreamRec
  <2>8. ASSUME NEW e \in ToSet(evts), e \notin ToSet(s.rest)
        PROVE  ~s.shared /\ \A a \in ToSet(s.rest) : a.id < e.id
    <3>1. PICK k \in 1 .. n : e = evts[k]
      BY <1>1 DEF ToSet
    <3>2. k \notin 1 .. seen
      BY <2>3, <2>6, <2>7, <2>8, <3>1
    <3>3. n > left
      BY <1>1, <2>1, <3>2
    <3>4. ~s.shared
      <4>1. Len(event_log) \in Nat /\ EVENT_LOG_MAX \in Nat
        BY EventsAssumption DEF Typed
      <4>2. ~(Len(event_log) + n <= EVENT_LOG_MAX)
        BY <1>1, <3>3, <4>1 DEF left
      <4> QED BY <2>7, <4>2
    <3>5. \A a \in ToSet(stream.rest) : a.id < e.id
      BY DEF Before
    <3>6. ASSUME NEW a \in ToSet(head) PROVE a.id < e.id
      <4>1. PICK j \in 1 .. seen : a = evts[j]
        BY <2>3
      <4>2. j < k /\ j \in 1 .. n
        BY <2>2, <3>2
      <4> QED BY <3>1, <4>1, <4>2 DEF Ascending
    <3> QED BY <2>6, <2>7, <3>4, <3>5, <3>6
  <2> QED BY <1>3, <2>6, <2>7, <2>3, <2>8 DEF s
<1> QED BY <1>2, <1>3

LEMMA EmitFacts ==
  ASSUME Typed, Budget, IdInv,
         NEW t \in 1 .. MaxTurns, NEW kinds \in Seq(Event),
         next_event_id - 1 + Len(kinds) <= 5 * MaxTurns, _emit(t, kinds)
  PROVE  LET new == ToSet(New(t, kinds))
         IN /\ next_event_id' = next_event_id + Len(kinds) /\ Len(kinds) \in Nat
            /\ event_log' \in Seq(EventRec) /\ Len(event_log') <= EVENT_LOG_MAX
            /\ ToSet(event_log') \subseteq ToSet(event_log) \cup new /\ Ascending(event_log')
            /\ queue' \in Seq(EventRec) /\ Ascending(queue')
            /\ ToSet(queue') = ToSet(queue) \cup new
            /\ Ids(queue') = Ids(queue) \cup Ids(New(t, kinds))
            /\ stream' \in StreamRec
            /\ stream'.mode = stream.mode /\ Ascending(stream'.rest)
            /\ ToSet(stream.rest) \subseteq ToSet(stream'.rest)
            /\ ToSet(stream'.rest) \subseteq ToSet(stream.rest) \cup new
            /\ stream.mode # "replay" \/ ~stream.shared => stream' = stream
            /\ stream.mode = "replay" /\ stream.shared =>
                 \A e \in new : \/ e \in ToSet(stream'.rest)
                                \/ ~stream'.shared /\ \A a \in ToSet(stream'.rest) : a.id < e.id
            /\ excused' = excused \cup ((Ids(event_log) \cup Ids(New(t, kinds)))
                                          \ (Ids(event_log') \cup got))
<1> DEFINE evts == New(t, kinds)
<1>1. /\ event_log \in Seq(EventRec) /\ queue \in Seq(EventRec)
      /\ next_event_id \in Nat \ {0} /\ stream.rest \in Seq(EventRec)
      /\ Len(event_log) <= EVENT_LOG_MAX /\ Len(kinds) \in Nat
  BY DEF Typed, Budget, StreamRec
<1>2. /\ evts \in Seq(EventRec) /\ Ascending(evts)
      /\ \A e \in ToSet(evts) : e.id \in next_event_id .. next_event_id + Len(kinds) - 1
  BY <1>1, NewFacts
<1>3. /\ next_event_id' = next_event_id + Len(kinds)
      /\ event_log' = Cut(event_log \o evts) /\ queue' = queue \o evts
      /\ stream' = Appended(stream, evts)
      /\ excused' = excused \cup (Ids(event_log \o evts) \ (Ids(event_log') \cup got))
  BY DEF _emit, New
<1> HIDE DEF evts
<1>4. Before(event_log, evts) /\ Before(queue, evts) /\ Before(stream.rest, evts)
  <2>1. ASSUME NEW a \in Known, NEW e \in ToSet(evts) PROVE a.id < e.id
    BY <1>1, <1>2, KnownFacts DEF IdInv
  <2> QED BY <2>1 DEF Known, Before
<1>5. /\ event_log \o evts \in Seq(EventRec) /\ Ascending(event_log \o evts)
      /\ ToSet(event_log \o evts) = ToSet(event_log) \cup ToSet(evts)
      /\ Ids(event_log \o evts) = Ids(event_log) \cup Ids(evts)
  BY <1>1, <1>2, <1>4, ConcatFacts DEF IdInv
<1>6. /\ queue \o evts \in Seq(EventRec) /\ Ascending(queue \o evts)
      /\ ToSet(queue \o evts) = ToSet(queue) \cup ToSet(evts)
      /\ Ids(queue \o evts) = Ids(queue) \cup Ids(evts)
  BY <1>1, <1>2, <1>4, ConcatFacts DEF IdInv
<1>7. /\ event_log' \in Seq(EventRec) /\ Len(event_log') <= EVENT_LOG_MAX
      /\ ToSet(event_log') \subseteq ToSet(event_log \o evts) /\ Ascending(event_log')
  BY <1>3, <1>5, CutFacts
<1>8. Ascending(stream.rest)
  BY DEF IdInv
<1>9. /\ stream' \in StreamRec
      /\ stream'.mode = stream.mode /\ Ascending(stream'.rest)
      /\ ToSet(stream.rest) \subseteq ToSet(stream'.rest)
      /\ ToSet(stream'.rest) \subseteq ToSet(stream.rest) \cup ToSet(evts)
      /\ stream.mode # "replay" \/ ~stream.shared => stream' = stream
      /\ stream.mode = "replay" /\ stream.shared =>
           \A e \in ToSet(evts) : \/ e \in ToSet(stream'.rest)
                                  \/ ~stream'.shared /\ \A a \in ToSet(stream'.rest) : a.id < e.id
  BY <1>1, <1>2, <1>3, <1>4, <1>8, AppendedFacts
<1> QED BY <1>1, <1>3, <1>5, <1>6, <1>7, <1>9 DEF evts

-----------------------------------------------------------------------------
(* The steps of the streams and of the proxy: where the events are. *)

LEMMA MissingFacts ==
  ASSUME Typed
  PROVE  Missing \subseteq Nat \ {0} /\ \A m \in Missing : m < next_event_id
BY DEF Typed, Missing, Emitted

LEMMA ReplayStep ==
  ASSUME Delivery, Replay
  PROVE  Delivery' /\ Known' \subseteq Known
<1> USE DEF Delivery
<1>1. /\ stream \in StreamRec /\ stream.mode = "replay" /\ stream.rest \in Seq(EventRec)
      /\ wire \in Seq(EventRec)
      /\ UNCHANGED <<worker, stale, torn, proxy, lastId, retries, breaks, message, history>>
  BY DEF Replay, Typed, StreamRec
<1>2. UNCHANGED <<Missing, Emitted>>
  BY <1>1 DEF Missing, Emitted, worker, history
<1>3. proxy = "connected"
  BY <1>1 DEF LinkInv
<1>4. CASE stream.rest = <<>>
  <2>1. wire' = wire /\ stream' = [mode |-> "live", rest |-> <<>>, shared |-> FALSE]
    BY <1>4 DEF Replay, NoStream
  <2>2. Typed'
    BY <1>1, <2>1, EmptyFacts DEF Typed, StreamRec, worker, message, history
  <2>3. Budget'
    BY <1>1, <2>1 DEF Budget, Due, DueOfRun, worker, message
  <2>4. Known' \subseteq Known /\ ToSet(stream.rest) = {} /\ Ids(stream.rest) = {}
    BY <1>1, <1>4, <2>1, EmptyFacts DEF Known, worker
  <2>5. IdInv'
    BY <1>1, <1>2, <2>1, <2>4, EmptyFacts DEF IdInv, worker, history
  <2>6. LinkInv'
    BY <1>1, <2>1 DEF LinkInv
  <2>7. MissingInv'
    BY <1>1, <1>2, <2>1, <2>4 DEF MissingInv, Coming, InReplay, worker
  <2>8. OrderInv'
    BY <1>1 DEF OrderInv, history
  <2> QED BY <2>2, <2>3, <2>4, <2>5, <2>6, <2>7, <2>8
<1>5. CASE stream.rest # <<>>
  <2> DEFINE e == Head(stream.rest)
             rest == Tail(stream.rest)
  <2>1. /\ Len(wire) < WireCap /\ wire' = Append(wire, e)
        /\ \/ stream' = [mode |-> "ended", rest |-> <<>>, shared |-> FALSE]
           \/ stream' = [stream EXCEPT !.rest = rest]
    BY <1>5 DEF Replay, NoStream
  <2>2. /\ e \in EventRec /\ e \in ToSet(stream.rest) /\ rest \in Seq(EventRec)
        /\ ToSet(stream.rest) = {e} \cup ToSet(rest)
        /\ Ids(stream.rest) = {e.id} \cup Ids(rest)
        /\ Ascending(rest) /\ \A a \in ToSet(rest) : e.id < a.id
    BY <1>1, <1>5, TailFacts DEF IdInv
  <2> HIDE DEF e, rest
  <2>3. /\ wire' \in Seq(EventRec) /\ Len(wire') = Len(wire) + 1
        /\ ToSet(wire') = ToSet(wire) \cup {e} /\ Ids(wire') = Ids(wire) \cup {e.id}
        /\ \A m \in Nat : Timely(wire, m) /\ (m \in Ids(wire) \/ e.id <= m) => Timely(wire', m)
    BY <1>1, <2>1, <2>2, AppendFacts
  <2>4. /\ stream' \in StreamRec /\ stream'.mode \in {"ended", "replay"}
        /\ ToSet(stream'.rest) \subseteq ToSet(rest) /\ Ascending(stream'.rest)
        /\ stream'.mode = "ended" => stream'.rest = <<>>
        /\ stream'.mode = "replay" => stream'.rest = rest /\ stream'.shared = stream.shared
    <3>1. CASE stream' = [mode |-> "ended", rest |-> <<>>, shared |-> FALSE]
      BY <3>1, EmptyFacts DEF StreamRec
    <3>2. CASE stream' = [stream EXCEPT !.rest = rest]
      BY <1>1, <2>2, <3>2 DEF StreamRec
    <3> QED BY <2>1, <3>1, <3>2
  <2>5. Typed'
    BY <1>1, <2>3, <2>4 DEF Typed, worker, message, history
  <2>6. Budget'
    <3>1. Len(wire) \in Nat /\ WireCap \in Nat /\ Due' = Due
      BY <1>1, EventsAssumption DEF Due, DueOfRun, worker, message
    <3>2. Len(wire') <= WireCap
      BY <2>1, <2>3, <3>1
    <3> QED BY <1>1, <3>1, <3>2 DEF Budget, worker, message
  <2>7. Known' \subseteq Known
    BY <1>1, <2>2, <2>3, <2>4 DEF Known, worker
  <2>8. IdInv'
    BY <1>1, <1>2, <2>4, <2>7 DEF IdInv, worker, history
  <2>9. LinkInv'
    BY <1>1, <1>3, <2>4 DEF LinkInv
  <2>10. ASSUME NEW m \in Missing
         PROVE  Timely(wire', m) /\ Coming(m)'
    <3>1. Timely(wire, m) /\ Coming(m) /\ m \in Nat
      BY <1>3, MissingFacts DEF MissingInv
    <3>2. CASE m \in Ids(wire)
      BY <2>3, <3>1, <3>2 DEF Coming
    <3>3. CASE m \in Ids(stream.rest)
      <4>1. e.id <= m
        <5>1. PICK a \in ToSet(stream.rest) : m = a.id
          BY <3>3 DEF Ids
        <5>2. a \in EventRec /\ a.id \in Nat /\ e.id \in Nat
          BY <2>2, KnownFacts, EventFacts
        <5> QED BY <2>2, <5>1, <5>2
      <4>2. m \in Ids(wire') \/ (stream'.mode = "replay" => m \in Ids(stream'.rest))
        BY <2>2, <2>3, <2>4, <3>3
      <4> QED BY <2>3, <2>4, <3>1, <4>1, <4>2 DEF Coming, InReplay
    <3>4. CASE ~stream.shared /\ m \in Ids(queue) /\ \A a \in ToSet(stream.rest) : a.id < m
      <4>1. e.id <= m
        BY <2>2, <3>1, <3>4, EventFacts
      <4>2. queue' = queue
        BY <1>1 DEF worker
      <4>3. \A a \in ToSet(stream'.rest) : a.id < m
        BY <2>2, <2>4, <3>4
      <4> QED BY <2>3, <2>4, <3>1, <3>4, <4>1, <4>2, <4>3 DEF Coming, InReplay
    <3> QED BY <1>1, <3>1, <3>2, <3>3, <3>4 DEF Coming, InReplay
  <2>11. MissingInv'
    BY <1>1, <1>2, <2>10 DEF MissingInv, worker
  <2>12. OrderInv'
    BY <1>1 DEF OrderInv, history
  <2> QED BY <2>5, <2>6, <2>7, <2>8, <2>9, <2>11, <2>12
<1> QED BY <1>4, <1>5

LEMMA LiveStep ==
  ASSUME Delivery, Live
  PROVE  Delivery' /\ Known' \subseteq Known
<1> USE DEF Delivery
<1> DEFINE e == Head(queue)
<1>1. /\ stream \in StreamRec /\ stream.mode = "live" /\ wire \in Seq(EventRec)
      /\ queue \in Seq(EventRec) /\ queue # <<>> /\ Len(wire) < WireCap
      /\ queue' = Tail(queue) /\ wire' = Append(wire, e)
      /\ UNCHANGED <<run, serving, status, next_event_id, event_log, stream, stale, torn,
                     proxy, lastId, retries, breaks, message, history>>
  BY DEF Live, Typed
<1>2. UNCHANGED <<Missing, Emitted>>
  BY <1>1 DEF Missing, Emitted, history
<1>3. proxy = "connected" /\ ToSet(stream.rest) = {}
  BY <1>1, EmptyFacts DEF LinkInv
<1>4. /\ e \in EventRec /\ e \in ToSet(queue) /\ queue' \in Seq(EventRec)
      /\ ToSet(queue) = {e} \cup ToSet(queue') /\ Ids(queue) = {e.id} \cup Ids(queue')
      /\ Ascending(queue') /\ \A a \in ToSet(queue') : e.id < a.id
  BY <1>1, TailFacts DEF IdInv
<1> HIDE DEF e
<1>5. /\ wire' \in Seq(EventRec) /\ Len(wire') = Len(wire) + 1
      /\ ToSet(wire') = ToSet(wire) \cup {e} /\ Ids(wire') = Ids(wire) \cup {e.id}
      /\ Ascending(wire) /\ (\A a \in ToSet(wire) : a.id < e.id) => Ascending(wire')
      /\ \A m \in Nat : Timely(wire, m) /\ (m \in Ids(wire) \/ e.id <= m) => Timely(wire', m)
  BY <1>1, <1>4, AppendFacts
<1>6. Typed'
  BY <1>1, <1>4, <1>5 DEF Typed, message, history
<1>7. Budget'
  <2>1. Len(wire) \in Nat /\ WireCap \in Nat /\ Due' = Due
    BY <1>1, EventsAssumption DEF Due, DueOfRun, message
  <2>2. Len(wire') <= WireCap
    BY <1>1, <1>5, <2>1
  <2> QED BY <1>1, <2>1, <2>2 DEF Budget, message
<1>8. Known' \subseteq Known
  BY <1>1, <1>4, <1>5 DEF Known
<1>9. IdInv'
  BY <1>1, <1>2, <1>4, <1>8 DEF IdInv, history
<1>10. LinkInv'
  BY <1>1, <1>3 DEF LinkInv
<1>11. ASSUME NEW m \in Missing
       PROVE  Timely(wire', m) /\ (m \in Ids(wire') \/ m \in Ids(queue'))
  <2>1. Timely(wire, m) /\ Coming(m) /\ m \in Nat
    BY <1>3, MissingFacts DEF MissingInv
  <2>2. m \in Ids(wire) \/ m \in Ids(queue)
    BY <1>1, <2>1 DEF Coming, InReplay
  <2>3. CASE m \in Ids(wire)
    BY <1>5, <2>1, <2>3
  <2>4. CASE m \in Ids(queue)
    <3>1. PICK a \in ToSet(queue) : m = a.id
      BY <2>4 DEF Ids
    <3>2. a \in EventRec /\ a.id \in Nat /\ e.id \in Nat
      BY <1>4, KnownFacts, EventFacts
    <3>3. e.id <= m
      BY <1>4, <3>1, <3>2
    <3> QED BY <1>4, <1>5, <2>1, <2>4, <3>3
  <2> QED BY <2>2, <2>3, <2>4
<1>12. MissingInv'
  BY <1>1, <1>2, <1>11 DEF MissingInv, Coming, history
<1>13. OrderInv'
  <2> SUFFICES ASSUME ~replayed PROVE OrderInv'
    BY <1>1 DEF OrderInv, history
  <2>1. \A a \in ToSet(wire), b \in ToSet(queue) : a.id < b.id
    BY DEF OrderInv, Before
  <2>2. Ascending(wire') /\ Before(wire', queue')
    BY <1>4, <1>5, <2>1 DEF OrderInv, Before
  <2>3. ToSet(wire') \cup ToSet(queue') \subseteq ToSet(wire) \cup ToSet(queue)
    BY <1>4, <1>5
  <2> QED BY <1>1, <2>2, <2>3 DEF OrderInv, history
<1> QED BY <1>6, <1>7, <1>8, <1>9, <1>10, <1>12, <1>13

LEMMA StaleTakesStep ==
  ASSUME Delivery, StaleTakes
  PROVE  Delivery' /\ Known' \subseteq Known
<1> USE DEF Delivery
<1> DEFINE e == Head(queue)
<1>1. /\ queue \in Seq(EventRec) /\ queue # <<>> /\ queue' = Tail(queue)
      /\ excused' = IF proxy = "connected" /\ e.id \notin got
                    THEN excused \cup {e.id} ELSE excused
      /\ UNCHANGED <<run, serving, status, next_event_id, event_log, link, message,
                     got, tidy, replayed>>
  BY DEF StaleTakes, Typed
<1>2. Emitted' = Emitted
  BY <1>1 DEF Emitted
<1>3. /\ e \in EventRec /\ e \in ToSet(queue) /\ queue' \in Seq(EventRec)
      /\ ToSet(queue) = {e} \cup ToSet(queue') /\ Ids(queue) = {e.id} \cup Ids(queue')
      /\ Ascending(queue')
  BY <1>1, TailFacts DEF IdInv
<1> HIDE DEF e
<1>4. Missing' \subseteq Missing /\ (proxy = "connected" => e.id \notin Missing')
  BY <1>1, <1>2 DEF Missing
<1>5. Typed'
  BY <1>1, <1>3 DEF Typed, link, message
<1>6. Budget'
  BY <1>1 DEF Budget, Due, DueOfRun, link, message
<1>7. Known' \subseteq Known
  BY <1>1, <1>3 DEF Known, link
<1>8. e.id \in Emitted
  BY <1>3, EventFacts DEF IdInv, Known, Emitted, Typed
<1>9. IdInv'
  BY <1>1, <1>2, <1>3, <1>7, <1>8 DEF IdInv, link
<1>10. LinkInv'
  BY <1>1 DEF LinkInv, link
<1>11. ASSUME NEW m \in Missing', proxy = "connected"
       PROVE  Coming(m)'
  <2>1. Coming(m) /\ (m \in Ids(queue) => m \in Ids(queue'))
    BY <1>3, <1>4, <1>11 DEF MissingInv
  <2> QED BY <1>1, <2>1 DEF Coming, InReplay, link
<1>12. MissingInv'
  BY <1>1, <1>4, <1>11 DEF MissingInv, link
<1>13. OrderInv'
  BY <1>1, <1>3 DEF OrderInv, Before, link
<1> QED BY <1>5, <1>6, <1>7, <1>9, <1>10, <1>12, <1>13

LEMMA StaleEndsStep ==
  ASSUME Delivery, StaleEnds
  PROVE  Delivery' /\ Known' \subseteq Known
<1> USE DEF Delivery
<1>1. /\ stale > 0 /\ stale' = stale - 1
      /\ UNCHANGED <<worker, stream, wire, torn, proxy, lastId, retries, breaks, message, history>>
  BY DEF StaleEnds
<1>2. Typed' /\ Budget'
  <2>1. stale \in Nat /\ stale' \in Nat /\ stale' <= stale /\ breaks \in 0 .. MaxBreaks
        /\ MaxBreaks \in Nat
    BY <1>1, EventsAssumption DEF Typed
  <2>2. Typed'
    BY <1>1, <2>1 DEF Typed, worker, message, history
  <2>3. Due' = Due
    BY <1>1 DEF Due, DueOfRun, worker, message
  <2>4. stale' <= breaks'
    BY <1>1, <2>1 DEF Budget
  <2> QED BY <1>1, <2>2, <2>3, <2>4 DEF Budget, worker, message
<1>3. Known' = Known /\ IdInv' /\ LinkInv' /\ MissingInv' /\ OrderInv'
  BY <1>1 DEF Known, IdInv, LinkInv, MissingInv, Missing, Emitted, Coming, InReplay,
              OrderInv, worker, history
<1> QED BY <1>2, <1>3

LEMMA ConnectStep ==
  ASSUME Delivery, Connect
  PROVE  Delivery' /\ Known' \subseteq Known
<1> USE DEF Delivery
<1>1. /\ proxy = "connecting" /\ proxy' = "connected" /\ retries' = 0
      /\ stream' = NewStream(lastId) /\ replayed' = (replayed \/ lastId # 0)
      /\ excused' = IF lastId = 0 THEN excused \cup (Emitted \ (Ids(queue) \cup got))
                    ELSE excused
      /\ UNCHANGED <<worker, stale, wire, torn, lastId, breaks, message, got, tidy>>
  BY DEF Connect
<1>2. /\ event_log \in Seq(EventRec) /\ queue \in Seq(EventRec) /\ wire = <<>>
      /\ lastId \in Nat /\ Ascending(event_log) /\ Emitted' = Emitted
  BY <1>1 DEF Typed, LinkInv, IdInv, Emitted, worker
<1>3. /\ stream' \in StreamRec /\ stream'.mode # "off"
      /\ stream'.mode # "replay" => stream'.rest = <<>>
      /\ Ascending(stream'.rest) /\ ToSet(stream'.rest) \subseteq ToSet(event_log)
      /\ lastId = 0 => stream'.mode = "live"
      /\ lastId # 0 => /\ stream'.mode = "replay"
                       /\ \A e \in ToSet(event_log) : e.id > lastId => e \in ToSet(stream'.rest)
  <2>1. CASE lastId = 0
    <3>1. stream' = [mode |-> "live", rest |-> <<>>, shared |-> FALSE]
      BY <1>1, <2>1 DEF NewStream, NoStream
    <3> QED BY <2>1, <3>1, EmptyFacts DEF StreamRec
  <2>2. CASE lastId # 0
    <3>1. stream' = [mode |-> "replay", rest |-> Replayed(lastId), shared |-> TRUE]
      BY <1>1, <2>2 DEF NewStream
    <3>2. /\ Replayed(lastId) \in Seq(EventRec) /\ Ascending(Replayed(lastId))
          /\ ToSet(Replayed(lastId)) \subseteq ToSet(event_log)
          /\ \A e \in ToSet(event_log) : e.id > lastId => e \in ToSet(Replayed(lastId))
      BY <1>2, ReplayedFacts
    <3> QED BY <2>2, <3>1, <3>2 DEF StreamRec
  <2> QED BY <2>1, <2>2
<1>4. Typed'
  <2>1. retries' \in 0 .. SSE_RETRY_LIMIT /\ proxy' \in {"none", "connecting", "connected"}
    BY <1>1, EventsAssumption
  <2>2. replayed' \in BOOLEAN
    BY <1>1 DEF Typed
  <2> QED BY <1>1, <1>3, <2>1, <2>2 DEF Typed, worker, message
<1>5. Budget'
  BY <1>1 DEF Budget, Due, DueOfRun, worker, message
<1>6. Known' \subseteq Known
  BY <1>1, <1>3 DEF Known, worker
<1>7. IdInv'
  BY <1>1, <1>2, <1>3, <1>6 DEF IdInv, worker
<1>8. LinkInv'
  BY <1>1, <1>3 DEF LinkInv
<1>9. Missing' \subseteq Missing /\ (lastId = 0 => Missing' \subseteq Ids(queue))
  BY <1>1, <1>2 DEF Missing
<1>10. ASSUME NEW m \in Missing'
       PROVE  Coming(m)'
  <2>1. CASE lastId = 0
    BY <1>1, <1>3, <1>9, <2>1 DEF Coming, worker
  <2>2. CASE lastId # 0
    <3>1. m \in Ids(event_log) /\ lastId < m
      BY <1>9 DEF MissingInv
    <3>2. PICK e \in ToSet(event_log) : e.id = m
      BY <3>1 DEF Ids
    <3>3. e \in ToSet(stream'.rest)
      BY <1>2, <1>3, <2>2, <3>1, <3>2
    <3> QED BY <1>3, <2>2, <3>2, <3>3 DEF Coming, InReplay, Ids
  <2> QED BY <2>1, <2>2
<1>11. MissingInv'
  BY <1>1, <1>9, <1>10 DEF MissingInv, worker
<1>12. OrderInv'
  <2> SUFFICES ASSUME ~replayed' PROVE OrderInv'
    BY DEF OrderInv
  <2>1. ~replayed /\ stream'.mode = "live"
    BY <1>1, <1>3
  <2> QED BY <1>1, <2>1 DEF OrderInv, Before, worker
<1> QED BY <1>4, <1>5, <1>6, <1>7, <1>8, <1>11, <1>12

\* What the harness makes of an event is a harness again.
LEMMA HarnessFacts ==
  ASSUME NEW h \in Harness, NEW kind \in Event
  PROVE  on_worker_event(h, kind) \in Harness
<1>1. CASE kind \in Observed
  BY <1>1 DEF on_worker_event, Observed, record_observation, Harness
<1>2. CASE kind = "done"
  <2>1. on_worker_event(h, kind) = finish(evaluate(record_evidence(h)))
    BY <1>2 DEF on_worker_event, Observed
  <2>2. record_evidence(h) \in Harness
    BY DEF record_evidence, Harness
  <2>3. evaluate(record_evidence(h)) \in Harness
    BY <2>2 DEF evaluate, Harness
  <2> QED BY <2>1, <2>3 DEF finish, Harness
<1>3. CASE kind = "error"
  BY <1>3 DEF on_worker_event, Observed, record_error, Harness
<1>4. CASE kind = "other"
  BY <1>4 DEF on_worker_event, Observed
<1> QED BY <1>1, <1>2, <1>3, <1>4 DEF Event

LEMMA RetryFacts ==
  ASSUME Typed, Retry
  PROVE  /\ proxy' \in {"none", "connecting"} /\ retries' \in 0 .. SSE_RETRY_LIMIT
         /\ harness' \in Harness /\ row' \in {"ready", "running", "completed", "failed"}
         /\ completion_event' \in BOOLEAN /\ lapsed' \in BOOLEAN
<1>1. SSE_RETRY_LIMIT \in Nat /\ retries \in 0 .. SSE_RETRY_LIMIT /\ harness \in Harness
  BY EventsAssumption DEF Typed
<1>2. CASE retries + 1 > SSE_RETRY_LIMIT
  <2>1. on_worker_event(harness, "error") \in Harness
    BY <1>1, HarnessFacts DEF Event
  <2>2. CASE UNCHANGED <<lapsed, harness, row, completion_event>>
    BY <1>2, <2>2 DEF Retry, Typed
  <2>3. CASE lapsed' = TRUE /\ (Noted("error") \/ HalfNoted("error"))
    BY <1>2, <2>1, <2>3 DEF Retry, Noted, HalfNoted, Typed
  <2> QED BY <1>1, <1>2, <2>2, <2>3 DEF Retry
<1>3. CASE ~(retries + 1 > SSE_RETRY_LIMIT)
  BY <1>1, <1>3 DEF Retry, Typed
<1> QED BY <1>2, <1>3

\* The connection is given up: nothing is under way, and a block that was cut is
\* the next one.
LEMMA LoseStep ==
  ASSUME Delivery, proxy' \in {"none", "connecting"},
         wire' = <<>>, stream' = NoStream,
         \/ torn' \in {torn, NoEvent}
         \/ wire # <<>> /\ torn = NoEvent /\ torn' = Head(wire),
         UNCHANGED <<worker, lastId, history>>
  PROVE  /\ Known' \subseteq Known /\ IdInv' /\ LinkInv' /\ MissingInv' /\ OrderInv'
         /\ torn' \in EventRec \cup {NoEvent} /\ stream' \in StreamRec
         /\ wire' \in Seq(EventRec) /\ Len(wire') = 0
<1> USE DEF Delivery
<1>1. /\ stream' = [mode |-> "off", rest |-> <<>>, shared |-> FALSE]
      /\ wire \in Seq(EventRec) /\ torn \in EventRec \cup {NoEvent}
  BY DEF NoStream, Typed
<1>2. stream' \in StreamRec /\ wire' \in Seq(EventRec) /\ Len(wire') = 0
  BY <1>1, EmptyFacts DEF StreamRec
<1>3. ASSUME wire # <<>>
      PROVE  /\ Head(wire) \in EventRec /\ Head(wire) \in ToSet(wire)
             /\ \A m \in Nat : Timely(wire, m) => Head(wire).id <= m
  BY <1>1, <1>3, TailFacts
<1>4. torn' \in EventRec \cup {NoEvent}
  BY <1>1, <1>3
<1>5. Known' \subseteq Known
  BY <1>1, <1>3, EmptyFacts DEF Known, worker
<1>6. UNCHANGED <<Missing, Emitted>>
  BY DEF Missing, Emitted, worker, history
<1>7. IdInv'
  BY <1>1, <1>5, <1>6, EmptyFacts DEF IdInv, worker, history
<1>8. LinkInv'
  BY <1>1 DEF LinkInv
<1>9. MissingInv'
  <2>1. ASSUME NEW m \in Missing PROVE torn'.id <= m
    BY <1>3, MissingFacts, EventFacts DEF MissingInv
  <2> QED BY <1>6, <2>1, EmptyFacts DEF MissingInv, worker
<1>10. OrderInv'
  <2> SUFFICES ASSUME ~replayed PROVE OrderInv'
    BY DEF OrderInv, history
  <2>1. stream'.mode = "off" /\ ToSet(wire') = {} /\ Ascending(wire')
    BY <1>1, EmptyFacts
  <2>2. ASSUME NEW g \in got, torn' # NoEvent PROVE g < torn'.id
    BY <1>3, <2>2 DEF OrderInv
  <2>3. ASSUME NEW e \in ToSet(queue) PROVE torn'.id < e.id
    <3>1. e \in EventRec
      BY KnownFacts
    <3> QED BY <1>3, <3>1, EventFacts DEF OrderInv, Before
  <2> QED BY <2>1, <2>2, <2>3 DEF OrderInv, Before, worker, history
<1> QED BY <1>2, <1>4, <1>5, <1>7, <1>8, <1>9, <1>10

LEMMA BreakStep ==
  ASSUME Delivery, Break
  PROVE  Delivery' /\ Known' \subseteq Known
<1> USE DEF Delivery
<1>1. /\ proxy = "connected" /\ breaks < MaxBreaks /\ breaks' = breaks + 1 /\ stale' = stale + 1
      /\ Lose /\ Retry
      /\ UNCHANGED <<worker, lastId, turn, task, full, strayed, repeated, history>>
  BY DEF Break, MayBreak, Lose
<1>2. /\ proxy' \in {"none", "connecting"} /\ retries' \in 0 .. SSE_RETRY_LIMIT
      /\ harness' \in Harness /\ row' \in {"ready", "running", "completed", "failed"}
      /\ completion_event' \in BOOLEAN /\ lapsed' \in BOOLEAN
  BY <1>1, RetryFacts
<1>3. /\ wire' = <<>> /\ stream' = NoStream
      /\ \/ torn' \in {torn, NoEvent}
         \/ wire # <<>> /\ torn = NoEvent /\ torn' = Head(wire)
  <2>1. torn' \in {torn} \cup (IF wire # <<>> /\ torn = NoEvent THEN {Head(wire)} ELSE {})
    BY <1>1 DEF Lose
  <2>2. CASE wire # <<>> /\ torn = NoEvent
    BY <1>1, <2>1, <2>2 DEF Lose
  <2>3. CASE ~(wire # <<>> /\ torn = NoEvent)
    BY <1>1, <2>1, <2>3 DEF Lose
  <2> QED BY <2>2, <2>3
<1>4. /\ Known' \subseteq Known /\ IdInv' /\ LinkInv' /\ MissingInv' /\ OrderInv'
      /\ torn' \in EventRec \cup {NoEvent} /\ stream' \in StreamRec
      /\ wire' \in Seq(EventRec) /\ Len(wire') = 0
  BY <1>1, <1>2, <1>3, LoseStep
<1>5. /\ MaxBreaks \in Nat /\ WireCap \in Nat /\ breaks \in 0 .. MaxBreaks /\ stale \in Nat
      /\ breaks' \in 0 .. MaxBreaks /\ stale' \in Nat /\ stale' <= breaks'
  BY <1>1, EventsAssumption DEF Typed, Budget
<1>6. Typed'
  BY <1>1, <1>2, <1>4, <1>5 DEF Typed, worker, history
<1>7. Budget'
  <2>1. Due' = Due
    BY <1>1 DEF Due, DueOfRun, worker
  <2>2. Len(wire') <= WireCap
    BY <1>4, <1>5
  <2> QED BY <1>1, <1>5, <2>1, <2>2 DEF Budget, worker
<1> QED BY <1>4, <1>6, <1>7

LEMMA ConnectFailsStep ==
  ASSUME Delivery, ConnectFails
  PROVE  Delivery' /\ Known' \subseteq Known
<1> USE DEF Delivery
<1>1. /\ proxy = "connecting" /\ breaks < MaxBreaks /\ breaks' = breaks + 1 /\ Retry
      /\ UNCHANGED <<worker, stream, stale, wire, torn, lastId, turn, task, full, strayed,
                     repeated, history>>
  BY DEF ConnectFails, MayBreak
<1>2. /\ proxy' \in {"none", "connecting"} /\ retries' \in 0 .. SSE_RETRY_LIMIT
      /\ harness' \in Harness /\ row' \in {"ready", "running", "completed", "failed"}
      /\ completion_event' \in BOOLEAN /\ lapsed' \in BOOLEAN
  BY <1>1, RetryFacts
<1>3. /\ MaxBreaks \in Nat /\ breaks' \in 0 .. MaxBreaks /\ stale \in Nat /\ stale <= breaks'
  BY <1>1, EventsAssumption DEF Typed, Budget
<1>4. Typed'
  BY <1>1, <1>2, <1>3 DEF Typed, worker, history
<1>5. Budget'
  BY <1>1, <1>3 DEF Budget, Due, DueOfRun, worker
<1>6. Known' = Known /\ IdInv'
  BY <1>1 DEF Known, IdInv, Emitted, worker, history
<1>7. LinkInv'
  BY <1>1, <1>2 DEF LinkInv
<1>8. MissingInv'
  BY <1>1, <1>2 DEF MissingInv, Missing, Emitted, worker, history
<1>9. OrderInv'
  BY <1>1 DEF OrderInv, worker, history
<1> QED BY <1>4, <1>5, <1>6, <1>7, <1>8, <1>9

LEMMA StreamEndsStep ==
  ASSUME Delivery, StreamEnds
  PROVE  Delivery' /\ Known' \subseteq Known
<1> USE DEF Delivery
<1>1. /\ proxy = "connected" /\ wire = <<>> /\ stream' = NoStream /\ Retry
      /\ UNCHANGED <<worker, stale, wire, torn, lastId, breaks, turn, task, full, strayed,
                     repeated, history>>
  BY DEF StreamEnds
<1>2. /\ proxy' \in {"none", "connecting"} /\ retries' \in 0 .. SSE_RETRY_LIMIT
      /\ harness' \in Harness /\ row' \in {"ready", "running", "completed", "failed"}
      /\ completion_event' \in BOOLEAN /\ lapsed' \in BOOLEAN
  BY <1>1, RetryFacts
<1>3. wire' = <<>> /\ torn' \in {torn, NoEvent}
  BY <1>1
<1>4. /\ Known' \subseteq Known /\ IdInv' /\ LinkInv' /\ MissingInv' /\ OrderInv'
      /\ torn' \in EventRec \cup {NoEvent} /\ stream' \in StreamRec
      /\ wire' \in Seq(EventRec) /\ Len(wire') = 0
  BY <1>1, <1>2, <1>3, LoseStep
<1>5. Typed'
  BY <1>1, <1>2, <1>4 DEF Typed, worker, history
<1>6. Budget'
  BY <1>1 DEF Budget, Due, DueOfRun, worker
<1> QED BY <1>4, <1>5, <1>6

LEMMA ClientComesStep ==
  ASSUME Delivery, ClientComes
  PROVE  Delivery' /\ Known' \subseteq Known
<1> USE DEF Delivery
<1>1. /\ proxy = "none" /\ proxy' = "connecting" /\ retries' = 0 /\ torn' = NoEvent
      /\ lastId' \in {0, lastId}
      /\ UNCHANGED <<worker, stream, stale, wire, breaks, message, history>>
  BY DEF ClientComes
<1>2. lastId \in Nat /\ lastId' \in Nat /\ lastId' <= lastId /\ next_event_id \in Nat \ {0}
  BY <1>1 DEF Typed
<1>3. Typed'
  <2>1. retries' \in 0 .. SSE_RETRY_LIMIT
    BY <1>1, EventsAssumption
  <2> QED BY <1>1, <1>2, <2>1 DEF Typed, worker, message, history
<1>4. Budget'
  BY <1>1 DEF Budget, Due, DueOfRun, worker, message
<1>5. Known' \subseteq Known
  BY <1>1 DEF Known, worker
<1>6. UNCHANGED <<Missing, Emitted>>
  BY <1>1 DEF Missing, Emitted, worker, history
<1>7. IdInv'
  <2>1. lastId' < next_event_id
    BY <1>2 DEF IdInv
  <2> QED BY <1>1, <1>5, <1>6, <2>1 DEF IdInv, worker, history
<1>8. LinkInv'
  BY <1>1 DEF LinkInv
<1>9. MissingInv'
  <2>1. ASSUME NEW m \in Missing PROVE lastId' < m /\ torn'.id <= m
    BY <1>1, <1>2, MissingFacts, EventFacts DEF MissingInv
  <2> QED BY <1>1, <1>6, <2>1 DEF MissingInv, worker
<1>10. OrderInv'
  <2> SUFFICES ASSUME ~replayed PROVE OrderInv'
    BY <1>1 DEF OrderInv, history
  <2>1. ToSet(wire) \cup ToSet(queue) \subseteq EventRec
    BY KnownFacts
  <2> QED BY <1>1, <2>1, EventFacts DEF OrderInv, worker, history
<1> QED BY <1>3, <1>4, <1>5, <1>7, <1>8, <1>9, <1>10

LEMMA ClientLeavesStep ==
  ASSUME Delivery, ClientLeaves
  PROVE  Delivery' /\ Known' \subseteq Known
<1> USE DEF Delivery
<1>1. /\ breaks < MaxBreaks /\ breaks' = breaks + 1 /\ proxy' = "none" /\ torn' = NoEvent
      /\ wire' = <<>> /\ stream' = NoStream
      /\ stale' = stale + (IF proxy = "connected" THEN 1 ELSE 0)
      /\ UNCHANGED <<worker, lastId, retries, message, history>>
  BY DEF ClientLeaves, MayBreak
<1>2. /\ Known' \subseteq Known /\ IdInv' /\ LinkInv' /\ MissingInv' /\ OrderInv'
      /\ torn' \in EventRec \cup {NoEvent} /\ stream' \in StreamRec
      /\ wire' \in Seq(EventRec) /\ Len(wire') = 0
  <2>1. proxy' \in {"none", "connecting"} /\ torn' \in {torn, NoEvent}
    BY <1>1
  <2> QED BY <1>1, <2>1, LoseStep
<1>3. /\ MaxBreaks \in Nat /\ WireCap \in Nat /\ breaks \in 0 .. MaxBreaks /\ stale \in Nat
      /\ breaks' \in 0 .. MaxBreaks /\ stale' \in Nat /\ stale' <= breaks'
  BY <1>1, EventsAssumption DEF Typed, Budget
<1>4. Typed'
  BY <1>1, <1>2, <1>3 DEF Typed, worker, message, history
<1>5. Budget'
  <2>1. Due' = Due
    BY <1>1 DEF Due, DueOfRun, worker, message
  <2>2. Len(wire') <= WireCap
    BY <1>2, <1>3
  <2> QED BY <1>1, <1>3, <2>1, <2>2 DEF Budget, worker, message
<1> QED BY <1>2, <1>4, <1>5

\* The event was stored, or it was dropped and is excused.
Handled(e) ==
  \/ got' = got \cup {e.id} /\ excused' = excused
     /\ (tidy' <=> tidy /\ \A i \in got : i < e.id)
  \/ got' = got /\ (tidy' <=> tidy) /\ excused' = excused \cup {e.id}

LEMMA PersistFacts ==
  ASSUME Typed, Budget, NEW e \in EventRec, NEW kind \in Event, _persist_worker_event(e, kind)
  PROVE  /\ harness' \in Harness /\ row' \in {"ready", "running", "completed", "failed"}
         /\ completion_event' \in BOOLEAN /\ strayed' \in BOOLEAN /\ repeated' \in BOOLEAN
         /\ tidy' \in BOOLEAN /\ Handled(e)
         /\ breaks' \in 0 .. MaxBreaks /\ stale <= breaks'
<1>1. /\ on_worker_event(harness, kind) \in Harness /\ harness \in Harness
      /\ row \in {"ready", "running", "completed", "failed"} /\ completion_event \in BOOLEAN
      /\ strayed \in BOOLEAN /\ repeated \in BOOLEAN /\ tidy \in BOOLEAN
  BY HarnessFacts DEF Typed
<1>2. breaks' \in 0 .. MaxBreaks /\ stale <= breaks'
  BY EventsAssumption DEF _persist_worker_event, MayBreak, Typed, Budget
<1>3. CASE Stored(e) /\ (Noted(kind) \/ HalfNoted(kind))
  <2>1. strayed' \in BOOLEAN /\ repeated' \in BOOLEAN /\ tidy' \in BOOLEAN /\ Handled(e)
    BY <1>1, <1>3 DEF Stored, Handled
  <2>2. /\ harness' \in Harness /\ row' \in {"ready", "running", "completed", "failed"}
        /\ completion_event' \in BOOLEAN
    BY <1>1, <1>3 DEF Noted, HalfNoted
  <2> QED BY <1>2, <2>1, <2>2
<1>4. CASE Dropped(e)
  BY <1>1, <1>2, <1>4 DEF Dropped, Handled
<1> QED BY <1>3, <1>4 DEF _persist_worker_event

LEMMA DeliverStep ==
  ASSUME Delivery, Deliver
  PROVE  Delivery' /\ Known' \subseteq Known
<1> USE DEF Delivery
<1> DEFINE e == Head(wire)
<1>1. /\ proxy = "connected" /\ torn = NoEvent /\ wire # <<>> /\ wire \in Seq(EventRec)
      /\ _persist_worker_event(e, e.event)
      /\ lastId' = e.id /\ wire' = Tail(wire)
      /\ UNCHANGED <<worker, stream, stale, torn, proxy, retries, turn, task, full, lapsed,
                     replayed>>
  BY DEF Deliver, Typed
<1>2. /\ e \in EventRec /\ e \in ToSet(wire)
      /\ wire' \in Seq(EventRec) /\ Len(wire') = Len(wire) - 1
      /\ ToSet(wire) = {e} \cup ToSet(wire') /\ Ids(wire) = {e.id} \cup Ids(wire')
      /\ Ascending(wire) => Ascending(wire') /\ \A a \in ToSet(wire') : e.id < a.id
      /\ \A m \in Nat : Timely(wire, m) => /\ e.id <= m
                                           /\ e.id # m => Timely(wire', m)
  BY <1>1, TailFacts
<1> HIDE DEF e
<1>3. e.event \in Event /\ e.id \in Nat /\ e.id > 0 /\ e.id < next_event_id
  BY <1>2, EventFacts DEF IdInv, Known
<1>4. /\ harness' \in Harness /\ row' \in {"ready", "running", "completed", "failed"}
      /\ completion_event' \in BOOLEAN /\ strayed' \in BOOLEAN /\ repeated' \in BOOLEAN
      /\ tidy' \in BOOLEAN /\ Handled(e)
      /\ breaks' \in 0 .. MaxBreaks /\ stale <= breaks'
  BY <1>1, <1>2, <1>3, PersistFacts
<1>5. Typed'
  BY <1>1, <1>2, <1>3, <1>4 DEF Typed, worker
<1>6. Budget'
  <2>1. Due' = Due
    BY <1>1 DEF Due, DueOfRun, worker
  <2>2. Len(wire) \in Nat /\ WireCap \in Nat /\ Len(wire') <= WireCap
    BY <1>1, <1>2, EventsAssumption DEF Budget
  <2> QED BY <1>1, <1>4, <2>1, <2>2 DEF Budget, worker
<1>7. Known' \subseteq Known
  BY <1>1, <1>2 DEF Known, worker
<1>8. Emitted' = Emitted /\ e.id \in Emitted /\ Missing' = Missing \ {e.id}
  BY <1>1, <1>3, <1>4 DEF Emitted, Missing, Handled, Typed, worker
<1>9. IdInv'
  BY <1>1, <1>3, <1>4, <1>7, <1>8 DEF IdInv, Handled, worker
<1>10. LinkInv'
  BY <1>1 DEF LinkInv
<1>11. ASSUME NEW m \in Missing'
       PROVE  lastId' < m /\ Timely(wire', m) /\ Coming(m)'
  <2>1. m \in Missing /\ m # e.id /\ m \in Nat /\ Timely(wire, m) /\ Coming(m)
    BY <1>1, <1>8, MissingFacts DEF MissingInv
  <2>2. e.id < m /\ Timely(wire', m)
    BY <1>2, <1>3, <2>1
  <2>3. m \in Ids(wire) => m \in Ids(wire')
    BY <1>2, <2>1
  <2> QED BY <1>1, <2>1, <2>2, <2>3 DEF Coming, InReplay, worker
<1>12. MissingInv'
  BY <1>1, <1>8, <1>11 DEF MissingInv, worker
<1>13. OrderInv'
  <2> SUFFICES ASSUME ~replayed PROVE OrderInv'
    BY <1>1 DEF OrderInv
  <2>1. \A g \in got : g < e.id
    BY <1>2 DEF OrderInv
  <2>2. \A a \in ToSet(wire') \cup ToSet(queue) : e.id < a.id
    BY <1>2 DEF OrderInv, Before
  <2>3. /\ tidy' /\ Ascending(wire') /\ Before(wire', queue)
        /\ \A g \in got', a \in ToSet(wire') \cup ToSet(queue) : g < a.id
    BY <1>2, <1>4, <2>1, <2>2 DEF OrderInv, Before, Handled
  <2> QED BY <1>1, <1>2, <2>3 DEF OrderInv, worker
<1> QED BY <1>5, <1>6, <1>7, <1>9, <1>10, <1>12, <1>13

LEMMA DeliverTornStep ==
  ASSUME Delivery, DeliverTorn
  PROVE  Delivery' /\ Known' \subseteq Known
<1> USE DEF Delivery
<1>1. /\ proxy = "connected" /\ torn # NoEvent /\ torn' = NoEvent
      /\ \/ /\ \E kind \in {torn.event, "other"} : _persist_worker_event(torn, kind)
            /\ lastId' = torn.id
         \/ /\ lastId' \in {0, lastId}
            /\ UNCHANGED <<harness, row, completion_event, strayed, repeated, tidy, got, excused,
                           breaks>>
      /\ UNCHANGED <<worker, stream, stale, wire, proxy, retries, turn, task, full, lapsed,
                     replayed>>
  BY DEF DeliverTorn
<1>2. /\ torn \in EventRec /\ torn.event \in Event /\ "other" \in Event
      /\ torn.id \in Nat /\ torn.id > 0 /\ torn.id < next_event_id /\ lastId \in Nat
  BY <1>1, EventFacts DEF Typed, IdInv, Known, Event
<1>3. Known' \subseteq Known
  BY <1>1 DEF Known, worker
<1>4. ASSUME stale <= breaks' PROVE Budget'
  BY <1>1, <1>4 DEF Budget, Due, DueOfRun, worker
<1>5. LinkInv'
  BY <1>1 DEF LinkInv
<1>6. torn'.id = 0 /\ Emitted' = Emitted
  BY <1>1, EventFacts DEF Emitted, worker
<1>7. ASSUME NEW m \in Missing, Coming(m) PROVE Coming(m)'
  BY <1>1, <1>7 DEF Coming, InReplay, worker
<1>8. ASSUME NEW kind \in {torn.event, "other"}, _persist_worker_event(torn, kind),
             lastId' = torn.id
      PROVE  Delivery'
  <2>1. /\ harness' \in Harness /\ row' \in {"ready", "running", "completed", "failed"}
        /\ completion_event' \in BOOLEAN /\ strayed' \in BOOLEAN /\ repeated' \in BOOLEAN
        /\ tidy' \in BOOLEAN /\ Handled(torn)
        /\ breaks' \in 0 .. MaxBreaks /\ stale <= breaks'
    BY <1>2, <1>8, PersistFacts
  <2>2. Typed'
    BY <1>1, <1>2, <1>8, <2>1 DEF Typed, worker
  <2>3. torn.id \in Emitted /\ Missing' = Missing \ {torn.id}
    <3>1. torn.id \in Emitted
      BY <1>2 DEF Emitted, Typed
    <3>2. got' \cup excused' = got \cup excused \cup {torn.id} /\ Emitted' = Emitted
      BY <1>6, <2>1 DEF Handled
    <3> QED BY <3>1, <3>2 DEF Missing
  <2>4. IdInv'
    BY <1>1, <1>2, <1>3, <1>6, <1>8, <2>1, <2>3 DEF IdInv, Handled, worker
  <2>5. ASSUME NEW m \in Missing' PROVE lastId' < m
    <3>1. torn.id <= m /\ torn.id # m /\ m \in Nat
      BY <2>3, MissingFacts DEF MissingInv
    <3> QED BY <1>2, <1>8, <3>1
  <2>6. MissingInv'
    BY <1>1, <1>6, <1>7, <2>3, <2>5, MissingFacts DEF MissingInv, worker
  <2>7. OrderInv'
    <3> SUFFICES ASSUME ~replayed PROVE OrderInv'
      BY <1>1 DEF OrderInv
    <3>1. tidy' /\ \A g \in got', a \in ToSet(wire) \cup ToSet(queue) : g < a.id
      BY <1>1, <2>1 DEF OrderInv, Handled
    <3>2. \A a \in ToSet(wire) \cup ToSet(queue) : 0 < a.id
      BY KnownFacts, EventFacts
    <3> QED BY <1>1, <1>6, <3>1, <3>2 DEF OrderInv, worker
  <2> QED BY <1>4, <1>5, <2>1, <2>2, <2>4, <2>6, <2>7
<1>9. ASSUME lastId' \in {0, lastId},
             UNCHANGED <<harness, row, completion_event, strayed, repeated, tidy, got, excused,
                         breaks>>
      PROVE  Delivery'
  <2>1. Typed'
    BY <1>1, <1>2, <1>9 DEF Typed, worker
  <2>2. Missing' = Missing
    BY <1>1, <1>6, <1>9 DEF Missing
  <2>3. IdInv'
    BY <1>1, <1>2, <1>3, <1>6, <1>9 DEF IdInv, Typed, worker
  <2>4. ASSUME NEW m \in Missing PROVE lastId' < m
    BY <1>2, <1>9, MissingFacts DEF MissingInv
  <2>5. MissingInv'
    BY <1>1, <1>6, <1>7, <2>2, <2>4, MissingFacts DEF MissingInv, worker
  <2>6. OrderInv'
    <3>1. \A a \in ToSet(wire) \cup ToSet(queue) : 0 < a.id
      BY KnownFacts, EventFacts
    <3> QED BY <1>1, <1>6, <1>9, <3>1 DEF OrderInv, worker
  <2>7. Budget'
    BY <1>4, <1>9 DEF Budget
  <2> QED BY <1>5, <2>1, <2>3, <2>5, <2>6, <2>7
<1> QED BY <1>1, <1>3, <1>8, <1>9

\* Nothing changes in the log, the queue and on the way.
Quiet == UNCHANGED <<next_event_id, event_log, queue, link, history>>

LEMMA QuietStep ==
  ASSUME Delivery, Quiet
  PROVE  /\ UNCHANGED <<Known, Missing, Emitted>>
         /\ IdInv' /\ LinkInv' /\ MissingInv' /\ OrderInv'
<1>1. UNCHANGED <<Known, Missing, Emitted>>
  BY DEF Quiet, Known, Missing, Emitted, link, history
<1>2. IdInv' /\ LinkInv'
  BY <1>1 DEF Delivery, Quiet, IdInv, LinkInv, link, history
<1>3. MissingInv'
  BY <1>1 DEF Delivery, Quiet, MissingInv, Coming, InReplay, link, history
<1>4. OrderInv'
  BY <1>1 DEF Delivery, Quiet, OrderInv, link, history
<1> QED BY <1>1, <1>2, <1>3, <1>4

\* Events are emitted and nothing is taken from the queue.
Emission(t, kinds) ==
  /\ t \in 1 .. MaxTurns /\ kinds \in Seq(Event)
  /\ next_event_id - 1 + Len(kinds) <= 5 * MaxTurns /\ _emit(t, kinds)
  /\ UNCHANGED <<stale, wire, torn, proxy, lastId, retries, breaks, got, tidy, replayed>>

LEMMA EmissionStep ==
  ASSUME Delivery, NEW t, NEW kinds, Emission(t, kinds)
  PROVE  /\ Known' \subseteq Known \cup ToSet(New(t, kinds))
         /\ IdInv' /\ LinkInv' /\ MissingInv' /\ OrderInv'
         /\ event_log' \in Seq(EventRec) /\ Len(event_log') <= EVENT_LOG_MAX
         /\ queue' \in Seq(EventRec) /\ stream' \in StreamRec
         /\ next_event_id' = next_event_id + Len(kinds) /\ Len(kinds) \in Nat
<1> USE DEF Delivery
<1> DEFINE new == ToSet(New(t, kinds))
           newIds == Ids(New(t, kinds))
<1>1. /\ t \in 1 .. MaxTurns /\ kinds \in Seq(Event) /\ Len(kinds) \in Nat
      /\ next_event_id \in Nat \ {0} /\ next_event_id - 1 + Len(kinds) <= 5 * MaxTurns
      /\ _emit(t, kinds)
      /\ UNCHANGED <<stale, wire, torn, proxy, lastId, retries, breaks, got, tidy, replayed>>
  BY DEF Emission, Typed
<1>2. /\ newIds = next_event_id .. next_event_id + Len(kinds) - 1
      /\ new \subseteq EventRec
      /\ \A e \in new : e.id \in next_event_id .. next_event_id + Len(kinds) - 1
  BY <1>1, NewFacts, SetFacts
<1>3. /\ next_event_id' = next_event_id + Len(kinds)
      /\ event_log' \in Seq(EventRec) /\ Len(event_log') <= EVENT_LOG_MAX
      /\ ToSet(event_log') \subseteq ToSet(event_log) \cup new /\ Ascending(event_log')
      /\ queue' \in Seq(EventRec) /\ Ascending(queue')
      /\ ToSet(queue') = ToSet(queue) \cup new /\ Ids(queue') = Ids(queue) \cup newIds
      /\ stream' \in StreamRec
      /\ stream'.mode = stream.mode /\ Ascending(stream'.rest)
      /\ ToSet(stream.rest) \subseteq ToSet(stream'.rest)
      /\ ToSet(stream'.rest) \subseteq ToSet(stream.rest) \cup new
      /\ stream.mode # "replay" \/ ~stream.shared => stream' = stream
      /\ stream.mode = "replay" /\ stream.shared =>
           \A e \in new : \/ e \in ToSet(stream'.rest)
                          \/ ~stream'.shared /\ \A a \in ToSet(stream'.rest) : a.id < e.id
      /\ excused' = excused \cup ((Ids(event_log) \cup newIds) \ (Ids(event_log') \cup got))
  BY <1>1, EmitFacts
<1>4. newIds = {e.id : e \in new}
  BY DEF Ids
<1> HIDE DEF new, newIds
<1>5. Known' \subseteq Known \cup new
  BY <1>1, <1>3 DEF Known
<1>6. Emitted' = Emitted \cup newIds /\ Emitted \cap newIds = {}
  BY <1>1, <1>2, <1>3 DEF Emitted
<1>7. IdInv'
  <2>1. \A e \in Known' : e.id < next_event_id'
    <3>1. ASSUME NEW e \in new PROVE e.id < next_event_id'
      <4>1. next_event_id' = next_event_id + Len(kinds)
            /\ next_event_id \in Nat /\ Len(kinds) \in Nat
        BY <1>1, <1>3
      <4>2. e.id \in next_event_id .. next_event_id + Len(kinds) - 1
        BY <1>2, <3>1
      <4> QED BY <4>1, <4>2
    <3>2. ASSUME NEW e \in Known PROVE e.id < next_event_id'
      <4>1. e.id < next_event_id /\ e.id \in Nat
        BY KnownFacts DEF IdInv
      <4>2. next_event_id \in Nat /\ next_event_id' \in Nat /\ next_event_id <= next_event_id'
        BY <1>1, <1>3 DEF Typed
      <4> QED BY <4>1, <4>2
    <3> QED BY <1>5, <3>1, <3>2
  <2>2. lastId' < next_event_id'
    BY <1>1, <1>3 DEF IdInv, Typed
  <2>3. got' \subseteq Emitted'
    BY <1>1, <1>6 DEF IdInv
  <2>4. excused' \subseteq Emitted'
    <3>1. Ids(event_log) \subseteq Emitted
      <4>1. ASSUME NEW e \in ToSet(event_log) PROVE e.id \in Emitted
        <5>1. e \in Known
          BY DEF Known
        <5> QED BY <1>1, <5>1, KnownFacts DEF IdInv, Emitted
      <4> QED BY <4>1 DEF Ids
    <3> QED BY <1>3, <1>6, <3>1 DEF IdInv
  <2> QED BY <1>3, <2>1, <2>2, <2>3, <2>4 DEF IdInv
<1>8. LinkInv'
  BY <1>1, <1>3 DEF LinkInv
<1>9. ASSUME NEW m \in Missing'
      PROVE  m \in Ids(event_log')
  <2>1. m \in Missing \/ m \in newIds
    BY <1>1, <1>3, <1>6, <1>9 DEF Missing
  <2>2. m \in Ids(event_log) \cup newIds
    BY <2>1 DEF MissingInv
  <2> QED BY <1>1, <1>3, <1>9, <2>2 DEF Missing
<1>10. ASSUME NEW m \in Missing'
       PROVE  m \in Missing \/ m \in newIds
  BY <1>1, <1>3, <1>6, <1>10 DEF Missing
<1>11. ASSUME NEW m \in newIds
       PROVE  /\ m \in Nat /\ m >= next_event_id
              /\ \A e \in Known : e.id < m
              /\ lastId < m /\ torn.id <= m /\ Timely(wire, m)
  <2>1. m \in Nat /\ m >= next_event_id
    BY <1>1, <1>2
  <2>2. \A e \in Known : e.id < m
    BY <1>1, <2>1, KnownFacts DEF IdInv
  <2>3. lastId < m
    BY <1>1, <2>1 DEF IdInv, Typed
  <2>4. torn.id <= m
    <3>1. CASE torn = NoEvent
      BY <2>1, <3>1, EventFacts
    <3>2. CASE torn # NoEvent
      <4>1. torn \in Known
        BY <3>2 DEF Known
      <4>2. torn.id < m /\ torn.id \in Nat
        BY <2>2, <4>1, KnownFacts
      <4> QED BY <2>1, <4>2
    <3> QED BY <3>1, <3>2
  <2>5. Timely(wire, m)
    <3> SUFFICES ASSUME NEW i \in 1 .. Len(wire), wire[i].id > m PROVE FALSE
      BY DEF Timely
    <3>1. wire \in Seq(EventRec)
      BY DEF Typed
    <3>2. wire[i] \in Known
      BY <3>1 DEF Known, ToSet
    <3> QED BY <2>1, <2>2, <3>2, KnownFacts
  <2> QED BY <2>1, <2>2, <2>3, <2>4, <2>5
<1>12. ASSUME NEW m \in Missing', proxy = "connected"
       PROVE  Coming(m)'
  <2>1. CASE m \in Missing
    <3>1. Coming(m)
      BY <1>12, <2>1 DEF MissingInv
    <3>2. Ids(stream.rest) \subseteq Ids(stream'.rest)
      BY <1>3 DEF Ids
    <3>3. CASE InReplay(m) /\ m \notin Ids(stream.rest)
      <4>1. stream' = stream
        BY <1>3, <3>3 DEF InReplay
      <4> QED BY <1>3, <3>3, <4>1 DEF Coming, InReplay
    <3>4. CASE ~(InReplay(m) /\ m \notin Ids(stream.rest))
      BY <1>1, <1>3, <3>1, <3>2, <3>4 DEF Coming, InReplay
    <3> QED BY <3>3, <3>4
  <2>2. CASE m \in newIds
    <3>1. m \in Ids(queue')
      BY <1>3, <2>2
    <3>2. PICK e \in new : e.id = m
      BY <1>4, <2>2
    <3>3. CASE stream.mode = "replay" /\ stream.shared
      BY <1>3, <3>1, <3>2, <3>3 DEF Coming, InReplay, Ids
    <3>4. CASE stream.mode = "replay" /\ ~stream.shared
      <4>1. \A a \in ToSet(stream.rest) : a.id < m
        BY <1>11, <2>2 DEF Known
      <4> QED BY <1>3, <3>1, <3>4, <4>1 DEF Coming, InReplay
    <3>5. CASE stream.mode # "replay"
      <4>1. stream.mode \in {"live", "ended"}
        BY <1>12, <3>5 DEF LinkInv, Typed, StreamRec
      <4> QED BY <1>3, <3>1, <4>1 DEF Coming
    <3> QED BY <3>3, <3>4, <3>5
  <2> QED BY <1>10, <2>1, <2>2
<1>13. MissingInv'
  <2>1. ASSUME NEW m \in Missing' PROVE lastId < m /\ torn.id <= m /\ Timely(wire, m)
    BY <1>10, <1>11 DEF MissingInv
  <2> QED BY <1>1, <1>9, <1>12, <2>1 DEF MissingInv
<1>14. OrderInv'
  <2> SUFFICES ASSUME ~replayed PROVE OrderInv'
    BY <1>1 DEF OrderInv
  <2>1. ASSUME NEW e \in new
        PROVE  /\ torn.id < e.id /\ \A g \in got : g < e.id
               /\ \A a \in ToSet(wire) : a.id < e.id
    <3>1. e.id \in newIds /\ e.id >= next_event_id /\ e.id \in Nat
      BY <1>1, <1>2, <1>4
    <3>2. \A g \in got : g < e.id
      BY <1>1, <3>1 DEF IdInv, Emitted
    <3>3. \A a \in Known : a.id < e.id
      BY <1>11, <3>1
    <3>4. torn.id < e.id
      <4>1. CASE torn = NoEvent
        BY <1>1, <3>1, <4>1, EventFacts
      <4>2. CASE torn # NoEvent
        BY <3>3, <4>2 DEF Known
      <4> QED BY <4>1, <4>2
    <3> QED BY <3>2, <3>3, <3>4 DEF Known
  <2> QED BY <1>1, <1>3, <2>1 DEF OrderInv, Before
<1> QED BY <1>1, <1>3, <1>5, <1>7, <1>8, <1>13, <1>14 DEF new

-----------------------------------------------------------------------------
(* The messages: what their events say. *)

\* What these invariants say of the message.
said == <<turn, task, completion_event, harness, row, strayed, repeated, lapsed>>

LEMMA KeepStep ==
  ASSUME Messages, UNCHANGED <<run, serving, status, said, got>>, Known' \subseteq Known
  PROVE  Messages'
<1>1. TurnInv'
  BY DEF Messages, TurnInv, said
<1>2. KnownInv' /\ OneDone'
  BY DEF Messages, KnownInv, OneDone, Ended, said
<1>3. OutcomeInv'
  BY DEF Messages, OutcomeInv, OutcomeIsRight, Ended, Verdict, said
<1>4. JudgeInv'
  BY DEF Messages, JudgeInv, Ended, said
<1> QED BY <1>1, <1>2, <1>3, <1>4 DEF Messages

LEMMA RetryStep ==
  ASSUME Messages, Typed, Retry, Known' \subseteq Known,
         UNCHANGED <<run, serving, status, turn, task, strayed, repeated, got>>
  PROVE  Messages'
<1>1. \/ lapsed'
      \/ UNCHANGED <<lapsed, harness, row, completion_event>>
  BY DEF Retry
<1>2. lapsed => lapsed'
  BY <1>1
<1>3. TurnInv'
  BY <1>2 DEF Messages, TurnInv
<1>4. KnownInv' /\ OneDone'
  BY <1>2 DEF Messages, KnownInv, OneDone, Ended
<1>5. OutcomeInv'
  BY <1>1 DEF Messages, OutcomeInv, OutcomeIsRight, Ended, Verdict
<1>6. JudgeInv'
  BY <1>1 DEF Messages, JudgeInv, Ended
<1> QED BY <1>3, <1>4, <1>5, <1>6 DEF Messages

\* The harness took the event, or it was a block that did not get there; the row
\* and the task took it as well, or an exception came first.
LEMMA StoredStep ==
  ASSUME Messages, Typed, NEW e \in Known, NEW kind \in {e.event, "other"},
         Stored(e), Noted(kind) \/ HalfNoted(kind), Known' \subseteq Known,
         UNCHANGED <<run, serving, status, turn, task, lapsed>>
  PROVE  Messages'
<1> USE DEF Messages
<1>1. /\ \/ harness' = on_worker_event(harness, kind)
         \/ kind = "block" /\ harness' = harness
      /\ \/ kind = "done" /\ row' = "completed"
         \/ kind = "error" /\ row' = "failed"
         \/ row' = row /\ (completion_event' <=> completion_event)
      /\ strayed' = (strayed \/ e.turn # turn)
      /\ repeated' = (repeated \/ e.id \in got)
      /\ got' = got \cup {e.id}
      /\ harness \in Harness /\ e \in EventRec /\ e.event \in Event
  <2>1. harness \in Harness /\ e \in EventRec /\ e.event \in Event /\ completion_event \in BOOLEAN
    BY KnownFacts, EventFacts DEF Typed
  <2>2. CASE Noted(kind)
    <3>1. CASE kind = "done"
      BY <2>1, <2>2, <3>1 DEF Stored, Noted
    <3>2. CASE kind = "error"
      BY <2>1, <2>2, <3>2 DEF Stored, Noted
    <3>3. CASE kind # "done" /\ kind # "error"
      BY <2>1, <2>2, <3>3 DEF Stored, Noted
    <3> QED BY <3>1, <3>2, <3>3
  <2>3. CASE HalfNoted(kind)
    BY <2>1, <2>3 DEF Stored, HalfNoted
  <2> QED BY <2>2, <2>3
<1>2. TurnInv'
  BY DEF TurnInv
<1>3. KnownInv' /\ OneDone'
  BY DEF KnownInv, OneDone, Ended
<1>4. /\ kind = "done" /\ ~strayed' => Ended("done")
      /\ kind = "error" /\ ~strayed' /\ ~lapsed => Ended("error")
  BY <1>1 DEF KnownInv
<1>5. OutcomeInv'
  <2> SUFFICES ASSUME ~strayed', ~lapsed'
               PROVE  /\ completion_event' =>
                           (Ended("done") \/ Ended("error")) /\ row' = Verdict
                      /\ row' = "failed" => Ended("error")
                      /\ turn > 0 /\ task = "none" => run = "off" /\ row' = Verdict
    BY DEF OutcomeInv, OutcomeIsRight, Ended, Verdict
  <2>1. ~strayed /\ ~lapsed
    BY <1>1
  <2>2. CASE kind = "done" /\ row' = "completed"
    BY <1>4, <2>1, <2>2 DEF Ended, Verdict
  <2>3. CASE kind = "error" /\ row' = "failed"
    BY <1>4, <2>1, <2>3 DEF Ended, Verdict
  <2>4. CASE row' = row /\ (completion_event' <=> completion_event)
    BY <2>1, <2>4 DEF OutcomeInv, OutcomeIsRight, Verdict
  <2> QED BY <1>1, <2>2, <2>3, <2>4
<1>6. JudgeInv'
  <2> SUFFICES ASSUME ~strayed', ~repeated', ~lapsed'
               PROVE  /\ harness'.evidence =>
                           /\ Ended("done")
                           /\ \A d \in Known' : d.turn = turn /\ d.event = "done" => d.id \in got'
                      /\ harness'.final = "completed" =>
                           harness'.evidence /\ harness'.gates = "passed" /\ row' # "failed"
    BY DEF JudgeInv, Ended
  <2>1. ~strayed /\ ~repeated /\ ~lapsed /\ e.turn = turn /\ e.id \notin got
    BY <1>1
  <2>2. CASE kind = "done"
    <3>1. e.event = "done" /\ Ended("done") /\ row' # "failed"
      <4>1. e.event = "done" /\ Ended("done")
        BY <1>4, <2>2
      <4>2. row # "failed"
        BY <2>1, <4>1 DEF OutcomeInv, Ended
      <4> QED BY <1>1, <2>2, <4>1, <4>2
    <3>2. ~harness.evidence
      BY <2>1, <3>1 DEF JudgeInv
    <3>3. harness' = finish(evaluate(record_evidence(harness)))
      BY <1>1, <2>2 DEF on_worker_event, Observed
    <3>4. record_evidence(harness) = [harness EXCEPT !.evidence = TRUE, !.phase = "evaluation"]
      BY <3>2 DEF record_evidence
    <3>5. harness'.evidence /\ harness'.gates = "passed"
      BY <1>1, <3>3, <3>4 DEF finish, evaluate, GatesPass, Harness
    <3>6. \A d \in Known' : d.turn = turn /\ d.event = "done" => d.id \in got'
      BY <1>1, <2>1, <3>1 DEF OneDone
    <3> QED BY <3>1, <3>5, <3>6
  <2>3. CASE kind = "error"
    <3>1. harness'.final = "failed" /\ harness'.evidence = harness.evidence
      BY <1>1, <2>3 DEF on_worker_event, Observed, record_error, Harness
    <3> QED BY <1>1, <2>1, <3>1 DEF JudgeInv
  <2>4. CASE kind \notin {"done", "error"}
    <3>1. /\ harness'.final = harness.final /\ harness'.evidence = harness.evidence
          /\ harness'.gates = harness.gates
      <4>1. harness' \in {harness, record_observation(harness)}
        BY <1>1, <2>4 DEF on_worker_event, Event, Observed
      <4> QED BY <1>1, <4>1 DEF record_observation, Harness
    <3>2. row' = row
      <4>1. kind # "done" /\ kind # "error"
        BY <2>4
      <4> QED BY <1>1, <4>1
    <3> QED BY <1>1, <2>1, <3>1, <3>2 DEF JudgeInv
  <2> QED BY <2>2, <2>3, <2>4
<1> QED BY <1>2, <1>3, <1>5, <1>6

LEMMA PersistStep ==
  ASSUME Messages, Typed, NEW e \in Known, NEW kind \in {e.event, "other"},
         _persist_worker_event(e, kind), Known' \subseteq Known,
         UNCHANGED <<run, serving, status, turn, task, lapsed>>
  PROVE  Messages'
<1>1. CASE Stored(e) /\ (Noted(kind) \/ HalfNoted(kind))
  BY <1>1, StoredStep
<1>2. CASE Dropped(e)
  <2>1. UNCHANGED <<run, serving, status, said, got>>
    BY <1>2 DEF Dropped, said
  <2> QED BY <2>1, KeepStep
<1> QED BY <1>1, <1>2 DEF _persist_worker_event

\* The steps of the message and its task that emit nothing.
LEMMA TaskStep ==
  ASSUME IInv, Post \/ TaskWakes \/ PollFinds \/ WorkerTakes
  PROVE  IInv'
<1> USE DEF IInv, Delivery, Messages
<1>1. Quiet
  BY DEF Quiet, Post, TaskWakes, PollFinds, WorkerTakes, worker
<1>2. /\ UNCHANGED <<Known, Missing, Emitted>>
      /\ IdInv' /\ LinkInv' /\ MissingInv' /\ OrderInv'
  BY <1>1, QuietStep
<1>3. /\ MaxTurns \in Nat /\ turn \in 0 .. MaxTurns /\ serving \in 0 .. MaxTurns
      /\ next_event_id \in Nat \ {0} /\ status \in {"idle", "running", "done", "error"}
      /\ run \in {"off", "started", "tool"} /\ task \in {"none", "posting", "waiting"}
      /\ \A e \in Known : e.turn \in Nat /\ e.turn > 0
  BY EventsAssumption, KnownFacts DEF Typed
<1>4. Typed' /\ Budget' =>
        (TurnInv' /\ KnownInv' /\ OneDone' /\ OutcomeInv' /\ JudgeInv' => IInv')
  BY <1>2
<1>5. CASE Post
  <2>1. /\ task = "none" /\ turn < MaxTurns /\ turn' = turn + 1 /\ task' = "posting"
        /\ row' = "running" /\ harness' = create /\ completion_event' = FALSE
        /\ strayed' = FALSE /\ repeated' = FALSE /\ lapsed' = FALSE
        /\ UNCHANGED <<worker, link, full, history>>
    BY <1>5 DEF Post, MayPost
  <2>2. Typed'
    <3>1. harness' \in Harness /\ turn' \in 0 .. MaxTurns
      BY <1>3, <2>1 DEF create, Harness
    <3> QED BY <2>1, <3>1 DEF Typed, worker, link, history
  <2>3. Budget'
    <3>1. UNCHANGED <<next_event_id, run, stale, breaks, event_log, wire>>
      BY <2>1 DEF worker, link
    <3>2. DueOfRun' = DueOfRun /\ DueOfRun \in Nat
      BY <1>3, <3>1 DEF DueOfRun
    <3>3. Due = DueOfRun /\ Due' = DueOfRun + 5
      BY <2>1, <3>2 DEF Due
    <3>4. next_event_id' - 1 + Due' <= 5 * turn'
      <4>1. next_event_id - 1 + DueOfRun <= 5 * turn
        BY <3>3 DEF Budget
      <4>2. turn \in Nat /\ 5 * turn' = 5 * turn + 5 /\ 5 * turn \in Nat
        BY <1>3, <2>1
      <4> QED BY <1>3, <3>1, <3>2, <3>3, <4>1, <4>2
    <3> QED BY <3>1, <3>4 DEF Budget
  <2>4. TurnInv'
    BY <1>3, <2>1 DEF TurnInv, worker
  <2>5. \A e \in Known' : e.turn < turn'
    BY <1>2, <1>3, <2>1 DEF KnownInv
  <2>6. KnownInv' /\ OneDone'
    BY <1>2, <1>3, <2>1, <2>5 DEF KnownInv, OneDone
  <2>7. OutcomeInv' /\ JudgeInv'
    BY <2>1 DEF OutcomeInv, OutcomeIsRight, JudgeInv, create
  <2> QED BY <1>4, <2>2, <2>3, <2>4, <2>6, <2>7
<1>6. CASE TaskWakes
  <2>1. /\ task = "waiting" /\ completion_event /\ task' = "none"
        /\ UNCHANGED <<worker, link, turn, completion_event, harness, row, full, strayed,
                       repeated, lapsed, history>>
    BY <1>6 DEF TaskWakes
  <2>2. Typed' /\ Budget'
    BY <2>1 DEF Typed, Budget, Due, DueOfRun, worker, link, history
  <2>3. TurnInv'
    BY <2>1 DEF TurnInv, worker
  <2>4. KnownInv' /\ OneDone'
    BY <1>2, <2>1 DEF KnownInv, OneDone, Ended, worker
  <2>5. OutcomeInv'
    BY <2>1 DEF OutcomeInv, OutcomeIsRight, Ended, Verdict, worker
  <2>6. JudgeInv'
    BY <1>2, <2>1 DEF JudgeInv, Ended, worker, history
  <2> QED BY <1>4, <2>2, <2>3, <2>4, <2>5, <2>6
<1>7. CASE PollFinds
  <2>1. /\ task = "waiting" /\ ~completion_event /\ run = "off"
        /\ row' = (IF status = "error" THEN "failed" ELSE "completed") /\ task' = "none"
        /\ UNCHANGED <<worker, link, turn, completion_event, harness, full, strayed,
                       repeated, lapsed, history>>
    BY <1>7 DEF PollFinds
  <2>2. Typed' /\ Budget'
    BY <2>1 DEF Typed, Budget, Due, DueOfRun, worker, link, history
  <2>3. TurnInv'
    BY <2>1 DEF TurnInv, worker
  <2>4. KnownInv' /\ OneDone'
    BY <1>2, <2>1 DEF KnownInv, OneDone, Ended, worker
  <2>5. serving = turn /\ status # "running" /\ (turn > 0 => status \in {"done", "error"})
    BY <1>3, <2>1 DEF TurnInv
  <2>6. OutcomeInv'
    BY <2>1, <2>5 DEF OutcomeInv, OutcomeIsRight, Ended, worker
  <2>7. JudgeInv'
    BY <1>2, <2>1, <2>5 DEF JudgeInv, Ended, worker, history
  <2> QED BY <1>4, <2>2, <2>3, <2>4, <2>6, <2>7
<1>8. CASE WorkerTakes
  <2>1. /\ task = "posting" /\ run = "off"
        /\ run' = "started" /\ serving' = turn /\ status' = "running"
        /\ \/ task' = "waiting" /\ UNCHANGED <<row, lapsed>>
           \/ task' = "none" /\ row' = "failed" /\ lapsed' = TRUE
        /\ UNCHANGED <<next_event_id, event_log, queue, link, turn, completion_event,
                       harness, full, strayed, repeated, history>>
    BY <1>8 DEF WorkerTakes
  <2>2. Typed'
    <3>1. /\ run' \in {"off", "started", "tool"} /\ serving' \in 0 .. MaxTurns
          /\ status' \in {"idle", "running", "done", "error"}
      BY <1>3, <2>1
    <3>2. /\ task' \in {"none", "posting", "waiting"} /\ lapsed' \in BOOLEAN
          /\ row' \in {"ready", "running", "completed", "failed"}
      BY <2>1 DEF Typed
    <3> QED BY <2>1, <3>1, <3>2 DEF Typed, link, history
  <2>3. Budget'
    BY <1>3, <2>1 DEF Budget, Due, DueOfRun, link
  <2>4. serving < turn /\ turn > 0
    BY <1>3, <2>1 DEF TurnInv
  <2>5. TurnInv'
    BY <1>3, <2>1, <2>4 DEF TurnInv
  <2>6. KnownInv' /\ OneDone'
    BY <1>2, <1>3, <2>1 DEF KnownInv, OneDone
  <2>7. /\ ~(Ended("done") \/ Ended("error"))
        /\ lapsed' \/ (task' # "none" /\ lapsed' = lapsed)
    BY <1>3, <2>1, <2>4 DEF Ended
  <2>8. OutcomeInv'
    BY <2>1, <2>7 DEF OutcomeInv, OutcomeIsRight
  <2>9. JudgeInv'
    BY <1>2, <2>1, <2>7 DEF JudgeInv
  <2> QED BY <1>4, <2>2, <2>3, <2>5, <2>6, <2>8, <2>9
<1> QED BY <1>5, <1>6, <1>7, <1>8

LEMMA WorkerRefusesStep ==
  ASSUME IInv, WorkerRefuses
  PROVE  IInv'
<1> USE DEF IInv, Delivery, Messages
<1>1. /\ task = "posting" /\ task' = "none" /\ row' = "failed" /\ lapsed' = TRUE
      /\ \/ UNCHANGED <<next_event_id, event_log, queue, stream, excused>>
         \/ _emit(turn, <<"error">>)
      /\ UNCHANGED <<run, serving, status, stale, wire, torn, proxy, lastId, retries, breaks,
                     turn, completion_event, harness, full, strayed, repeated, got, tidy,
                     replayed>>
  BY DEF WorkerRefuses
<1>2. /\ MaxTurns \in Nat /\ turn \in 0 .. MaxTurns /\ serving \in 0 .. MaxTurns
      /\ next_event_id \in Nat \ {0} /\ serving < turn
      /\ \A e \in Known : e.turn \in Nat /\ e.turn > 0 /\ e.turn < turn
  BY <1>1, EventsAssumption, KnownFacts DEF Typed, TurnInv, KnownInv
<1>3. next_event_id + 4 <= 5 * turn /\ Due' = Due - 5 /\ Due \in Nat
  <2>1. DueOfRun' = DueOfRun /\ DueOfRun \in Nat
    BY <1>1 DEF DueOfRun, Typed
  <2>2. Due = DueOfRun + 5 /\ Due' = DueOfRun
    BY <1>1, <2>1 DEF Due
  <2> QED BY <1>1, <1>2, <2>1, <2>2 DEF Budget
<1>4. TurnInv'
  BY <1>1 DEF TurnInv
<1>5. OutcomeInv' /\ JudgeInv'
  BY <1>1 DEF OutcomeInv, OutcomeIsRight, JudgeInv
<1>6. CASE UNCHANGED <<next_event_id, event_log, queue, stream, excused>>
  <2>1. /\ Known' = Known /\ IdInv' /\ LinkInv' /\ MissingInv' /\ OrderInv'
    <3>1. Quiet
      BY <1>1, <1>6 DEF Quiet, link, history
    <3> QED BY <3>1, QuietStep
  <2>2. Typed'
    BY <1>1, <1>6 DEF Typed
  <2>3. Budget'
    BY <1>1, <1>2, <1>3, <1>6 DEF Budget
  <2>4. KnownInv' /\ OneDone'
    BY <1>1, <1>2, <2>1 DEF KnownInv, OneDone
  <2> QED BY <1>4, <1>5, <2>1, <2>2, <2>3, <2>4
<1>7. CASE _emit(turn, <<"error">>)
  <2> DEFINE kinds == <<"error">>
  <2>1. kinds \in Seq(Event) /\ Len(kinds) = 1 /\ kinds[1] = "error"
    BY DEF Event
  <2>2. turn \in 1 .. MaxTurns /\ next_event_id - 1 + 1 <= 5 * MaxTurns
    BY <1>2, <1>3
  <2> HIDE DEF kinds
  <2>3. Emission(turn, kinds)
    BY <1>1, <1>7, <2>1, <2>2 DEF Emission, kinds
  <2>4. /\ Known' \subseteq Known \cup ToSet(New(turn, kinds))
        /\ IdInv' /\ LinkInv' /\ MissingInv' /\ OrderInv'
        /\ event_log' \in Seq(EventRec) /\ Len(event_log') <= EVENT_LOG_MAX
        /\ queue' \in Seq(EventRec) /\ stream' \in StreamRec
        /\ next_event_id' = next_event_id + Len(kinds)
    BY <2>3, EmissionStep
  <2>5. \A e \in ToSet(New(turn, kinds)) : e.turn = turn /\ e.event = "error"
    <3>1. \A e \in ToSet(New(turn, kinds)) :
            e.turn = turn /\ \E k \in 1 .. Len(kinds) : e.event = kinds[k]
      <4>1. /\ next_event_id - 1 + Len(kinds) <= 5 * MaxTurns
            /\ next_event_id \in Nat \ {0} /\ turn \in 1 .. MaxTurns /\ kinds \in Seq(Event)
        BY <1>2, <2>1, <2>2
      <4> QED BY <4>1, NewFacts
    <3> QED BY <2>1, <3>1
  <2>6. Typed'
    BY <1>1, <1>2, <2>1, <2>4 DEF Typed
  <2>7. Budget'
    BY <1>1, <1>2, <1>3, <2>1, <2>4 DEF Budget
  <2>8. KnownInv' /\ OneDone'
    BY <1>1, <1>2, <2>4, <2>5 DEF KnownInv, OneDone
  <2> QED BY <1>4, <1>5, <2>4, <2>6, <2>7, <2>8
<1> QED BY <1>1, <1>6, <1>7

\* The kinds of events of one step of a turn: done and error end it.
RunKinds(kinds) ==
  /\ Emission(serving, kinds) /\ Len(kinds) + DueOfRun' <= DueOfRun
  /\ run' \in {"tool", "off"} /\ (run' = "tool" => status' = status)
  /\ run' = "off" => status' \in {"done", "error"}
  /\ \A k \in 1 .. Len(kinds) :
       /\ kinds[k] = "done" => /\ run' = "off" /\ status' = "done"
                               /\ \A j \in 1 .. Len(kinds) : kinds[j] = "done" => j = k
       /\ kinds[k] = "error" => run' = "off" /\ status' = "error"

LEMMA RunFacts ==
  ASSUME Typed, Budget, TurnInv, RunStep
  PROVE  run # "off" /\ \E kinds : RunKinds(kinds)
<1>1. /\ MaxTurns \in Nat /\ turn \in 0 .. MaxTurns /\ serving \in 0 .. MaxTurns
      /\ next_event_id \in Nat \ {0} /\ task \in {"none", "posting", "waiting"}
      /\ UNCHANGED <<serving, stale, wire, torn, proxy, lastId, retries, breaks, message,
                     got, tidy, replayed>>
  BY EventsAssumption DEF Typed, RunStep
<1>2. run # "off"
  BY DEF RunStep
<1>3. serving \in 1 .. MaxTurns
  BY <1>1, <1>2 DEF TurnInv
<1>4. DueOfRun \in Nat /\ next_event_id - 1 + DueOfRun <= 5 * MaxTurns
  <2>1. DueOfRun \in Nat
    BY DEF DueOfRun, Typed
  <2>2. Due >= DueOfRun /\ Due \in Nat
    BY <2>1 DEF Due
  <2> QED BY <1>1, <2>1, <2>2 DEF Budget
<1>5. ASSUME NEW kinds \in Seq(Event), _emit(serving, kinds), Len(kinds) <= DueOfRun
      PROVE  Emission(serving, kinds)
  BY <1>1, <1>3, <1>4, <1>5 DEF Emission
<1>6. CASE /\ run = "started" /\ run' = "tool" /\ UNCHANGED status
           /\ _emit(serving, <<"user_message", "block">>)
  <2> DEFINE kinds == <<"user_message", "block">>
  <2>1. /\ kinds \in Seq(Event) /\ Len(kinds) = 2
        /\ \A k \in 1 .. 2 : kinds[k] \notin {"done", "error"}
    BY DEF Event, Observed
  <2>2. DueOfRun = 4 /\ DueOfRun' = 2
    BY <1>6 DEF DueOfRun
  <2>3. _emit(serving, kinds)
    BY <1>6
  <2> HIDE DEF kinds
  <2>4. Emission(serving, kinds)
    <3>1. kinds \in Seq(Event) /\ Len(kinds) <= DueOfRun
      BY <2>1, <2>2
    <3> QED BY <1>5, <2>3, <3>1
  <2>5. RunKinds(kinds)
    BY <1>6, <2>1, <2>2, <2>4 DEF RunKinds
  <2> QED BY <1>2, <2>5
<1>7. CASE /\ run = "started" /\ run' = "off" /\ status' = "done"
           /\ _emit(serving, <<"user_message", "done", "block">>)
  <2> DEFINE kinds == <<"user_message", "done", "block">>
  <2>1. /\ kinds \in Seq(Event) /\ Len(kinds) = 3
        /\ \A k \in 1 .. 3 : kinds[k] # "error" /\ (kinds[k] = "done" => k = 2)
    BY DEF Event, Observed
  <2>2. DueOfRun = 4 /\ DueOfRun' = 0
    BY <1>7 DEF DueOfRun
  <2>3. _emit(serving, kinds)
    BY <1>7
  <2> HIDE DEF kinds
  <2>4. Emission(serving, kinds)
    <3>1. kinds \in Seq(Event) /\ Len(kinds) <= DueOfRun
      BY <2>1, <2>2
    <3> QED BY <1>5, <2>3, <3>1
  <2>5. RunKinds(kinds)
    BY <1>7, <2>1, <2>2, <2>4 DEF RunKinds
  <2> QED BY <1>2, <2>5
<1>8. CASE /\ run = "started" /\ run' = "off" /\ status' = "error"
           /\ _emit(serving, <<"user_message", "error">>)
  <2> DEFINE kinds == <<"user_message", "error">>
  <2>1. /\ kinds \in Seq(Event) /\ Len(kinds) = 2
        /\ \A k \in 1 .. 2 : kinds[k] # "done"
    BY DEF Event, Observed
  <2>2. DueOfRun = 4 /\ DueOfRun' = 0
    BY <1>8 DEF DueOfRun
  <2>3. _emit(serving, kinds)
    BY <1>8
  <2> HIDE DEF kinds
  <2>4. Emission(serving, kinds)
    <3>1. kinds \in Seq(Event) /\ Len(kinds) <= DueOfRun
      BY <2>1, <2>2
    <3> QED BY <1>5, <2>3, <3>1
  <2>5. RunKinds(kinds)
    BY <1>8, <2>1, <2>2, <2>4 DEF RunKinds
  <2> QED BY <1>2, <2>5
<1>9. CASE /\ run = "tool" /\ run' = "off" /\ status' = "done"
           /\ _emit(serving, <<"done", "block">>)
  <2> DEFINE kinds == <<"done", "block">>
  <2>1. /\ kinds \in Seq(Event) /\ Len(kinds) = 2
        /\ \A k \in 1 .. 2 : kinds[k] # "error" /\ (kinds[k] = "done" => k = 1)
    BY DEF Event, Observed
  <2>2. DueOfRun = 2 /\ DueOfRun' = 0
    BY <1>9 DEF DueOfRun
  <2>3. _emit(serving, kinds)
    BY <1>9
  <2> HIDE DEF kinds
  <2>4. Emission(serving, kinds)
    <3>1. kinds \in Seq(Event) /\ Len(kinds) <= DueOfRun
      BY <2>1, <2>2
    <3> QED BY <1>5, <2>3, <3>1
  <2>5. RunKinds(kinds)
    BY <1>9, <2>1, <2>2, <2>4 DEF RunKinds
  <2> QED BY <1>2, <2>5
<1>10. CASE /\ run = "tool" /\ run' = "off" /\ status' = "error"
            /\ _emit(serving, <<"error", "block">>)
  <2> DEFINE kinds == <<"error", "block">>
  <2>1. /\ kinds \in Seq(Event) /\ Len(kinds) = 2
        /\ \A k \in 1 .. 2 : kinds[k] # "done"
    BY DEF Event, Observed
  <2>2. DueOfRun = 2 /\ DueOfRun' = 0
    BY <1>10 DEF DueOfRun
  <2>3. _emit(serving, kinds)
    BY <1>10
  <2> HIDE DEF kinds
  <2>4. Emission(serving, kinds)
    <3>1. kinds \in Seq(Event) /\ Len(kinds) <= DueOfRun
      BY <2>1, <2>2
    <3> QED BY <1>5, <2>3, <3>1
  <2>5. RunKinds(kinds)
    BY <1>10, <2>1, <2>2, <2>4 DEF RunKinds
  <2> QED BY <1>2, <2>5
<1> QED BY <1>6, <1>7, <1>8, <1>9, <1>10 DEF RunStep

LEMMA RunStepStep ==
  ASSUME IInv, RunStep
  PROVE  IInv'
<1> USE DEF IInv, Delivery, Messages
<1>1. run # "off" /\ \E kinds : RunKinds(kinds)
  BY RunFacts
<1>2. PICK kinds : RunKinds(kinds)
  BY <1>1
<1> DEFINE new == ToSet(New(serving, kinds))
<1>3. UNCHANGED <<serving, stale, wire, torn, proxy, lastId, retries, breaks, message,
                  got, tidy, replayed>>
  BY DEF RunStep
<1>4. /\ Emission(serving, kinds) /\ Len(kinds) + DueOfRun' <= DueOfRun
      /\ run' \in {"tool", "off"} /\ (run' = "tool" => status' = status)
      /\ run' = "off" => status' \in {"done", "error"}
  BY <1>2 DEF RunKinds
<1>5. \A k \in 1 .. Len(kinds) :
        /\ kinds[k] = "done" => /\ run' = "off" /\ status' = "done"
                                /\ \A j \in 1 .. Len(kinds) : kinds[j] = "done" => j = k
        /\ kinds[k] = "error" => run' = "off" /\ status' = "error"
  BY <1>2 DEF RunKinds
<1>6. /\ Known' \subseteq Known \cup new
      /\ IdInv' /\ LinkInv' /\ MissingInv' /\ OrderInv'
      /\ event_log' \in Seq(EventRec) /\ Len(event_log') <= EVENT_LOG_MAX
      /\ queue' \in Seq(EventRec) /\ stream' \in StreamRec
      /\ next_event_id' = next_event_id + Len(kinds) /\ Len(kinds) \in Nat
  BY <1>4, EmissionStep
<1>7. /\ \A e \in new : e.turn = serving /\ \E k \in 1 .. Len(kinds) : e.event = kinds[k]
      /\ \A d, e \in new, k \in 1 .. Len(kinds) :
           /\ d.event = kinds[k] /\ e.event = kinds[k]
           /\ (\A j \in 1 .. Len(kinds) : kinds[j] = kinds[k] => j = k)
           => d = e
  <2>1. /\ next_event_id - 1 + Len(kinds) <= 5 * MaxTurns
        /\ next_event_id \in Nat \ {0} /\ serving \in 1 .. MaxTurns /\ kinds \in Seq(Event)
    BY <1>4 DEF Emission, Typed
  <2> QED BY <2>1, NewFacts
<1> HIDE DEF new
<1>8. /\ next_event_id \in Nat \ {0} /\ turn \in 0 .. MaxTurns /\ serving \in 0 .. MaxTurns
      /\ status \in {"idle", "running", "done", "error"} /\ MaxTurns \in Nat
      /\ run \in {"off", "started", "tool"}
  BY EventsAssumption DEF Typed
<1>9. Typed'
  <2>1. /\ next_event_id' \in Nat \ {0} /\ run' \in {"off", "started", "tool"}
        /\ status' \in {"idle", "running", "done", "error"}
    BY <1>4, <1>6, <1>8
  <2> QED BY <1>3, <1>6, <2>1 DEF Typed, message
<1>10. Budget'
  <2>1. DueOfRun \in Nat /\ DueOfRun' \in Nat
    BY <1>4, <1>8 DEF DueOfRun
  <2>2. task' = task /\ turn' = turn
    BY <1>3 DEF message
  <2>3. \E n \in Nat : Due = DueOfRun + n /\ Due' = DueOfRun' + n
    <3>1. CASE task = "posting"
      BY <2>1, <2>2, <3>1 DEF Due
    <3>2. CASE task # "posting"
      BY <2>1, <2>2, <3>2 DEF Due
    <3> QED BY <3>1, <3>2
  <2>4. next_event_id - 1 + Due <= 5 * turn
    BY DEF Budget
  <2>5. next_event_id' - 1 + Due' <= 5 * turn'
    <3>1. PICK n \in Nat : Due = DueOfRun + n /\ Due' = DueOfRun' + n
      BY <2>3
    <3>2. next_event_id' = next_event_id + Len(kinds) /\ Len(kinds) \in Nat
          /\ next_event_id \in Nat /\ turn \in Nat /\ 5 * turn' = 5 * turn /\ 5 * turn \in Nat
      BY <1>6, <1>8, <2>2
    <3>3. Len(kinds) + DueOfRun' <= DueOfRun
      BY <1>4
    <3> HIDE DEF DueOfRun, Due
    <3> QED BY <2>1, <2>4, <3>1, <3>2, <3>3
  <2> QED BY <1>3, <1>6, <2>5 DEF Budget
<1>11. TurnInv'
  BY <1>1, <1>3, <1>4, <1>8 DEF TurnInv, message
<1>12. ASSUME NEW e \in Known, e.turn = turn
       PROVE  e.event # "done" /\ (e.event = "error" => lapsed)
  BY <1>1, <1>12 DEF KnownInv, Ended
<1>13. ASSUME NEW e \in new
       PROVE  /\ e.turn <= turn /\ (task = "posting" => e.turn < turn)
              /\ e.turn = turn /\ e.event = "done" => Ended("done")'
              /\ e.turn = turn /\ e.event = "error" => Ended("error")'
  BY <1>3, <1>5, <1>7, <1>8 DEF TurnInv, Ended, message
<1>14. KnownInv'
  BY <1>3, <1>6, <1>12, <1>13 DEF KnownInv, message
<1>15. OneDone'
  <2>1. ASSUME NEW d \in new, NEW e \in new, d.event = "done", e.event = "done"
        PROVE  d = e
    <3>1. PICK k \in 1 .. Len(kinds) : d.event = kinds[k]
      BY <1>7
    <3>2. \A j \in 1 .. Len(kinds) : kinds[j] = kinds[k] => j = k
      BY <1>5, <2>1, <3>1
    <3> QED BY <1>7, <2>1, <3>1, <3>2
  <2> QED BY <1>3, <1>6, <1>12, <2>1 DEF OneDone, message
<1>16. OutcomeInv' /\ JudgeInv'
  BY <1>1, <1>3 DEF OutcomeInv, OutcomeIsRight, JudgeInv, Ended, message
<1> QED BY <1>6, <1>9, <1>10, <1>11, <1>14, <1>15, <1>16

-----------------------------------------------------------------------------
(* The theorems. *)

LEMMA InitIInv == Init => IInv
<1> SUFFICES ASSUME Init PROVE IInv
  OBVIOUS
<1>1. /\ stream = [mode |-> "off", rest |-> <<>>, shared |-> FALSE] /\ torn = NoEvent
      /\ event_log = <<>> /\ queue = <<>> /\ wire = <<>> /\ stream.rest = <<>>
      /\ next_event_id = 1 /\ proxy = "none" /\ got = {} /\ excused = {} /\ lastId = 0
      /\ stream.mode = "off"
  BY DEF Init, NoStream
<1>2. Known = {} /\ Emitted = {} /\ Missing = {}
  BY <1>1, EmptyFacts DEF Known, Emitted, Missing
<1>3. Typed
  <2>1. stream \in StreamRec /\ torn \in EventRec \cup {NoEvent}
    BY <1>1, EmptyFacts DEF StreamRec
  <2>2. harness \in Harness
    BY DEF Init, create, Harness
  <2>3. /\ turn \in 0 .. MaxTurns /\ serving \in 0 .. MaxTurns /\ breaks \in 0 .. MaxBreaks
        /\ retries \in 0 .. SSE_RETRY_LIMIT /\ stale \in Nat /\ lastId \in Nat
        /\ next_event_id \in Nat \ {0}
    BY EventsAssumption DEF Init
  <2>4. event_log \in Seq(EventRec) /\ queue \in Seq(EventRec) /\ wire \in Seq(EventRec)
    BY <1>1, EmptyFacts
  <2>5. /\ run \in {"off", "started", "tool"} /\ status \in {"idle", "running", "done", "error"}
        /\ proxy \in {"none", "connecting", "connected"}
        /\ task \in {"none", "posting", "waiting"} /\ completion_event \in BOOLEAN
        /\ row \in {"ready", "running", "completed", "failed"}
        /\ full \in BOOLEAN /\ tidy \in BOOLEAN /\ replayed \in BOOLEAN
        /\ strayed \in BOOLEAN /\ repeated \in BOOLEAN /\ lapsed \in BOOLEAN
    BY DEF Init
  <2> QED BY <2>1, <2>2, <2>3, <2>4, <2>5 DEF Typed
<1>4. Budget
  <2>1. Due = 0
    BY DEF Init, Due, DueOfRun
  <2> QED BY <1>1, <2>1, EventsAssumption, EmptyFacts DEF Init, Budget
<1>5. IdInv /\ LinkInv /\ MissingInv
  BY <1>1, <1>2, EmptyFacts DEF IdInv, LinkInv, MissingInv
<1>6. OrderInv
  BY <1>1, EmptyFacts DEF Init, OrderInv, Before
<1>7. TurnInv /\ KnownInv /\ OneDone
  BY <1>2 DEF Init, TurnInv, KnownInv, OneDone
<1>8. OutcomeInv /\ JudgeInv
  BY DEF Init, OutcomeInv, OutcomeIsRight, JudgeInv, create
<1> QED BY <1>3, <1>4, <1>5, <1>6, <1>7, <1>8 DEF IInv, Delivery, Messages

LEMMA NextIInv == IInv /\ [Next]_vars => IInv'
<1> SUFFICES ASSUME IInv, [Next]_vars PROVE IInv'
  OBVIOUS
<1>1. Delivery /\ Messages /\ Typed /\ LinkInv
  BY DEF IInv, Delivery
<1>2. CASE Post \/ TaskWakes \/ PollFinds \/ WorkerTakes
  BY <1>2, TaskStep
<1>3. CASE WorkerRefuses
  BY <1>3, WorkerRefusesStep
<1>4. CASE RunStep
  BY <1>4, RunStepStep
<1>5. CASE Replay
  <2>1. UNCHANGED <<run, serving, status, said, got>>
    BY <1>5 DEF Replay, worker, history, message, said
  <2> QED BY <1>1, <1>5, <2>1, ReplayStep, KeepStep DEF IInv
<1>6. CASE Live
  <2>1. UNCHANGED <<run, serving, status, said, got>>
    BY <1>6 DEF Live, history, message, said
  <2> QED BY <1>1, <1>6, <2>1, LiveStep, KeepStep DEF IInv
<1>7. CASE StaleTakes
  <2>1. UNCHANGED <<run, serving, status, said, got>>
    BY <1>7 DEF StaleTakes, message, said
  <2> QED BY <1>1, <1>7, <2>1, StaleTakesStep, KeepStep DEF IInv
<1>8. CASE StaleEnds
  <2>1. UNCHANGED <<run, serving, status, said, got>>
    BY <1>8 DEF StaleEnds, worker, history, message, said
  <2> QED BY <1>1, <1>8, <2>1, StaleEndsStep, KeepStep DEF IInv
<1>9. CASE Connect
  <2>1. UNCHANGED <<run, serving, status, said, got>>
    BY <1>9 DEF Connect, worker, message, said
  <2> QED BY <1>1, <1>9, <2>1, ConnectStep, KeepStep DEF IInv
<1>10. CASE ConnectFails
  <2>1. Retry /\ UNCHANGED <<run, serving, status, turn, task, strayed, repeated, got>>
    BY <1>10 DEF ConnectFails, worker, history
  <2> QED BY <1>1, <1>10, <2>1, ConnectFailsStep, RetryStep DEF IInv
<1>11. CASE Deliver
  <2> DEFINE e == Head(wire)
  <2>1. /\ wire # <<>> /\ wire \in Seq(EventRec) /\ _persist_worker_event(e, e.event)
        /\ UNCHANGED <<run, serving, status, turn, task, lapsed>>
    BY <1>1, <1>11 DEF Deliver, worker, Typed
  <2>2. e \in Known
    BY <2>1, TailFacts DEF Known
  <2>3. Delivery' /\ Known' \subseteq Known
    BY <1>1, <1>11, DeliverStep
  <2> HIDE DEF e
  <2> QED BY <1>1, <2>1, <2>2, <2>3, PersistStep DEF IInv
<1>12. CASE DeliverTorn
  <2>1. Delivery' /\ Known' \subseteq Known
    BY <1>1, <1>12, DeliverTornStep
  <2>2. /\ torn # NoEvent
        /\ \/ \E kind \in {torn.event, "other"} : _persist_worker_event(torn, kind)
           \/ UNCHANGED <<harness, row, completion_event, strayed, repeated, got>>
        /\ UNCHANGED <<run, serving, status, turn, task, lapsed>>
    BY <1>12 DEF DeliverTorn, worker
  <2>3. CASE \E kind \in {torn.event, "other"} : _persist_worker_event(torn, kind)
    <3>1. torn \in Known
      BY <2>2 DEF Known
    <3> QED BY <1>1, <2>1, <2>2, <2>3, <3>1, PersistStep DEF IInv
  <2>4. CASE UNCHANGED <<harness, row, completion_event, strayed, repeated, got>>
    <3>1. UNCHANGED <<run, serving, status, said, got>>
      BY <2>2, <2>4 DEF message, said
    <3> QED BY <1>1, <2>1, <3>1, KeepStep DEF IInv
  <2> QED BY <2>2, <2>3, <2>4
<1>13. CASE Break
  <2>1. Retry /\ UNCHANGED <<run, serving, status, turn, task, strayed, repeated, got>>
    BY <1>13 DEF Break, worker, history
  <2> QED BY <1>1, <1>13, <2>1, BreakStep, RetryStep DEF IInv
<1>14. CASE StreamEnds
  <2>1. Retry /\ UNCHANGED <<run, serving, status, turn, task, strayed, repeated, got>>
    BY <1>14 DEF StreamEnds, worker, history
  <2> QED BY <1>1, <1>14, <2>1, StreamEndsStep, RetryStep DEF IInv
<1>15. CASE ClientComes
  <2>1. UNCHANGED <<run, serving, status, said, got>>
    BY <1>15 DEF ClientComes, worker, history, message, said
  <2> QED BY <1>1, <1>15, <2>1, ClientComesStep, KeepStep DEF IInv
<1>16. CASE ClientLeaves
  <2>1. UNCHANGED <<run, serving, status, said, got>>
    BY <1>16 DEF ClientLeaves, worker, history, message, said
  <2> QED BY <1>1, <1>16, <2>1, ClientLeavesStep, KeepStep DEF IInv
<1>17. CASE UNCHANGED vars
  <2>1. Quiet /\ UNCHANGED <<run, serving, status, said, got>> /\ UNCHANGED vars
    BY <1>17 DEF vars, Quiet, worker, history, message, said
  <2>2. Known' = Known /\ IdInv' /\ LinkInv' /\ MissingInv' /\ OrderInv'
    BY <1>1, <2>1, QuietStep
  <2>3. Typed' /\ Budget'
    BY <1>1, <2>1 DEF Delivery, Typed, Budget, Due, DueOfRun, vars, worker, link, message, history
  <2>4. Messages'
    BY <1>1, <2>1, <2>2, KeepStep
  <2> QED BY <2>2, <2>3, <2>4 DEF IInv, Delivery
<1>18. CASE LimitReached
  <2>1. /\ Quiet /\ UNCHANGED <<run, serving, status, said, got>> /\ full' = TRUE
        /\ UNCHANGED <<worker, link, said, history>>
    BY <1>18 DEF LimitReached, Quiet, worker, history, said
  <2>2. Known' = Known /\ IdInv' /\ LinkInv' /\ MissingInv' /\ OrderInv'
    BY <1>1, <2>1, QuietStep
  <2>3. Typed' /\ Budget'
    BY <1>1, <2>1 DEF Delivery, Typed, Budget, Due, DueOfRun, worker, link, said, history
  <2>4. Messages'
    BY <1>1, <2>1, <2>2, KeepStep
  <2> QED BY <2>2, <2>3, <2>4 DEF IInv, Delivery
<1> QED
  BY <1>2, <1>3, <1>4, <1>5, <1>6, <1>7, <1>8, <1>9, <1>10, <1>11, <1>12, <1>13, <1>14,
     <1>15, <1>16, <1>17, <1>18 DEF Next

LEMMA Invariant == Spec => []IInv
BY InitIInv, NextIInv, PTL DEF Spec

\* However messages, breaks and clients come and go, the log stays within
\* EVENT_LOG_MAX, ids are those that _emit gave out, and a turn emits five events
\* at most.
THEOREM TypeCorrect == Spec => []TypeOK
<1>1. IInv => TypeOK
  <2> SUFFICES ASSUME IInv PROVE TypeOK
    OBVIOUS
  <2>1. Typed /\ Budget /\ IdInv
    BY DEF IInv, Delivery
  <2>2. next_event_id \in 1 .. 5 * MaxTurns + 1
    <3>1. Due \in Nat
      <4>1. DueOfRun \in Nat
        BY <2>1 DEF DueOfRun, Typed
      <4> QED BY <4>1 DEF Due
    <3> QED BY <2>1, <3>1, EventsAssumption DEF Typed, Budget
  <2>3. /\ ToSet(event_log) \cup ToSet(queue) \cup ToSet(wire) \subseteq EventRec
        /\ ToSet(stream.rest) \subseteq EventRec
    BY <2>1, KnownFacts
  <2>4. stale \in 0 .. MaxBreaks
    BY <2>1, EventsAssumption DEF Typed, Budget
  <2>5. lastId \in {0} \cup Emitted
    BY <2>1 DEF Typed, IdInv, Emitted
  <2>6. Len(event_log) <= EVENT_LOG_MAX /\ Len(wire) <= WireCap
    BY <2>1 DEF Budget
  <2>7. got \cup excused \subseteq Emitted
    BY <2>1 DEF IdInv
  <2>8. stream.mode \in {"off", "replay", "live", "ended"} /\ stream.shared \in BOOLEAN
    BY <2>1 DEF Typed, StreamRec
  <2> QED BY <2>1, <2>2, <2>3, <2>4, <2>5, <2>6, <2>7, <2>8 DEF TypeOK, Typed
<1> QED BY <1>1, Invariant, PTL

\* "SSE replay" of worker_api.py and the retry loop of sse_events: as long as the
\* proxy is connected, or connects with a Last-Event-ID, no event that the log
\* still held is passed over, and each one that arrives is in the database unless
\* the event limit or a failed write dropped it.
THEOREM ReplayMissesNothing == Spec => []NothingSkipped
<1>1. IInv => NothingSkipped
  <2> SUFFICES ASSUME IInv, proxy = "connected" \/ (proxy = "connecting" /\ lastId > 0),
                      NEW m \in Missing
               PROVE  OnItsWay(m)
    BY DEF NothingSkipped, Missing
  <2>1. /\ Typed /\ LinkInv /\ m \in Ids(event_log) /\ lastId < m /\ Timely(wire, m)
        /\ proxy = "connected" => Coming(m)
        /\ m \in Nat
    BY MissingFacts DEF IInv, Delivery, MissingInv
  <2>2. ASSUME m \notin Ids(wire) PROVE m > NextReplayFrom
    <3>1. CASE wire = <<>>
      BY <2>1, <3>1 DEF NextReplayFrom, Typed
    <3>2. CASE wire # <<>>
      <4>1. wire \in Seq(EventRec) /\ Len(wire) \in Nat /\ Len(wire) > 0
        BY <2>1, <3>2 DEF Typed
      <4>2. wire[Len(wire)] \in EventRec /\ wire[Len(wire)].id \in Nat
        BY <4>1, EventFacts
      <4>3. \A i \in 1 .. Len(wire) : wire[i].id # m
        BY <2>2, <4>1 DEF Ids, ToSet
      <4>4. ~(wire[Len(wire)].id > m)
        <5> SUFFICES ASSUME wire[Len(wire)].id > m PROVE FALSE
          OBVIOUS
        <5>1. PICK j \in 1 .. Len(wire) - 1 : wire[j].id = m
          BY <2>1, <4>1 DEF Timely
        <5> QED BY <4>1, <4>3, <5>1
      <4>5. NextReplayFrom = wire[Len(wire)].id
        BY <3>2 DEF NextReplayFrom, Last
      <4> QED BY <2>1, <4>1, <4>2, <4>3, <4>4, <4>5
    <3> QED BY <3>1, <3>2
  <2>3. CASE proxy = "connected"
    BY <2>1, <2>2, <2>3 DEF Coming, InReplay, OnItsWay, ToBeReplayed
  <2>4. CASE proxy = "connecting"
    <3>1. m \notin Ids(wire)
      BY <2>1, <2>4, EmptyFacts DEF LinkInv
    <3> QED BY <2>1, <2>2, <2>4, <3>1 DEF OnItsWay, ToBeReplayed
  <2> QED BY <2>3, <2>4
<1> QED BY <1>1, Invariant, PTL

\* STATE.queue, read live, keeps the order across any number of broken
\* connections and clients, as long as none is resumed.
THEOREM LiveEventsAreInOrder == Spec => []InOrderUntilReplay
<1>1. IInv => InOrderUntilReplay
  BY DEF IInv, Delivery, OrderInv, InOrderUntilReplay
<1> QED BY <1>1, Invariant, PTL

\* What _run_worker_message and _persist_worker_event make of a message is what
\* the worker made of it, whether the event or the poll came first.
THEOREM OutcomesAreRight == Spec => []OutcomeIsRight
<1>1. IInv => OutcomeIsRight
  BY DEF IInv, Messages, OutcomeInv
<1> QED BY <1>1, Invariant, PTL

\* A trace of SessionHarness that says completed has passed its gates.
THEOREM CompletedTracesAreJudged == Spec => []CompletedTraceIsJudged
<1>1. IInv => CompletedTraceIsJudged
  BY DEF IInv, Messages, JudgeInv, CompletedTraceIsJudged
<1> QED BY <1>1, Invariant, PTL

=============================================================================
