------------------------- MODULE SamplingLoop_proofs -------------------------
(* Proofs about SamplingLoop, for any number of messages, tool calls and images. *)
EXTENDS SamplingLoop, FiniteSetTheorems, SequenceTheorems, TLAPS

\* Messages whose numbers of images are in X: what is said of tool calls and of
\* breakpoints does not depend on what a filter leaves of the images; that they
\* are numbers is CountInv, further down.
Msgs(X) == [role : {"user", "assistant"}, ours : BOOLEAN, uses : 0 .. MaxUses,
            answers : 0 .. MaxUses, images : X, cached : BOOLEAN]
Shape == \E X : messages \in Seq(Msgs(X))

Control ==
  /\ driver \in {"worker", "streamlit"}
  /\ pc \in {"idle", "posted", "request", "called", "tools"}
  /\ done \in Nat /\ shots \in Nat

\* Tool calls and results match, but for those of the last message.
Linked ==
  \A i \in DOMAIN messages :
    /\ messages[i].answers > 0 => /\ i - 1 \in DOMAIN messages
                                  /\ messages[i - 1].uses = messages[i].answers
    /\ messages[i].uses > 0 /\ i + 1 \in DOMAIN messages =>
         messages[i + 1].answers = messages[i].uses
Open == messages # <<>> /\ messages[Len(messages)].uses > 0

(* Where the last message may have tool calls without results: while the tools *)
(* run, and after that only on a page that knows it has left the loop.         *)
OpenInv ==
  /\ ~raised => Linked
  /\ driver = "streamlit" => ~raised
  /\ pc \in {"posted", "request", "called"} /\ ~raised => ~Open
  /\ pc = "tools" => messages # <<>> /\ done <= messages[Len(messages)].uses
  /\ pc = "idle" /\ ~raised /\ driver = "worker" => ~Open
  /\ driver = "streamlit" /\ (pc \notin {"idle", "posted"} \/ Open) => in_sampling_loop

OursInv == \A i \in DOMAIN messages : messages[i].ours => messages[i].uses = 0

\* The page has stored the results of the tools that have returned.
StoredInv ==
  /\ RenderFindsResults
  /\ driver = "streamlit" /\ pc = "tools" => UsesOf(Len(messages), done) \subseteq tools

IInv == Shape /\ Control /\ OpenInv /\ OursInv /\ StoredInv

-----------------------------------------------------------------------------
(* Messages. *)

LEMMA MsgsGrow ==
  ASSUME NEW X, NEW Y, X \subseteq Y, NEW s \in Seq(Msgs(X))
  PROVE  s \in Seq(Msgs(Y))
<1>1. Msgs(X) \subseteq Msgs(Y)
  BY DEF Msgs
<1> QED BY <1>1

LEMMA NewMessage ==
  ASSUME NEW k \in 0 .. MaxUses, NEW n \in Nat
  PROVE  /\ LET m == Blank("user") IN
              m \in Msgs(Nat) /\ m.role = "user" /\ m.uses = 0 /\ m.answers = 0 /\ ~m.cached
         /\ LET m == [Blank("assistant") EXCEPT !.uses = k] IN
              /\ m \in Msgs(Nat) /\ m.role = "assistant" /\ m.uses = k /\ m.answers = 0
              /\ ~m.ours /\ ~m.cached
         /\ LET m == [Blank("user") EXCEPT !.answers = k, !.images = n] IN
              m \in Msgs(Nat) /\ m.role = "user" /\ m.uses = 0 /\ m.answers = k /\ ~m.cached
         /\ LET m == [Blank("user") EXCEPT !.ours = TRUE, !.answers = k] IN
              m \in Msgs(Nat) /\ m.role = "user" /\ m.uses = 0 /\ m.answers = k /\ ~m.cached
<1>1. 0 \in 0 .. MaxUses
  BY LoopAssumption
<1>2. Blank("user") \in Msgs(Nat) /\ Blank("assistant") \in Msgs(Nat)
  BY <1>1 DEF Blank, Msgs
<1> QED BY <1>1, <1>2 DEF Blank, Msgs

LEMMA Fields ==
  ASSUME Shape
  PROVE  /\ Len(messages) \in Nat /\ DOMAIN messages = 1 .. Len(messages)
         /\ messages # <<>> <=> Len(messages) > 0
         /\ \A i \in DOMAIN messages :
              /\ messages[i].role \in {"user", "assistant"} /\ messages[i].ours \in BOOLEAN
              /\ messages[i].uses \in 0 .. MaxUses /\ messages[i].answers \in 0 .. MaxUses
              /\ messages[i].cached \in BOOLEAN
              /\ messages[i].uses \in Nat /\ messages[i].answers \in Nat
<1>1. PICK X : messages \in Seq(Msgs(X))
  BY DEF Shape
<1>2. \A i \in DOMAIN messages : messages[i] \in Msgs(X)
  BY <1>1
<1>3. MaxUses \in Nat
  BY LoopAssumption
<1>4. Len(messages) \in Nat /\ DOMAIN messages = 1 .. Len(messages)
      /\ (messages # <<>> <=> Len(messages) > 0)
  BY <1>1
<1> QED BY <1>2, <1>3, <1>4 DEF Msgs

LEMMA RankTyped ==
  ASSUME Shape
  PROVE  /\ IsFiniteSet(UserMessages)
         /\ \A i : IsFiniteSet({j \in UserMessages : j >= i}) /\ Rank(i) \in Nat
<1>1. UserMessages \subseteq 1 .. Len(messages) /\ Len(messages) \in Nat
  BY Fields DEF UserMessages
<1>2. IsFiniteSet(UserMessages)
  <2>1. IsFiniteSet(1 .. Len(messages))
    BY <1>1, FS_Interval
  <2> QED BY <1>1, <2>1, FS_Subset
<1>3. ASSUME NEW i PROVE IsFiniteSet({j \in UserMessages : j >= i})
  BY <1>2, FS_Subset
<1>4. ASSUME NEW i PROVE Rank(i) \in Nat
  BY <1>3, FS_CardinalityType DEF Rank
<1> QED BY <1>2, <1>3, <1>4

LEMMA Appended ==
  ASSUME Shape, NEW m \in Msgs(Nat), messages' = Append(messages, m)
  PROVE  /\ Shape' /\ Len(messages') = Len(messages) + 1
         /\ DOMAIN messages' = 1 .. Len(messages')
         /\ messages' # <<>>
         /\ \A i \in 1 .. Len(messages) : messages'[i] = messages[i]
         /\ messages'[Len(messages')] = m
<1>1. PICK X : messages \in Seq(Msgs(X))
  BY DEF Shape
<1>2. messages \in Seq(Msgs(X \cup Nat)) /\ m \in Msgs(X \cup Nat)
  BY <1>1, MsgsGrow DEF Msgs
<1>3. messages' \in Seq(Msgs(X \cup Nat))
  BY <1>2
<1>4. /\ Len(messages') = Len(messages) + 1 /\ DOMAIN messages' = 1 .. Len(messages')
      /\ messages' # <<>>
      /\ \A i \in 1 .. Len(messages) : messages'[i] = messages[i]
      /\ messages'[Len(messages')] = m
  BY <1>2
<1> QED BY <1>3, <1>4 DEF Shape

IsAFcn(f) == f = [i \in DOMAIN f |-> f[i]]

LEMMA FunctionIsSeq ==
  ASSUME NEW n \in Nat, NEW S, NEW f, IsAFcn(f), DOMAIN f = 1 .. n,
         \A i \in 1 .. n : f[i] \in S
  PROVE  f \in Seq(S) /\ Len(f) = n
<1>1. f \in [1 .. n -> S]
  BY DEF IsAFcn
<1> QED BY <1>1

\* What a request leaves of a message.
LEMMA PreparedMessages ==
  ASSUME Shape, messages' = Prepared
  PROVE  /\ Shape' /\ Len(messages') = Len(messages) /\ DOMAIN messages' = DOMAIN messages
         /\ \A i \in DOMAIN messages :
              /\ messages'[i].role = messages[i].role /\ messages'[i].ours = messages[i].ours
              /\ messages'[i].uses = messages[i].uses
              /\ messages'[i].answers = messages[i].answers
              /\ provider = "anthropic" =>
                   messages'[i].cached = _inject_prompt_caching(i)
<1>1. PICK X : messages \in Seq(Msgs(X))
  BY DEF Shape
<1>2. DOMAIN messages = 1 .. Len(messages) /\ Len(messages) \in Nat
  BY <1>1
<1>3. \A i \in DOMAIN messages : messages[i] \in Msgs(X)
  BY <1>1
<1>4. CASE provider = "anthropic"
  <2>1. messages' = [i \in DOMAIN messages |->
                      [messages[i] EXCEPT !.cached = _inject_prompt_caching(i)]]
    BY <1>4 DEF Prepared
  <2>2. ASSUME NEW i \in DOMAIN messages
        PROVE  _inject_prompt_caching(i) \in BOOLEAN
    <3>1. messages[i].cached \in BOOLEAN
      BY <1>3 DEF Msgs
    <3>2. Rank(i) \in Nat
      BY RankTyped
    <3>3. (Rank(i) <= 3) \in BOOLEAN
      BY <3>2
    <3>4. CASE i \notin UserMessages \/ Rank(i) > 4
      BY <3>1, <3>4, Zenon DEF _inject_prompt_caching
    <3>5. CASE ~(i \notin UserMessages \/ Rank(i) > 4)
      BY <3>3, <3>5, Zenon DEF _inject_prompt_caching
    <3> QED BY <3>4, <3>5
  <2>3. ASSUME NEW i \in DOMAIN messages
        PROVE  /\ messages'[i] \in Msgs(X)
               /\ messages'[i].role = messages[i].role /\ messages'[i].ours = messages[i].ours
               /\ messages'[i].uses = messages[i].uses
               /\ messages'[i].answers = messages[i].answers
               /\ messages'[i].cached = _inject_prompt_caching(i)
    BY <1>3, <2>1, <2>2 DEF Msgs
  <2>4. DOMAIN messages' = DOMAIN messages /\ IsAFcn(messages')
    BY <2>1 DEF IsAFcn
  <2>5. messages' \in Seq(Msgs(X)) /\ Len(messages') = Len(messages)
    BY <1>2, <2>3, <2>4, FunctionIsSeq
  <2> QED BY <1>4, <2>3, <2>4, <2>5 DEF Shape
<1>5. CASE provider # "anthropic"
  <2> DEFINE kept(i) == IF Keep > 0 THEN _maybe_filter_to_n_most_recent_images(i)
                                    ELSE messages[i].images
             Y == X \cup {kept(i) : i \in DOMAIN messages}
  <2>1. messages' = [i \in DOMAIN messages |-> [messages[i] EXCEPT !.images = kept(i)]]
    BY <1>5 DEF Prepared
  <2>2. \A i \in DOMAIN messages : kept(i) \in Y
    OBVIOUS
  <2>3. ASSUME NEW i \in DOMAIN messages
        PROVE  /\ messages'[i] \in Msgs(Y)
               /\ messages'[i].role = messages[i].role /\ messages'[i].ours = messages[i].ours
               /\ messages'[i].uses = messages[i].uses
               /\ messages'[i].answers = messages[i].answers
    <3> HIDE DEF kept, Y
    <3> QED BY <1>3, <2>1, <2>2 DEF Msgs
  <2> HIDE DEF kept, Y
  <2>4. DOMAIN messages' = DOMAIN messages /\ IsAFcn(messages')
    BY <2>1 DEF IsAFcn
  <2>5. messages' \in Seq(Msgs(Y)) /\ Len(messages') = Len(messages)
    BY <1>2, <2>3, <2>4, FunctionIsSeq
  <2> QED BY <1>5, <2>3, <2>4, <2>5 DEF Shape
<1> QED BY <1>4, <1>5

-----------------------------------------------------------------------------
(* Tool calls and their results. *)

\* A message may be appended if it answers what the last one has left open, and
\* nothing else.
LEMMA AppendLinked ==
  ASSUME Shape, Linked, NEW m \in Msgs(Nat), messages' = Append(messages, m),
         Open => m.answers = messages[Len(messages)].uses,
         m.answers > 0 => Open /\ messages[Len(messages)].uses = m.answers
  PROVE  Linked'
<1> DEFINE n == Len(messages)
<1>1. n \in Nat /\ DOMAIN messages = 1 .. n /\ (messages # <<>> <=> n > 0)
  BY Fields
<1>2. /\ Len(messages') = n + 1 /\ DOMAIN messages' = 1 .. n + 1
      /\ \A i \in 1 .. n : messages'[i] = messages[i]
      /\ messages'[n + 1] = m
  BY Appended
<1> HIDE DEF n
<1>3. ASSUME NEW i \in 1 .. n + 1, messages'[i].answers > 0
      PROVE  i - 1 \in DOMAIN messages' /\ messages'[i - 1].uses = messages'[i].answers
  <2>1. CASE i \in 1 .. n
    <3>1. i - 1 \in 1 .. n /\ messages[i - 1].uses = messages[i].answers
      BY <1>1, <1>2, <1>3, <2>1 DEF Linked
    <3> QED BY <1>1, <1>2, <2>1, <3>1
  <2>2. CASE i = n + 1
    <3>1. n > 0 /\ messages[n].uses = m.answers
      BY <1>1, <1>2, <1>3, <2>2 DEF Open, n
    <3> QED BY <1>1, <1>2, <2>2, <3>1
  <2> QED BY <1>1, <2>1, <2>2
<1>4. ASSUME NEW i \in 1 .. n + 1, messages'[i].uses > 0, i + 1 \in 1 .. n + 1
      PROVE  messages'[i + 1].answers = messages'[i].uses
  <2>1. i \in 1 .. n /\ messages'[i] = messages[i]
    BY <1>1, <1>2, <1>4
  <2>2. CASE i + 1 \in 1 .. n
    BY <1>1, <1>2, <1>4, <2>1, <2>2 DEF Linked
  <2>3. CASE i = n
    <3>1. Open
      BY <1>1, <1>4, <2>1, <2>3 DEF Open, n
    <3> QED BY <1>2, <2>1, <2>3, <3>1 DEF n
  <2> QED BY <1>1, <1>4, <2>1, <2>2, <2>3
<1> QED BY <1>2, <1>3, <1>4 DEF Linked

LEMMA AppendOurs ==
  ASSUME Shape, OursInv, NEW m \in Msgs(Nat), messages' = Append(messages, m),
         m.ours => m.uses = 0
  PROVE  OursInv' /\ (Open' <=> m.uses > 0)
<1>1. Len(messages) \in Nat /\ DOMAIN messages = 1 .. Len(messages)
  BY Fields
<1>2. /\ Len(messages') = Len(messages) + 1 /\ DOMAIN messages' = 1 .. Len(messages')
      /\ \A i \in 1 .. Len(messages) : messages'[i] = messages[i]
      /\ messages'[Len(messages')] = m /\ messages' # <<>>
  BY Appended
<1>3. Open' <=> m.uses > 0
  BY <1>2 DEF Open
<1>4. ASSUME NEW i \in DOMAIN messages', messages'[i].ours PROVE messages'[i].uses = 0
  <2>1. CASE i = Len(messages')
    BY <1>2, <1>4, <2>1
  <2>2. CASE i \in 1 .. Len(messages)
    BY <1>1, <1>2, <1>4, <2>2 DEF OursInv
  <2> QED BY <1>1, <1>2, <2>1, <2>2
<1> QED BY <1>3, <1>4 DEF OursInv

LEMMA AppendRendered ==
  ASSUME Shape, RenderFindsResults, NEW m \in Msgs(Nat), messages' = Append(messages, m),
         driver' = driver, tools \subseteq tools',
         driver = "streamlit" => UsesOf(Len(messages), m.answers) \subseteq tools'
  PROVE  RenderFindsResults'
<1>1. Len(messages) \in Nat /\ DOMAIN messages = 1 .. Len(messages)
  BY Fields
<1>2. /\ Len(messages') = Len(messages) + 1 /\ DOMAIN messages' = 1 .. Len(messages')
      /\ \A i \in 1 .. Len(messages) : messages'[i] = messages[i]
      /\ messages'[Len(messages')] = m
  BY Appended
<1>3. ASSUME driver = "streamlit", NEW i \in DOMAIN messages'
      PROVE  UsesOf(i - 1, messages'[i].answers) \subseteq tools'
  <2>1. CASE i = Len(messages')
    <3>1. i - 1 = Len(messages) /\ messages'[i] = m
      BY <1>1, <1>2, <2>1
    <3> QED BY <1>3, <3>1
  <2>2. CASE i \in 1 .. Len(messages)
    <3>1. UsesOf(i - 1, messages[i].answers) \subseteq tools
      BY <1>1, <1>3, <2>2 DEF RenderFindsResults
    <3> QED BY <1>2, <2>2, <3>1
  <2> QED BY <1>1, <1>2, <2>1, <2>2
<1> QED BY <1>3 DEF RenderFindsResults

\* A request keeps all that is said of the messages.
LEMMA PreparedKeeps ==
  ASSUME Shape, messages' = Prepared
  PROVE  /\ Linked => Linked'
         /\ Open' <=> Open
         /\ OursInv => OursInv'
         /\ RenderFindsResults /\ driver' = driver /\ tools' = tools => RenderFindsResults'
<1>1. /\ Len(messages') = Len(messages) /\ DOMAIN messages' = DOMAIN messages
      /\ \A i \in DOMAIN messages :
           /\ messages'[i].ours = messages[i].ours
           /\ messages'[i].uses = messages[i].uses
           /\ messages'[i].answers = messages[i].answers
  BY PreparedMessages
<1>2. /\ DOMAIN messages = 1 .. Len(messages) /\ Len(messages) \in Nat
      /\ (messages # <<>> <=> Len(messages) > 0)
  BY Fields
<1>3. messages' # <<>> <=> Len(messages') > 0
  <2>1. Shape'
    BY PreparedMessages
  <2>2. PICK X : messages' \in Seq(Msgs(X))
    BY <2>1 DEF Shape
  <2> QED BY <2>2
<1>4. Linked => Linked'
  BY <1>1 DEF Linked
<1>5. Open' <=> Open
  BY <1>1, <1>2, <1>3 DEF Open
<1>6. OursInv => OursInv'
  BY <1>1 DEF OursInv
<1>7. RenderFindsResults /\ driver' = driver /\ tools' = tools => RenderFindsResults'
  BY <1>1 DEF RenderFindsResults
<1> QED BY <1>4, <1>5, <1>6, <1>7

-----------------------------------------------------------------------------
(* The invariant. *)

LEMMA InitIInv == Init => IInv
<1> SUFFICES ASSUME Init PROVE IInv
  OBVIOUS
<1>1. /\ messages = <<>> /\ pc = "idle" /\ done = 0 /\ shots = 0 /\ raised = FALSE
      /\ driver \in {"worker", "streamlit"}
  BY LoopAssumption DEF Init
<1>2. messages \in Seq(Msgs(Nat))
  BY <1>1
<1>3. Shape /\ DOMAIN messages = {} /\ ~Open
  BY <1>1, <1>2 DEF Shape, Open
<1> QED BY <1>1, <1>3
        DEF IInv, Control, OpenInv, Linked, OursInv, StoredInv, RenderFindsResults

\* A step that leaves the messages and the results alone.
LEMMA MessagesKept ==
  ASSUME IInv, UNCHANGED <<messages, driver, tools>>
  PROVE  /\ Shape' /\ (Linked' <=> Linked) /\ (Open' <=> Open) /\ OursInv'
         /\ RenderFindsResults'
BY DEF IInv, Shape, Linked, Open, OursInv, StoredInv, RenderFindsResults

LEMMA StepIInv == IInv /\ [Next]_vars => IInv'
<1> SUFFICES ASSUME IInv, [Next]_vars PROVE IInv'
  OBVIOUS
<1>t. /\ Shape /\ Control /\ OpenInv /\ OursInv /\ RenderFindsResults
      /\ Len(messages) \in Nat /\ DOMAIN messages = 1 .. Len(messages)
      /\ MaxUses \in Nat
  BY Fields, LoopAssumption DEF IInv, StoredInv
<1>1. CASE Request
  <2>1. /\ Shape' /\ (Linked => Linked') /\ (Open' <=> Open) /\ OursInv'
        /\ RenderFindsResults'
    BY <1>1, <1>t, PreparedMessages, PreparedKeeps DEF Request
  <2> QED BY <1>1, <1>t, <2>1 DEF Request, IInv, Control, OpenInv, StoredInv
<1>2. CASE ApiFails
  <2>1. /\ Shape' /\ (Linked' <=> Linked) /\ (Open' <=> Open) /\ OursInv'
        /\ RenderFindsResults'
    BY <1>2, MessagesKept DEF ApiFails
  <2> QED BY <1>2, <1>t, <2>1 DEF ApiFails, Return, IInv, Control, OpenInv, StoredInv
<1>3. ASSUME NEW k \in 0 .. MaxUses, ApiAnswers(k) PROVE IInv'
  <2> DEFINE m == [Blank("assistant") EXCEPT !.uses = k]
  <2>1. m \in Msgs(Nat) /\ m.uses = k /\ m.answers = 0 /\ ~m.ours
    BY NewMessage, 0 \in Nat
  <2>2. messages' = Append(messages, m)
    BY <1>3 DEF ApiAnswers
  <2>3. /\ Shape' /\ messages' # <<>> /\ messages'[Len(messages')] = m
    BY <1>t, <2>1, <2>2, Appended
  <2>4. ~Open
    BY <1>3, <1>t, Fields DEF ApiAnswers, Acceptable, UsesAnswered, Open
  <2> HIDE DEF m
  <2>5. OursInv' /\ (Open' <=> k > 0)
    BY <1>t, <2>1, <2>2, AppendOurs
  <2>6. Linked => Linked'
    BY <1>t, <2>1, <2>2, <2>4, AppendLinked
  <2>7. UsesOf(Len(messages), 0) = {} /\ UsesOf(Len(messages'), 0) = {}
    BY DEF UsesOf
  <2>8. RenderFindsResults'
    BY <1>3, <1>t, <2>1, <2>2, <2>7, AppendRendered DEF ApiAnswers
  <2> QED BY <1>3, <1>t, <2>1, <2>3, <2>5, <2>6, <2>7, <2>8
          DEF ApiAnswers, IInv, Control, OpenInv, StoredInv
<1>4. ASSUME NEW image \in {0, 1}, RunTool(image) PROVE IInv'
  <2>1. Shape' /\ (Linked' <=> Linked) /\ (Open' <=> Open) /\ OursInv'
    BY <1>4, <1>t DEF RunTool, Shape, Linked, Open, OursInv
  <2>2. messages[Len(messages)].uses \in Nat
    BY <1>4, <1>t, Fields DEF RunTool, OpenInv
  <2>3. RenderFindsResults'
    BY <1>4, <1>t DEF RunTool, RenderFindsResults
  <2>4. driver = "streamlit" => UsesOf(Len(messages), done + 1) \subseteq tools'
    <3>1. 1 .. done + 1 = (1 .. done) \cup {done + 1}
      BY <1>t DEF Control
    <3>2. UsesOf(Len(messages), done + 1) =
            UsesOf(Len(messages), done) \cup {<<Len(messages), done + 1>>}
      BY <3>1 DEF UsesOf
    <3> QED BY <1>4, <3>2 DEF RunTool, IInv, StoredInv
  <2>5. Control' /\ StoredInv'
    BY <1>4, <1>t, <2>3, <2>4 DEF RunTool, Control, StoredInv
  <2>6. OpenInv'
    BY <1>4, <1>t, <2>1, <2>2 DEF RunTool, Control, OpenInv
  <2> QED BY <2>1, <2>5, <2>6 DEF IInv
<1>5. CASE ToolRaises
  <2>1. /\ Shape' /\ (Linked' <=> Linked) /\ (Open' <=> Open) /\ OursInv'
        /\ RenderFindsResults'
    BY <1>5, MessagesKept DEF ToolRaises
  <2> QED BY <1>5, <1>t, <2>1 DEF ToolRaises, IInv, Control, OpenInv, StoredInv
<1>6. CASE AnswerEnds
  <2>1. /\ Shape' /\ (Linked' <=> Linked) /\ (Open' <=> Open) /\ OursInv'
        /\ RenderFindsResults'
    BY <1>6, MessagesKept DEF AnswerEnds
  <2>2. ~Open
    BY <1>6 DEF AnswerEnds, Open
  <2> QED BY <1>6, <1>t, <2>1, <2>2 DEF AnswerEnds, Return, IInv, Control, OpenInv, StoredInv
<1>7. CASE ToolsEnd
  <2> DEFINE m == [Blank("user") EXCEPT !.answers = done, !.images = shots]
  <2>1. /\ messages # <<>> /\ done = messages[Len(messages)].uses /\ done > 0
        /\ done \in 0 .. MaxUses /\ shots \in Nat
    BY <1>7, <1>t, Fields DEF ToolsEnd, OpenInv, Control
  <2>2. m \in Msgs(Nat) /\ m.uses = 0 /\ m.answers = done
    BY <2>1, NewMessage DEF Blank, Msgs
  <2>3. messages' = Append(messages, m)
    BY <1>7 DEF ToolsEnd
  <2>4. Shape'
    BY <1>t, <2>2, <2>3, Appended
  <2> HIDE DEF m
  <2>5. OursInv' /\ ~Open'
    BY <1>t, <2>2, <2>3, AppendOurs
  <2>6. Linked => Linked'
    BY <1>t, <2>1, <2>2, <2>3, AppendLinked DEF Open
  <2>7. RenderFindsResults'
    BY <1>7, <1>t, <2>2, <2>3, AppendRendered DEF ToolsEnd, IInv, StoredInv
  <2> QED BY <1>7, <1>t, <2>4, <2>5, <2>6, <2>7
          DEF ToolsEnd, IInv, Control, OpenInv, StoredInv
<1>8. CASE WorkerMessage
  <2> DEFINE m == Blank("user")
  <2>1. m \in Msgs(Nat) /\ m.uses = 0 /\ m.answers = 0
    <3>1. 0 \in 0 .. MaxUses
      BY <1>t
    <3> HIDE DEF m
    <3>2. m = Blank("user")
      BY DEF m
    <3> QED BY <3>1, <3>2, NewMessage, 0 \in Nat
  <2>2. messages' = Append(messages, m)
    BY <1>8 DEF WorkerMessage
  <2>3. Shape'
    BY <1>t, <2>1, <2>2, Appended
  <2> HIDE DEF m
  <2>4. OursInv' /\ ~Open'
    BY <1>t, <2>1, <2>2, AppendOurs
  <2>5. ~raised => Linked'
    BY <1>8, <1>t, <2>1, <2>2, AppendLinked DEF WorkerMessage, OpenInv
  <2>6. RenderFindsResults'
    BY <1>8, <1>t, <2>1, <2>2, AppendRendered DEF WorkerMessage
  <2> QED BY <1>8, <1>t, <2>3, <2>4, <2>5, <2>6
          DEF WorkerMessage, IInv, Control, OpenInv, StoredInv
<1>9. CASE ChatMessage
  <2> DEFINE healed == maybe_add_interruption_blocks
             m == [Blank("user") EXCEPT !.ours = TRUE, !.answers = healed]
  <2>1. /\ healed \in 0 .. MaxUses
        /\ Open => healed = messages[Len(messages)].uses
        /\ healed > 0 => Open /\ messages[Len(messages)].uses = healed
    BY <1>9, <1>t, Fields DEF ChatMessage, maybe_add_interruption_blocks, Open, OpenInv
  <2>2. m \in Msgs(Nat) /\ m.uses = 0 /\ m.answers = healed
    BY <2>1, NewMessage, 0 \in Nat
  <2>3. messages' = Append(messages, m) /\ tools' = tools \cup UsesOf(Len(messages), healed)
    BY <1>9 DEF ChatMessage
  <2>4. Shape'
    BY <1>t, <2>2, <2>3, Appended
  <2> HIDE DEF m, healed
  <2>5. OursInv' /\ ~Open'
    BY <1>t, <2>2, <2>3, AppendOurs
  <2>6. Linked => Linked'
    BY <1>t, <2>1, <2>2, <2>3, AppendLinked
  <2>7. RenderFindsResults'
    BY <1>9, <1>t, <2>2, <2>3, AppendRendered DEF ChatMessage
  <2> QED BY <1>9, <1>t, <2>4, <2>5, <2>6, <2>7
          DEF ChatMessage, IInv, Control, OpenInv, StoredInv
<1>10. CASE Rerun
  <2>1. /\ Shape' /\ (Linked' <=> Linked) /\ (Open' <=> Open) /\ OursInv'
        /\ RenderFindsResults'
    BY <1>10, MessagesKept DEF Rerun
  <2>2. ~Open
    BY <1>10, <1>t, Fields DEF Rerun, OursInv, Open
  <2> QED BY <1>10, <1>t, <2>1, <2>2 DEF Rerun, IInv, Control, OpenInv, StoredInv
<1>11. CASE Interrupt
  <2>1. /\ Shape' /\ (Linked' <=> Linked) /\ (Open' <=> Open) /\ OursInv'
        /\ RenderFindsResults'
    BY <1>11, MessagesKept DEF Interrupt
  <2> QED BY <1>11, <1>t, <2>1 DEF Interrupt, IInv, Control, OpenInv, StoredInv
<1>12. CASE SwitchProvider
  <2>1. /\ Shape' /\ (Linked' <=> Linked) /\ (Open' <=> Open) /\ OursInv'
        /\ RenderFindsResults'
    BY <1>12, MessagesKept DEF SwitchProvider
  <2> QED BY <1>12, <1>t, <2>1 DEF SwitchProvider, IInv, Control, OpenInv, StoredInv
<1>13. CASE Reset
  <2>1. messages' = <<>> /\ messages' \in Seq(Msgs(Nat))
    BY <1>13 DEF Reset
  <2>2. Shape' /\ DOMAIN messages' = {} /\ ~Open'
    BY <2>1 DEF Shape, Open
  <2>3. Linked' /\ OursInv' /\ RenderFindsResults'
    BY <2>2 DEF Linked, OursInv, RenderFindsResults
  <2> QED BY <1>13, <1>t, <2>2, <2>3 DEF Reset, IInv, Control, OpenInv, StoredInv
<1>14. CASE track_sampling_loop
  <2>1. /\ Shape' /\ (Linked' <=> Linked) /\ (Open' <=> Open) /\ OursInv'
        /\ RenderFindsResults'
    BY <1>14, MessagesKept DEF track_sampling_loop
  <2> QED BY <1>14, <1>t, <2>1
          DEF track_sampling_loop, IInv, Control, OpenInv, StoredInv
<1>15. CASE UNCHANGED vars
  <2>1. /\ Shape' /\ (Linked' <=> Linked) /\ (Open' <=> Open) /\ OursInv'
        /\ RenderFindsResults'
    BY <1>15, MessagesKept DEF vars
  <2> QED BY <1>15, <1>t, <2>1 DEF vars, IInv, Control, OpenInv, StoredInv
<1> QED
  BY <1>1, <1>2, <1>3, <1>4, <1>5, <1>6, <1>7, <1>8, <1>9, <1>10, <1>11, <1>12, <1>13, <1>14,
     <1>15 DEF Next

LEMMA AlwaysIInv == Spec => []IInv
BY InitIInv, StepIInv, PTL DEF Spec

-----------------------------------------------------------------------------
(* What the run checks, for any number of messages, tool calls and images. *)

\* Whatever was interrupted, failed or answered by maybe_add_interruption_blocks,
\* a request that sampling_loop makes has a result for each tool call.
THEOREM ToolUsesAreAnswered == Spec => []RequestsAnswerToolUses
<1>1. ASSUME IInv, pc = "called", ~raised PROVE UsesAnswered
  <2>1. Linked /\ ~Open
    BY <1>1 DEF IInv, OpenInv
  <2>2. /\ Len(messages) \in Nat /\ DOMAIN messages = 1 .. Len(messages)
        /\ (messages # <<>> <=> Len(messages) > 0)
        /\ \A i \in DOMAIN messages : messages[i].uses \in Nat
    BY <1>1, Fields DEF IInv
  <2>3. ASSUME NEW i \in DOMAIN messages, messages[i].uses > 0
        PROVE  i + 1 \in DOMAIN messages /\ messages[i + 1].answers = messages[i].uses
    <3>1. i # Len(messages)
      BY <2>1, <2>2, <2>3 DEF Open
    <3> QED BY <2>1, <2>2, <2>3, <3>1 DEF Linked
  <2> QED BY <2>1, <2>3 DEF UsesAnswered, Linked
<1>2. IInv => RequestsAnswerToolUses
  BY <1>1 DEF RequestsAnswerToolUses
<1> QED BY <1>2, AlwaysIInv, PTL

\* main (streamlit.py) finds each result it renders in st.session_state.tools.
THEOREM RenderedResultsAreStored == Spec => []RenderFindsResults
<1>1. IInv => RenderFindsResults
  BY DEF IInv, StoredInv
<1> QED BY <1>1, AlwaysIInv, PTL

-----------------------------------------------------------------------------
(* Cache breakpoints. *)

R(i, U) == Cardinality({j \in U : j >= i})
Recent(U) == {i \in U : R(i, U) <= 3}
\* Where the breakpoints are with one message of the user after them.
Before(U) == {i \in U : 2 <= R(i, U) /\ R(i, U) <= 4}

\* Each request finds at most one message of the user that the last one, made
\* of the same conversation with the same provider, has not seen: unless a page was
\* run again before it asked, and got another message.
OneBehind ==
  /\ Cached = Before(UserMessages)
  /\ pc = "request" \/ (driver = "streamlit" /\ pc \in {"posted", "idle"} /\ Unasked)
CacheInv ==
  /\ pc = "called" /\ provider = "anthropic" => Recent(UserMessages) \subseteq Cached
  /\ provider = "anthropic" /\ ~switched /\ ~overtaken =>
       Cached = Recent(UserMessages) \/ OneBehind

LEMMA RankIsR == \A i : Rank(i) = R(i, UserMessages)
BY DEF Rank, R

LEMMA UsersAppended ==
  ASSUME Shape, NEW m \in Msgs(Nat), messages' = Append(messages, m), ~m.cached
  PROVE  /\ Cached' = Cached
         /\ m.role = "assistant" => UserMessages' = UserMessages
         /\ m.role = "user" => UserMessages' = UserMessages \cup {Len(messages) + 1}
<1>1. Len(messages) \in Nat /\ DOMAIN messages = 1 .. Len(messages)
  BY Fields
<1>2. /\ Len(messages') = Len(messages) + 1 /\ DOMAIN messages' = 1 .. Len(messages')
      /\ \A i \in 1 .. Len(messages) : messages'[i] = messages[i]
      /\ messages'[Len(messages')] = m
  BY Appended
<1>3. DOMAIN messages' = DOMAIN messages \cup {Len(messages) + 1}
  BY <1>1, <1>2
<1>4. Cached' = Cached
  BY <1>1, <1>2, <1>3 DEF Cached
<1>5. m.role = "assistant" => UserMessages' = UserMessages
  BY <1>1, <1>2, <1>3 DEF UserMessages
<1>6. m.role = "user" => UserMessages' = UserMessages \cup {Len(messages) + 1}
  BY <1>1, <1>2, <1>3 DEF UserMessages
<1> QED BY <1>4, <1>5, <1>6

\* A new message of the user moves all the others one rank up.
LEMMA RanksMove ==
  ASSUME NEW n \in Nat, NEW U \in SUBSET (1 .. n)
  PROVE  Recent(U) = Before(U \cup {n + 1})
<1> DEFINE W == U \cup {n + 1}
           Above(i) == {j \in U : j >= i}
<1>0. U \subseteq 1 .. n /\ n + 1 \notin U /\ \A i \in U : i \in Nat /\ i <= n
  OBVIOUS
<1>1. IsFiniteSet(U)
  <2>1. IsFiniteSet(1 .. n)
    BY FS_Interval
  <2> QED BY <1>0, <2>1, FS_Subset
<1>2. ASSUME NEW i \in U PROVE R(i, U) \in Nat \ {0} /\ R(i, W) = R(i, U) + 1
  <2>1. IsFiniteSet(Above(i)) /\ n + 1 \notin Above(i)
    BY <1>0, <1>1, FS_Subset
  <2>2. {j \in W : j >= i} = Above(i) \cup {n + 1}
    BY <1>0, <1>2
  <2>3. Cardinality(Above(i) \cup {n + 1}) = Cardinality(Above(i)) + 1
    BY <2>1, FS_AddElement
  <2>4. Above(i) # {}
    BY <1>0
  <2>5. Cardinality(Above(i)) \in Nat \ {0}
    BY <2>1, <2>4, FS_CardinalityType, FS_EmptySet
  <2> HIDE DEF W
  <2> QED BY <2>2, <2>3, <2>5 DEF R
<1>3. R(n + 1, W) = 1
  <2>1. \A j \in W : j >= n + 1 <=> j = n + 1
    BY <1>0
  <2>2. {j \in W : j >= n + 1} = {n + 1}
    BY <2>1
  <2> QED BY <2>2, FS_Singleton DEF R
<1> HIDE DEF W
<1>4. Recent(U) = {i \in U : 2 <= R(i, W) /\ R(i, W) <= 4}
  <2>1. \A i \in U : R(i, U) <= 3 <=> 2 <= R(i, W) /\ R(i, W) <= 4
    BY <1>2
  <2> QED BY <2>1 DEF Recent
<1>5. Before(W) = {i \in U : 2 <= R(i, W) /\ R(i, W) <= 4}
  BY <1>3 DEF Before, W
<1> QED BY <1>4, <1>5 DEF W

\* A request moves the breakpoints to the three most recent messages of the user.
LEMMA BreakpointsMove ==
  ASSUME Shape, messages' = Prepared, provider = "anthropic"
  PROVE  /\ Recent(UserMessages') \subseteq Cached'
         /\ Cached = Recent(UserMessages) \/ Cached = Before(UserMessages) =>
              Cached' = Recent(UserMessages')
<1>1. /\ DOMAIN messages' = DOMAIN messages
      /\ \A i \in DOMAIN messages : /\ messages'[i].role = messages[i].role
                                    /\ messages'[i].cached = _inject_prompt_caching(i)
  BY PreparedMessages
<1>2. UserMessages' = UserMessages
  BY <1>1 DEF UserMessages
<1>3. \A i : R(i, UserMessages) \in Nat
  BY RankTyped, RankIsR
<1>4. ASSUME NEW i \in DOMAIN messages,
             Cached = Recent(UserMessages) \/ Cached = Before(UserMessages)
      PROVE  _inject_prompt_caching(i) <=> i \in Recent(UserMessages)
  <2>1. messages[i].cached <=> i \in Cached
    BY DEF Cached
  <2>2. CASE i \notin UserMessages
    BY <1>4, <2>1, <2>2 DEF _inject_prompt_caching, Recent, Before
  <2>3. CASE i \in UserMessages /\ R(i, UserMessages) > 4
    BY <1>3, <1>4, <2>1, <2>3, RankIsR DEF _inject_prompt_caching, Recent, Before
  <2>4. CASE i \in UserMessages /\ ~(R(i, UserMessages) > 4)
    BY <1>3, <2>4, RankIsR DEF _inject_prompt_caching, Recent
  <2> QED BY <2>2, <2>3, <2>4
<1>5. Recent(UserMessages) \subseteq DOMAIN messages
  BY DEF Recent, UserMessages
<1>6. \A i \in Recent(UserMessages) : _inject_prompt_caching(i)
  BY <1>3, RankIsR DEF _inject_prompt_caching, Recent
<1> QED BY <1>1, <1>2, <1>4, <1>5, <1>6 DEF Cached

LEMMA EmptyCached == messages = <<>> => Cached = Recent(UserMessages)
<1> SUFFICES ASSUME messages = <<>> PROVE Cached = Recent(UserMessages)
  OBVIOUS
<1>1. DOMAIN messages = {}
  OBVIOUS
<1> QED BY <1>1 DEF Cached, Recent, UserMessages

\* A new message of the user, between two requests.
LEMMA UserAppended ==
  ASSUME Shape, Cached = Recent(UserMessages), NEW m \in Msgs(Nat), ~m.cached,
         m.role = "user", messages' = Append(messages, m)
  PROVE  Cached' = Before(UserMessages')
<1>1. Len(messages) \in Nat /\ UserMessages \subseteq 1 .. Len(messages)
  BY Fields DEF UserMessages
<1>2. Cached' = Cached /\ UserMessages' = UserMessages \cup {Len(messages) + 1}
  BY UsersAppended
<1> QED BY <1>1, <1>2, RanksMove

LEMMA InitCacheInv == Init => CacheInv
BY EmptyCached DEF Init, CacheInv

LEMMA StepCacheInv == IInv /\ CacheInv /\ [Next]_vars => CacheInv'
<1> SUFFICES ASSUME IInv, CacheInv, [Next]_vars, provider' = "anthropic"
    PROVE  /\ pc' = "called" => Recent(UserMessages') \subseteq Cached'
           /\ ~switched' /\ ~overtaken' => Cached' = Recent(UserMessages') \/ OneBehind'
  BY DEF CacheInv
<1> DEFINE Calm == ~switched' /\ ~overtaken'
<1>t. Shape /\ MaxUses \in Nat /\ 0 \in 0 .. MaxUses
  BY LoopAssumption DEF IInv
<1>k. ASSUME UNCHANGED messages
      PROVE  Cached' = Cached /\ UserMessages' = UserMessages /\ (Unasked' <=> Unasked)
  BY <1>k DEF Cached, UserMessages, Unasked
<1>1. CASE Request
  BY <1>1, <1>t, BreakpointsMove DEF Request, CacheInv, OneBehind
<1>2. CASE ApiFails \/ ToolRaises \/ AnswerEnds \/ Rerun \/ Interrupt \/ track_sampling_loop
  BY <1>2, <1>k DEF ApiFails, ToolRaises, AnswerEnds, Rerun, Interrupt, track_sampling_loop,
                    Return, CacheInv, OneBehind
<1>3. ASSUME NEW image \in {0, 1}, RunTool(image)
      PROVE  pc' # "called" /\ (Calm => Cached' = Recent(UserMessages'))
  BY <1>3, <1>k DEF RunTool, CacheInv, OneBehind
<1>4. ASSUME NEW k \in 0 .. MaxUses, ApiAnswers(k) 
      PROVE  pc' # "called" /\ (Calm => Cached' = Recent(UserMessages'))
  <2> DEFINE m == [Blank("assistant") EXCEPT !.uses = k]
  <2>1. m \in Msgs(Nat) /\ m.role = "assistant" /\ ~m.cached
    BY NewMessage, 0 \in Nat
  <2>2. messages' = Append(messages, m)
    BY <1>4 DEF ApiAnswers
  <2> HIDE DEF m
  <2>3. Cached' = Cached /\ UserMessages' = UserMessages
    BY <1>t, <2>1, <2>2, UsersAppended
  <2> QED BY <1>4, <2>3 DEF ApiAnswers, CacheInv, OneBehind
<1>5. CASE ToolsEnd
  <2> DEFINE m == [Blank("user") EXCEPT !.answers = done, !.images = shots]
  <2>1. done \in 0 .. MaxUses /\ shots \in Nat
    BY <1>5, <1>t, Fields DEF ToolsEnd, IInv, OpenInv, Control
  <2>2. m \in Msgs(Nat) /\ m.role = "user" /\ ~m.cached
    BY <2>1, NewMessage DEF Blank, Msgs
  <2>3. messages' = Append(messages, m)
    BY <1>5 DEF ToolsEnd
  <2> HIDE DEF m
  <2>4. (Calm => Cached = Recent(UserMessages)) /\ pc' = "request"
    BY <1>5 DEF ToolsEnd, CacheInv, OneBehind
  <2> QED BY <1>t, <2>2, <2>3, <2>4, UserAppended DEF OneBehind
<1>6. CASE WorkerMessage
  <2>1. Blank("user") \in Msgs(Nat) /\ Blank("user").role = "user" /\ ~Blank("user").cached
    BY <1>t, NewMessage, 0 \in Nat
  <2>2. messages' = Append(messages, Blank("user"))
    BY <1>6 DEF WorkerMessage
  <2>3. (Calm => Cached = Recent(UserMessages)) /\ pc' = "request"
    BY <1>6 DEF WorkerMessage, CacheInv, OneBehind
  <2> QED BY <1>t, <2>1, <2>2, <2>3, UserAppended DEF OneBehind
<1>7. CASE ChatMessage
  <2> DEFINE healed == maybe_add_interruption_blocks
             m == [Blank("user") EXCEPT !.ours = TRUE, !.answers = healed]
  <2>1. healed \in 0 .. MaxUses
    BY <1>7, <1>t, Fields DEF ChatMessage, maybe_add_interruption_blocks
  <2>2. m \in Msgs(Nat) /\ m.role = "user" /\ ~m.cached /\ m.ours
    <3>1. m \in Msgs(Nat) /\ m.role = "user" /\ ~m.cached
      BY <2>1, NewMessage, 0 \in Nat
    <3> QED BY <3>1 DEF Blank
  <2>3. messages' = Append(messages, m)
    BY <1>7 DEF ChatMessage
  <2> HIDE DEF m, healed
  <2>4. /\ Calm => Cached = Recent(UserMessages)
        /\ driver' = "streamlit" /\ pc' = "posted"
    BY <1>7 DEF ChatMessage, CacheInv, OneBehind
  <2>5. Unasked'
    <3>1. messages' # <<>> /\ messages'[Len(messages')] = m
      BY <1>t, <2>2, <2>3, Appended
    <3> QED BY <2>2, <3>1 DEF Unasked
  <2> QED BY <1>t, <2>2, <2>3, <2>4, <2>5, UserAppended DEF OneBehind
<1>8. CASE SwitchProvider
  BY <1>8, <1>k, EmptyCached DEF SwitchProvider
<1>9. CASE Reset
  <2>1. DOMAIN messages' = {}
    BY <1>9 DEF Reset
  <2>2. pc' # "called"
    BY <1>9 DEF Reset
  <2> QED BY <2>1, <2>2 DEF Cached, Recent, UserMessages
<1>10. CASE UNCHANGED vars
  BY <1>10, <1>k DEF vars, CacheInv, OneBehind
<1> QED
  BY <1>1, <1>2, <1>3, <1>4, <1>5, <1>6, <1>7, <1>8, <1>9, <1>10 DEF Next

\* _inject_prompt_caching (loop.py) moves the breakpoints by one message, which is
\* enough for every conversation that stays with Anthropic and in which the page
\* asks with each message before it gets the next.
THEOREM BreakpointsFollow == Spec => []BreakpointsAreRecent
<1>1. CacheInv => BreakpointsAreRecent
  BY RankIsR DEF CacheInv, OneBehind, BreakpointsAreRecent, Recent
<1>2. IInv /\ CacheInv /\ [Next]_vars => CacheInv'
  BY StepCacheInv
<1> QED BY <1>1, <1>2, InitCacheInv, AlwaysIInv, PTL DEF Spec

-----------------------------------------------------------------------------
(* Numbers of images. *)

\* Those of the first n messages of s.
Names(s, n) == UNION {UsesOf(i, s[i].images) : i \in 1 .. n}
Total(s, n) == Cardinality(Names(s, n))

\* Induction up to n, for the set of the numbers that something holds of.
LEMMA UpTo ==
  ASSUME NEW n \in Nat, NEW S, 0 \in S, \A m \in 0 .. n - 1 : m \in S => m + 1 \in S
  PROVE  \A m \in 0 .. n : m \in S
<1> DEFINE T == {m \in 0 .. n : m \notin S}
<1>1. T \subseteq Nat
  OBVIOUS
<1>2. SUFFICES ASSUME NEW k \in T PROVE FALSE
  OBVIOUS
<1> HIDE DEF T
<1>3. PICK m \in T : \A j \in T : <<j, m>> \notin OpToRel(<, Nat)
  BY <1>1, <1>2, NatLessThanWellFounded, WFMin
<1>4. m \in 0 .. n /\ m \notin S /\ m # 0
  BY <1>3 DEF T
<1>5. m - 1 \in 0 .. n - 1 /\ m - 1 \in Nat /\ m \in Nat /\ (m - 1) + 1 = m /\ m - 1 < m
      /\ m - 1 \in 0 .. n
  BY <1>4
<1>6. m - 1 \notin S
  BY <1>4, <1>5
<1>7. m - 1 \in T
  BY <1>5, <1>6 DEF T
<1> QED BY <1>3, <1>5, <1>7 DEF OpToRel

LEMMA NamesOfOne ==
  ASSUME NEW i, NEW k \in Nat
  PROVE  IsFiniteSet(UsesOf(i, k)) /\ Cardinality(UsesOf(i, k)) = k
<1> DEFINE f == [j \in 1 .. k |-> <<i, j>>]
<1>1. IsFiniteSet(1 .. k) /\ Cardinality(1 .. k) = k
  <2>1. Cardinality(1 .. k) = IF 1 > k THEN 0 ELSE k - 1 + 1
    BY FS_Interval
  <2> QED BY <2>1, FS_Interval
<1>2. UsesOf(i, k) = {<<i, j>> : j \in 1 .. k}
  BY DEF UsesOf
<1>3. f \in [1 .. k -> UsesOf(i, k)]
  BY <1>2
<1>4. \A a, b \in 1 .. k : f[a] = f[b] => a = b
  OBVIOUS
<1>5. \A u \in UsesOf(i, k) : \E j \in 1 .. k : f[j] = u
  BY <1>2
<1> HIDE DEF f
<1>6. f \in Bijection(1 .. k, UsesOf(i, k))
  <2>1. IsInjective(f)
    BY <1>3, <1>4 DEF IsInjective
  <2> QED BY <1>3, <1>5, <2>1 DEF Bijection, Injection, Surjection
<1>7. ExistsBijection(1 .. k, UsesOf(i, k))
  BY <1>6 DEF ExistsBijection
<1> QED BY <1>1, <1>7, FS_Bijection

LEMMA DisjointCount ==
  ASSUME NEW S, NEW T, IsFiniteSet(S), IsFiniteSet(T), S \cap T = {}
  PROVE  /\ IsFiniteSet(S \cup T)
         /\ Cardinality(S \cup T) = Cardinality(S) + Cardinality(T)
<1>1. Cardinality(S) \in Nat /\ Cardinality(T) \in Nat
  BY FS_CardinalityType
<1>2. Cardinality(S \cap T) = 0
  BY FS_EmptySet
<1>3. Cardinality(S \cup T) = Cardinality(S) + Cardinality(T) - Cardinality(S \cap T)
  BY FS_Union
<1> QED BY <1>1, <1>2, <1>3, FS_Union

\* The total is the sum of the images of the messages.
LEMMA TotalStep ==
  ASSUME NEW s \in Seq(Msgs(Nat))
  PROVE  /\ Total(s, 0) = 0
         /\ \A n \in 0 .. Len(s) : IsFiniteSet(Names(s, n)) /\ Total(s, n) \in Nat
         /\ \A n \in 0 .. Len(s) - 1 : Total(s, n + 1) = Total(s, n) + s[n + 1].images
<1>0. Len(s) \in Nat /\ \A i \in 1 .. Len(s) : s[i].images \in Nat
  <2>1. \A i \in 1 .. Len(s) : s[i] \in Msgs(Nat)
    OBVIOUS
  <2> QED BY <2>1 DEF Msgs
<1>1. Names(s, 0) = {}
  BY DEF Names
<1>2. IsFiniteSet(Names(s, 0)) /\ Total(s, 0) = 0
  BY <1>1, FS_EmptySet DEF Total
<1>3. ASSUME NEW n \in 0 .. Len(s) - 1
      PROVE  /\ Names(s, n + 1) = Names(s, n) \cup UsesOf(n + 1, s[n + 1].images)
             /\ Names(s, n) \cap UsesOf(n + 1, s[n + 1].images) = {}
             /\ s[n + 1].images \in Nat
  <2>1. n + 1 \in 1 .. Len(s) /\ 1 .. n + 1 = (1 .. n) \cup {n + 1} /\ n + 1 \notin 1 .. n
    BY <1>0
  <2>2. Names(s, n + 1) = Names(s, n) \cup UsesOf(n + 1, s[n + 1].images)
    BY <2>1 DEF Names
  <2>3. Names(s, n) \cap UsesOf(n + 1, s[n + 1].images) = {}
    BY <2>1 DEF Names, UsesOf
  <2> QED BY <1>0, <2>1, <2>2, <2>3
<1>4. \A n \in 0 .. Len(s) : IsFiniteSet(Names(s, n))
  <2> DEFINE S == {n \in 0 .. Len(s) : IsFiniteSet(Names(s, n))}
  <2>1. 0 \in S
    BY <1>0, <1>2
  <2>2. ASSUME NEW n \in 0 .. Len(s) - 1, n \in S PROVE n + 1 \in S
    <3>1. IsFiniteSet(Names(s, n)) /\ IsFiniteSet(UsesOf(n + 1, s[n + 1].images))
      BY <1>3, <2>2, NamesOfOne
    <3>2. IsFiniteSet(Names(s, n) \cup UsesOf(n + 1, s[n + 1].images))
      BY <1>3, <3>1, DisjointCount, Zenon
    <3>3. n + 1 \in 0 .. Len(s)
      BY <1>0
    <3> QED BY <1>3, <3>2, <3>3, Zenon
  <2> HIDE DEF S
  <2>3. \A n \in 0 .. Len(s) : n \in S
    BY <1>0, <2>1, <2>2, UpTo
  <2> QED BY <2>3 DEF S
<1>5. \A n \in 0 .. Len(s) : Total(s, n) \in Nat
  BY <1>4, FS_CardinalityType DEF Total
<1>6. ASSUME NEW n \in 0 .. Len(s) - 1
      PROVE  Total(s, n + 1) = Total(s, n) + s[n + 1].images
  <2>1. n \in 0 .. Len(s)
    BY <1>0
  <2>2. IsFiniteSet(Names(s, n)) /\ IsFiniteSet(UsesOf(n + 1, s[n + 1].images))
        /\ Cardinality(UsesOf(n + 1, s[n + 1].images)) = s[n + 1].images
    BY <1>3, <1>4, <2>1, NamesOfOne
  <2>3. Cardinality(Names(s, n) \cup UsesOf(n + 1, s[n + 1].images))
          = Cardinality(Names(s, n)) + Cardinality(UsesOf(n + 1, s[n + 1].images))
    BY <1>3, <2>2, DisjointCount
  <2> QED BY <1>3, <2>2, <2>3 DEF Total
<1> QED BY <1>2, <1>4, <1>5, <1>6

\* Only the images count.
LEMMA SameTotal ==
  ASSUME NEW s, NEW t, NEW n, \A i \in 1 .. n : s[i].images = t[i].images
  PROVE  Total(s, n) = Total(t, n)
<1>1. Names(s, n) = Names(t, n)
  BY DEF Names
<1> QED BY <1>1 DEF Total

LEMMA TotalIsImagesIn ==
  ASSUME messages \in Seq(Msgs(Nat))
  PROVE  /\ ImagesIn(DOMAIN messages) = Total(messages, Len(messages))
         /\ \A i \in DOMAIN messages :
              ImagesIn({j \in DOMAIN messages : j < i}) = Total(messages, i - 1)
<1>1. DOMAIN messages = 1 .. Len(messages) /\ Len(messages) \in Nat
  OBVIOUS
<1>2. ImagesIn(DOMAIN messages) = Total(messages, Len(messages))
  BY <1>1 DEF ImagesIn, Total, Names
<1>3. ASSUME NEW i \in DOMAIN messages
      PROVE  ImagesIn({j \in DOMAIN messages : j < i}) = Total(messages, i - 1)
  <2>1. {j \in DOMAIN messages : j < i} = 1 .. i - 1
    BY <1>1
  <2> QED BY <2>1 DEF ImagesIn, Total, Names
<1> QED BY <1>2, <1>3

-----------------------------------------------------------------------------
(* What _maybe_filter_to_n_most_recent_images leaves of the images. *)

LEMMA LargerOf ==
  ASSUME NEW a \in Int, NEW b \in Int
  PROVE  /\ Max({a, b}) = IF a >= b THEN a ELSE b
         /\ Min({a, b}) = IF a <= b THEN a ELSE b
<1>1. CASE a <= b
  <2>1. \E x \in {a, b} : \A y \in {a, b} : x >= y
    BY <1>1
  <2>2. Max({a, b}) \in {a, b} /\ \A y \in {a, b} : Max({a, b}) >= y
    BY <2>1 DEF Max
  <2>3. \E x \in {a, b} : \A y \in {a, b} : x <= y
    BY <1>1
  <2>4. Min({a, b}) \in {a, b} /\ \A y \in {a, b} : Min({a, b}) <= y
    BY <2>3 DEF Min
  <2> QED BY <1>1, <2>2, <2>4
<1>2. CASE ~(a <= b)
  <2>1. \E x \in {a, b} : \A y \in {a, b} : x >= y
    BY <1>2
  <2>2. Max({a, b}) \in {a, b} /\ \A y \in {a, b} : Max({a, b}) >= y
    BY <2>1 DEF Max
  <2>3. \E x \in {a, b} : \A y \in {a, b} : x <= y
    BY <1>2
  <2>4. Min({a, b}) \in {a, b} /\ \A y \in {a, b} : Min({a, b}) <= y
    BY <2>3 DEF Min
  <2> QED BY <1>2, <2>2, <2>4
<1> QED BY <1>1, <1>2

\* How many of the first b images go if r are to be removed.
Gone(b, r) == IF r <= 0 THEN 0 ELSE IF b <= r THEN b ELSE r

LEMMA GoneStep ==
  ASSUME NEW r \in Int, NEW b \in Nat, NEW k \in Nat
  PROVE  /\ k - Max({0, Min({k, r - b})}) \in Nat
         /\ (k - Max({0, Min({k, r - b})})) + (b - Gone(b, r)) = (b + k) - Gone(b + k, r)
         /\ Gone(b, r) \in Nat
<1>1. Min({k, r - b}) = IF k <= r - b THEN k ELSE r - b
  <2>1. r - b \in Int /\ k \in Int
    OBVIOUS
  <2> QED BY <2>1, LargerOf, Zenon
<1>2. Min({k, r - b}) \in Int
  BY <1>1
<1>3. Max({0, Min({k, r - b})}) = IF 0 >= Min({k, r - b}) THEN 0 ELSE Min({k, r - b})
  BY <1>2, LargerOf
<1>4. Max({0, Min({k, r - b})}) =
        IF r - b <= 0 THEN 0 ELSE IF k <= r - b THEN k ELSE r - b
  BY <1>1, <1>3
<1>5. CASE r - b <= 0
  BY <1>4, <1>5 DEF Gone
<1>6. CASE ~(r - b <= 0) /\ k <= r - b
  BY <1>4, <1>6 DEF Gone
<1>7. CASE ~(r - b <= 0) /\ ~(k <= r - b)
  BY <1>4, <1>7 DEF Gone
<1> QED BY <1>5, <1>6, <1>7

\* Less than two chunks are left, and one chunk at least if there was one.
LEMMA ChunksLeft ==
  ASSUME NEW t \in Nat, NEW c \in Nat \ {0}
  PROVE  LET excess == t - c
             left   == t - Gone(t, excess - (excess % c))
         IN /\ excess - (excess % c) \in Int
            /\ left \in Nat /\ left < 2 * c /\ left <= t
            /\ left >= c \/ left = t
<1> DEFINE excess == t - c
           m == excess % c
<1>1. excess \in Int /\ excess = t - c
  OBVIOUS
<1>2. m \in 0 .. c - 1
  BY <1>1
<1> HIDE DEF excess, m
<1> DEFINE r == excess - m
<1>3. r \in Int /\ r = t - c - m /\ m \in Nat /\ m < c
  BY <1>1, <1>2
<1> HIDE DEF r
<1> DEFINE left == t - Gone(t, r)
<1>4. left \in Nat /\ left < 2 * c /\ left <= t /\ (left >= c \/ left = t)
  <2>1. CASE r <= 0
    <3>1. Gone(t, r) = 0
      BY <2>1 DEF Gone
    <3>2. left = t
      BY <3>1
    <3> HIDE DEF left
    <3> QED BY <1>3, <2>1, <3>2
  <2>2. CASE ~(r <= 0)
    <3>1. r <= t
      BY <1>3
    <3>2. Gone(t, r) = r
      BY <1>3, <2>2, <3>1 DEF Gone
    <3>3. left = c + m
      BY <1>3, <3>2
    <3>4. c + m <= t
      BY <1>3, <2>2
    <3> HIDE DEF left
    <3> QED BY <1>3, <3>3, <3>4
  <2> QED BY <2>1, <2>2
<1> QED BY <1>3, <1>4 DEF r, m, excess

\* A request that filters: after it the first n messages have lost all the
\* images that are to be removed, or all they had.
LEMMA FilteredTotal ==
  ASSUME messages \in Seq(Msgs(Nat)), provider # "anthropic", Keep > 0, messages' = Prepared
  PROVE  /\ messages' \in Seq(Msgs(Nat)) /\ Len(messages') = Len(messages)
         /\ Total(messages', Len(messages)) =
              Total(messages, Len(messages)) -
              Gone(Total(messages, Len(messages)), ImagesToRemove)
<1> DEFINE n == Len(messages)
           r == ImagesToRemove
           kept(i) == _maybe_filter_to_n_most_recent_images(i)
<1>0. Keep \in Nat \ {0}
  BY LoopAssumption
<1>1. n \in Nat /\ DOMAIN messages = 1 .. n /\ \A i \in 1 .. n : messages[i] \in Msgs(Nat)
  OBVIOUS
<1>2. /\ \A i \in 0 .. n : Total(messages, i) \in Nat
      /\ \A i \in 0 .. n - 1 :
           Total(messages, i + 1) = Total(messages, i) + messages[i + 1].images
      /\ Total(messages, 0) = 0
  BY TotalStep
<1>3. r \in Int
  <2>1. ImagesIn(DOMAIN messages) \in Nat
    BY <1>1, <1>2, TotalIsImagesIn
  <2> QED BY <1>0, <2>1, ChunksLeft DEF ImagesToRemove
<1>4. messages' = [i \in DOMAIN messages |-> [messages[i] EXCEPT !.images = kept(i)]]
  BY DEF Prepared
<1>5. ASSUME NEW i \in 0 .. n - 1
      PROVE  /\ kept(i + 1) \in Nat /\ i + 1 \in 1 .. n /\ i \in 0 .. n /\ i + 1 \in 0 .. n
             /\ kept(i + 1) + (Total(messages, i) - Gone(Total(messages, i), r)) =
                  Total(messages, i + 1) - Gone(Total(messages, i + 1), r)
             /\ Gone(Total(messages, i), r) \in Nat
  <2> DEFINE b == Total(messages, i)
             k == messages[i + 1].images
  <2>1. i + 1 \in 1 .. n /\ i \in 0 .. n /\ i + 1 \in 0 .. n /\ (i + 1) - 1 = i
    BY <1>1
  <2>2. k \in Nat
    <3>1. messages[i + 1] \in Msgs(Nat)
      BY <1>1, <2>1
    <3> QED BY <3>1 DEF Msgs
  <2>3. ImagesIn({j \in DOMAIN messages : j < i + 1}) = b
    BY <1>1, <2>1, TotalIsImagesIn
  <2>4. kept(i + 1) = k - Max({0, Min({k, r - b})})
    BY <2>3 DEF _maybe_filter_to_n_most_recent_images
  <2>5. b \in Nat /\ Total(messages, i + 1) = b + k
    BY <1>2, <2>1
  <2> HIDE DEF r, kept, b, k
  <2>6. /\ kept(i + 1) \in Nat /\ Gone(b, r) \in Nat
        /\ kept(i + 1) + (b - Gone(b, r)) = (b + k) - Gone(b + k, r)
    <3>1. /\ k - Max({0, Min({k, r - b})}) \in Nat
          /\ (k - Max({0, Min({k, r - b})})) + (b - Gone(b, r)) = (b + k) - Gone(b + k, r)
          /\ Gone(b, r) \in Nat
      BY <1>3, <2>2, <2>5, GoneStep
    <3> QED BY <2>4, <3>1, Zenon
  <2> QED BY <2>1, <2>5, <2>6 DEF b
<1>6. \A i \in 1 .. n : kept(i) \in Nat
  <2> SUFFICES ASSUME NEW i \in 1 .. n PROVE kept(i) \in Nat
    OBVIOUS
  <2>1. i - 1 \in 0 .. n - 1 /\ (i - 1) + 1 = i
    BY <1>1
  <2> HIDE DEF kept
  <2>2. kept((i - 1) + 1) \in Nat
    BY <1>5, <2>1
  <2> QED BY <2>1, <2>2
<1> HIDE DEF kept, r
<1>7. /\ DOMAIN messages' = 1 .. n /\ IsAFcn(messages')
      /\ \A i \in 1 .. n : messages'[i] \in Msgs(Nat) /\ messages'[i].images = kept(i)
  <2>1. DOMAIN messages' = 1 .. n /\ IsAFcn(messages')
    BY <1>1, <1>4 DEF IsAFcn
  <2>2. \A i \in 1 .. n : messages'[i] \in Msgs(Nat) /\ messages'[i].images = kept(i)
    <3> SUFFICES ASSUME NEW i \in 1 .. n
                 PROVE  messages'[i] \in Msgs(Nat) /\ messages'[i].images = kept(i)
      OBVIOUS
    <3>1. messages[i] \in Msgs(Nat) /\ kept(i) \in Nat
      BY <1>1, <1>6
    <3>2. messages'[i] = [messages[i] EXCEPT !.images = kept(i)]
      BY <1>1, <1>4
    <3> QED BY <3>1, <3>2 DEF Msgs
  <2> QED BY <2>1, <2>2
<1>8. messages' \in Seq(Msgs(Nat)) /\ Len(messages') = n
  BY <1>1, <1>7, FunctionIsSeq
<1>9. /\ \A i \in 0 .. n : Total(messages', i) \in Nat
      /\ \A i \in 0 .. n - 1 :
           Total(messages', i + 1) = Total(messages', i) + kept(i + 1)
      /\ Total(messages', 0) = 0
  <2>1. /\ \A i \in 0 .. n : Total(messages', i) \in Nat
        /\ \A i \in 0 .. n - 1 :
             Total(messages', i + 1) = Total(messages', i) + messages'[i + 1].images
        /\ Total(messages', 0) = 0
    BY <1>8, TotalStep
  <2>2. \A i \in 0 .. n - 1 : messages'[i + 1].images = kept(i + 1)
    BY <1>5, <1>7
  <2> QED BY <2>1, <2>2
<1> DEFINE S == {i \in 0 .. n : Total(messages', i) =
                                  Total(messages, i) - Gone(Total(messages, i), r)}
<1>10. 0 \in S
  <2>1. Gone(0, r) = 0
    BY <1>3 DEF Gone
  <2> QED BY <1>1, <1>2, <1>9, <2>1
<1>11. ASSUME NEW i \in 0 .. n - 1, i \in S PROVE i + 1 \in S
  <2>1. /\ Total(messages', i) = Total(messages, i) - Gone(Total(messages, i), r)
        /\ Total(messages', i + 1) = Total(messages', i) + kept(i + 1)
    BY <1>9, <1>11
  <2>2. /\ kept(i + 1) \in Nat /\ i + 1 \in 0 .. n
        /\ kept(i + 1) + (Total(messages, i) - Gone(Total(messages, i), r)) =
             Total(messages, i + 1) - Gone(Total(messages, i + 1), r)
        /\ Gone(Total(messages, i), r) \in Nat /\ Total(messages, i) \in Nat
    BY <1>2, <1>5
  <2>3. Total(messages', i + 1) =
          Total(messages, i + 1) - Gone(Total(messages, i + 1), r)
    BY <2>1, <2>2
  <2> QED BY <2>2, <2>3
<1> HIDE DEF S
<1>12. n \in S
  <2>1. \A i \in 0 .. n : i \in S
    BY <1>1, <1>10, <1>11, UpTo
  <2> QED BY <1>1, <2>1
<1> QED BY <1>8, <1>12 DEF S, r

-----------------------------------------------------------------------------
(* The types of the numbers, and the images that are kept. *)

Held == Total(messages, Len(messages))

CountInv ==
  /\ messages \in Seq(Msgs(Nat)) /\ Len(messages) <= MaxLen
  /\ done \in 0 .. MaxUses /\ shots \in 0 .. done /\ tools \subseteq ToolUse
  /\ images \in Nat

\* What is left between two requests may be more than two chunks, but is never
\* less than one, unless there have not been as many images.
ImageInv ==
  Keep > 0 =>
    /\ Held >= Min({Keep, images})
    /\ pc = "called" /\ provider = "other" => Held < 2 * Keep

FlagInv ==
  /\ driver \in Drivers /\ provider \in {"anthropic", "other"}
  /\ in_sampling_loop \in BOOLEAN /\ raised \in BOOLEAN /\ switched \in BOOLEAN
  /\ overtaken \in BOOLEAN

LEMMA AppendCounted ==
  ASSUME messages \in Seq(Msgs(Nat)), NEW m \in Msgs(Nat), messages' = Append(messages, m)
  PROVE  /\ messages' \in Seq(Msgs(Nat)) /\ Len(messages') = Len(messages) + 1
         /\ Held \in Nat /\ Held' = Held + m.images
<1> DEFINE n == Len(messages)
<1>1. n \in Nat
  OBVIOUS
<1>2. /\ messages' \in Seq(Msgs(Nat)) /\ Len(messages') = n + 1
      /\ messages'[n + 1] = m /\ \A i \in 1 .. n : messages[i] = messages'[i]
  OBVIOUS
<1> HIDE DEF n
<1>3. n \in 0 .. Len(messages') - 1 /\ n \in 0 .. n
  BY <1>1, <1>2
<1>4. Total(messages', n + 1) = Total(messages', n) + m.images
  BY <1>2, <1>3, TotalStep
<1>5. Total(messages, n) = Total(messages', n)
  BY <1>2, SameTotal
<1>6. Held \in Nat
  BY <1>3, TotalStep DEF Held, n
<1> QED BY <1>2, <1>4, <1>5, <1>6 DEF Held, n

\* A message without images.
LEMMA PlainAppended ==
  ASSUME CountInv, ImageInv, NEW m \in Msgs(Nat), m.images = 0,
         messages' = Append(messages, m), UNCHANGED images, pc' # "called"
  PROVE  messages' \in Seq(Msgs(Nat)) /\ Len(messages') = Len(messages) + 1 /\ ImageInv'
<1>1. /\ messages' \in Seq(Msgs(Nat)) /\ Len(messages') = Len(messages) + 1
      /\ Held \in Nat /\ Held' = Held + m.images
  BY AppendCounted DEF CountInv
<1>2. Held' = Held
  BY <1>1
<1>3. ImageInv'
  BY <1>2 DEF ImageInv
<1> QED BY <1>1, <1>3

LEMMA RequestImages ==
  ASSUME IInv, CountInv, ImageInv, FlagInv, Request
  PROVE  messages' \in Seq(Msgs(Nat)) /\ Len(messages') = Len(messages) /\ ImageInv'
<1>1. messages' = Prepared /\ messages \in Seq(Msgs(Nat)) /\ UNCHANGED <<provider, images>>
  BY DEF Request, CountInv
<1>2. Keep \in Nat /\ images \in Nat
  BY LoopAssumption DEF CountInv
<1>3. Held \in Nat /\ Len(messages) \in Nat /\ DOMAIN messages = 1 .. Len(messages)
      /\ ImagesIn(DOMAIN messages) = Held
  <2>1. Len(messages) \in Nat /\ DOMAIN messages = 1 .. Len(messages)
    BY <1>1
  <2>2. Len(messages) \in 0 .. Len(messages)
    BY <2>1
  <2> QED BY <1>1, <2>1, <2>2, TotalStep, TotalIsImagesIn DEF Held
<1>4. CASE provider = "anthropic" \/ ~(Keep > 0)
  <2>1. /\ Len(messages') = Len(messages) /\ DOMAIN messages' = DOMAIN messages
        /\ IsAFcn(messages')
        /\ \A i \in DOMAIN messages : messages'[i].images = messages[i].images
                                      /\ messages'[i] \in Msgs(Nat)
    <3>1. /\ Len(messages') = Len(messages) /\ DOMAIN messages' = DOMAIN messages
          /\ \A i \in DOMAIN messages :
               provider = "anthropic" => messages'[i].cached = _inject_prompt_caching(i)
      BY <1>1, PreparedMessages DEF IInv
    <3>2. Shape'
      BY <1>1, PreparedMessages DEF IInv
    <3>3. \A i \in DOMAIN messages : messages'[i].cached \in BOOLEAN
      <4>1. PICK X : messages' \in Seq(Msgs(X))
        BY <3>2 DEF Shape
      <4>2. \A i \in DOMAIN messages : messages'[i] \in Msgs(X)
        BY <3>1, <4>1
      <4> QED BY <4>2 DEF Msgs
    <3>4. \A i \in DOMAIN messages : messages[i] \in Msgs(Nat)
      BY <1>1
    <3>5. CASE provider = "anthropic"
      <4>1. messages' = [i \in DOMAIN messages |->
                          [messages[i] EXCEPT !.cached = _inject_prompt_caching(i)]]
        BY <1>1, <3>5 DEF Prepared
      <4>2. ASSUME NEW i \in DOMAIN messages
            PROVE  messages'[i].images = messages[i].images /\ messages'[i] \in Msgs(Nat)
        <5>1. _inject_prompt_caching(i) \in BOOLEAN
          BY <3>1, <3>3, <3>5
        <5>2. messages'[i] = [messages[i] EXCEPT !.cached = _inject_prompt_caching(i)]
          BY <4>1
        <5> QED BY <3>4, <5>1, <5>2 DEF Msgs
      <4>3. IsAFcn(messages')
        BY <4>1 DEF IsAFcn
      <4> QED BY <3>1, <4>2, <4>3
    <3>6. CASE provider # "anthropic"
      <4>1. messages' = [i \in DOMAIN messages |->
                          [messages[i] EXCEPT !.images = messages[i].images]]
        BY <1>1, <1>4, <3>6 DEF Prepared
      <4>2. ASSUME NEW i \in DOMAIN messages
            PROVE  messages'[i].images = messages[i].images /\ messages'[i] \in Msgs(Nat)
        BY <3>4, <4>1 DEF Msgs
      <4>3. IsAFcn(messages')
        BY <4>1 DEF IsAFcn
      <4> QED BY <3>1, <4>2, <4>3
    <3> QED BY <3>5, <3>6
  <2>2. messages' \in Seq(Msgs(Nat))
    BY <1>3, <2>1, FunctionIsSeq
  <2>3. Held' = Held
    <3>1. \A i \in 1 .. Len(messages) : messages'[i].images = messages[i].images
      BY <1>3, <2>1
    <3>2. Total(messages', Len(messages)) = Total(messages, Len(messages))
      BY <3>1, SameTotal
    <3> QED BY <2>1, <3>2 DEF Held
  <2>4. ImageInv'
    <3>1. CASE Keep > 0
      <4>1. provider' # "other"
        BY <1>1, <1>4, <3>1
      <4> QED BY <1>1, <2>3, <4>1 DEF ImageInv
    <3>2. CASE ~(Keep > 0)
      BY <3>2 DEF ImageInv
    <3> QED BY <3>1, <3>2
  <2> QED BY <2>1, <2>2, <2>4
<1>5. CASE provider # "anthropic" /\ Keep > 0
  <2>1. /\ messages' \in Seq(Msgs(Nat)) /\ Len(messages') = Len(messages)
        /\ Held' = Held - Gone(Held, ImagesToRemove)
    BY <1>1, <1>5, FilteredTotal DEF Held
  <2>2. ImagesToRemove = (Held - Keep) - ((Held - Keep) % Keep)
    BY <1>3 DEF ImagesToRemove
  <2>3. Held' \in Nat /\ Held' < 2 * Keep /\ Held' <= Held /\ (Held' >= Keep \/ Held' = Held)
    <3>1. Keep \in Nat \ {0}
      BY <1>2, <1>5
    <3>2. LET left == Held - Gone(Held, ImagesToRemove)
          IN  left \in Nat /\ left < 2 * Keep /\ left <= Held /\ (left >= Keep \/ left = Held)
      BY <1>3, <2>2, <3>1, ChunksLeft
    <3> QED BY <2>1, <3>2
  <2>4. Held' >= Min({Keep, images'})
    <3>1. Min({Keep, images}) = IF Keep <= images THEN Keep ELSE images
      BY <1>2, LargerOf
    <3>2. Held >= Min({Keep, images})
      BY <1>5 DEF ImageInv
    <3> QED BY <1>1, <1>2, <1>3, <2>3, <3>1, <3>2
  <2> QED BY <2>1, <2>3, <2>4 DEF ImageInv
<1> QED BY <1>4, <1>5

-----------------------------------------------------------------------------
(* Every step keeps them. *)

LEMMA InitNumbers == Init => CountInv /\ ImageInv /\ FlagInv
<1> SUFFICES ASSUME Init PROVE CountInv /\ ImageInv /\ FlagInv
  OBVIOUS
<1>0. Keep \in Nat /\ MaxLen \in Nat /\ MaxUses \in Nat
  BY LoopAssumption
<1>1. /\ messages = <<>> /\ done = 0 /\ shots = 0 /\ tools = {} /\ images = 0
      /\ pc = "idle"
  BY DEF Init
<1>2. messages \in Seq(Msgs(Nat)) /\ Len(messages) = 0
  BY <1>1
<1>3. CountInv
  BY <1>0, <1>1, <1>2 DEF CountInv
<1>4. Held = 0
  BY <1>2, TotalStep DEF Held
<1>5. ImageInv
  <2>1. Keep > 0 => Min({Keep, 0}) = 0
    BY <1>0, LargerOf
  <2> QED BY <1>1, <1>4, <2>1 DEF ImageInv
<1>6. FlagInv
  BY DEF Init, FlagInv
<1> QED BY <1>3, <1>5, <1>6

LEMMA StepFlags == FlagInv /\ [Next]_vars => FlagInv'
<1> SUFFICES ASSUME FlagInv, [Next]_vars PROVE FlagInv'
  OBVIOUS
<1>1. CASE Request \/ ApiFails \/ (\E k \in 0 .. MaxUses : ApiAnswers(k))
           \/ (\E image \in {0, 1} : RunTool(image)) \/ AnswerEnds \/ ToolsEnd
  BY <1>1 DEF FlagInv, Request, ApiFails, ApiAnswers, RunTool, AnswerEnds, ToolsEnd, Return
<1>2. CASE WorkerMessage \/ track_sampling_loop \/ Rerun \/ Interrupt \/ Reset
  BY <1>2 DEF FlagInv, WorkerMessage, track_sampling_loop, Rerun, Interrupt, Reset
<1>3. CASE ToolRaises
  <2>1. raised' \in BOOLEAN
    BY <1>3 DEF FlagInv, ToolRaises
  <2> QED BY <1>3, <2>1 DEF FlagInv, ToolRaises
<1>4. CASE SwitchProvider
  <2>1. switched' \in BOOLEAN
    BY <1>4 DEF FlagInv, SwitchProvider
  <2> QED BY <1>4, <2>1 DEF FlagInv, SwitchProvider
<1>5. CASE UNCHANGED vars
  BY <1>5 DEF FlagInv, vars
<1>6. CASE ChatMessage
  <2>1. overtaken' \in BOOLEAN
    BY <1>6 DEF FlagInv, ChatMessage
  <2> QED BY <1>6, <2>1 DEF FlagInv, ChatMessage
<1> QED BY <1>1, <1>2, <1>3, <1>4, <1>5, <1>6 DEF Next

\* A step that leaves the messages and the provider alone, and does not call.
LEMMA ImagesStay ==
  ASSUME ImageInv, UNCHANGED <<messages, images>>,
         pc' = "called" => pc = "called" /\ UNCHANGED provider
  PROVE  ImageInv'
BY DEF ImageInv, Held

LEMMA StepNumbers ==
  ASSUME IInv, CountInv, ImageInv, FlagInv, [Next]_vars
  PROVE  CountInv' /\ ImageInv'
<1>t. /\ Keep \in Nat /\ MaxLen \in Nat /\ MaxUses \in Nat
      /\ messages \in Seq(Msgs(Nat)) /\ Len(messages) \in Nat /\ Len(messages) <= MaxLen
      /\ DOMAIN messages = 1 .. Len(messages)
      /\ done \in Nat /\ done <= MaxUses /\ shots \in Nat /\ shots <= done
      /\ tools \subseteq ToolUse /\ images \in Nat
  BY LoopAssumption DEF CountInv
<1>1. CASE Request
  BY <1>1, <1>t, RequestImages DEF Request, CountInv
<1>2. CASE ApiFails \/ ToolRaises \/ AnswerEnds \/ track_sampling_loop \/ Rerun \/ Interrupt
           \/ SwitchProvider
  <2>1. UNCHANGED <<messages, done, shots, tools, images>> /\ pc' # "called"
    BY <1>2 DEF ApiFails, ToolRaises, AnswerEnds, track_sampling_loop, Rerun, Interrupt,
                SwitchProvider, Return
  <2> QED BY <2>1, ImagesStay DEF CountInv
<1>3. ASSUME NEW k \in 0 .. MaxUses, ApiAnswers(k) PROVE CountInv' /\ ImageInv'
  <2> DEFINE m == [Blank("assistant") EXCEPT !.uses = k]
  <2>1. m \in Msgs(Nat)
    BY NewMessage, 0 \in Nat
  <2>2. m.images = 0
    BY DEF Blank
  <2>3. /\ messages' = Append(messages, m) /\ UNCHANGED <<images, tools>> /\ pc' # "called"
        /\ Len(messages) < MaxLen /\ done' = 0 /\ shots' = 0
    BY <1>3 DEF ApiAnswers
  <2> HIDE DEF m
  <2>4. messages' \in Seq(Msgs(Nat)) /\ Len(messages') = Len(messages) + 1 /\ ImageInv'
    BY <2>1, <2>2, <2>3, PlainAppended
  <2> QED BY <1>t, <2>3, <2>4 DEF CountInv
<1>4. ASSUME NEW image \in {0, 1}, RunTool(image) PROVE CountInv' /\ ImageInv'
  <2>1. /\ pc = "tools" /\ done < messages[Len(messages)].uses /\ done' = done + 1
        /\ shots' = shots + image /\ UNCHANGED <<pc, messages, images>>
        /\ tools' \subseteq tools \cup {<<Len(messages), done + 1>>}
    BY <1>4 DEF RunTool
  <2>2. Len(messages) \in 1 .. MaxLen /\ done + 1 \in 1 .. MaxUses
    <3>1. messages # <<>>
      BY <2>1 DEF IInv, OpenInv
    <3>2. Len(messages) \in DOMAIN messages
      BY <1>t, <3>1, Fields DEF IInv
    <3>3. messages[Len(messages)].uses \in Nat /\ messages[Len(messages)].uses <= MaxUses
      BY <1>t, <3>2, Fields DEF IInv
    <3> QED BY <1>t, <2>1, <3>2, <3>3
  <2>3. tools' \subseteq ToolUse
    BY <1>t, <2>1, <2>2 DEF ToolUse
  <2>4. done' \in 0 .. MaxUses /\ shots' \in 0 .. done'
    BY <1>t, <2>1, <2>2
  <2> QED BY <1>t, <2>1, <2>3, <2>4, ImagesStay DEF CountInv
<1>5. CASE ToolsEnd
  <2> DEFINE m == [Blank("user") EXCEPT !.answers = done, !.images = shots]
  <2>1. done \in 0 .. MaxUses /\ shots \in Nat
    BY <1>t
  <2>2. m \in Msgs(Nat)
    BY <2>1, NewMessage
  <2>3. m.images = shots
    BY DEF Blank
  <2>4. /\ messages' = Append(messages, m) /\ images' = images + shots
        /\ Len(messages) < MaxLen /\ UNCHANGED <<done, shots, tools>> /\ pc' # "called"
    BY <1>5 DEF ToolsEnd
  <2> HIDE DEF m
  <2>5. /\ messages' \in Seq(Msgs(Nat)) /\ Len(messages') = Len(messages) + 1
        /\ Held \in Nat /\ Held' = Held + shots
    BY <1>t, <2>2, <2>3, <2>4, AppendCounted
  <2>6. CountInv'
    BY <1>t, <2>1, <2>4, <2>5 DEF CountInv
  <2>7. Keep > 0 => Held' >= Min({Keep, images'})
    <3>1. /\ Min({Keep, images}) = (IF Keep <= images THEN Keep ELSE images)
          /\ Min({Keep, images'}) = (IF Keep <= images' THEN Keep ELSE images')
      <4>1. Keep \in Int /\ images \in Int /\ images' \in Int
        BY <1>t, <2>4
      <4> QED BY <4>1, LargerOf, Zenon
    <3>2. Keep > 0 => Held >= Min({Keep, images})
      BY DEF ImageInv
    <3> QED BY <1>t, <2>4, <2>5, <3>1, <3>2
  <2> QED BY <2>4, <2>6, <2>7 DEF ImageInv
<1>6. CASE WorkerMessage
  <2>1. Blank("user") \in Msgs(Nat)
    <3>1. 0 \in 0 .. MaxUses
      BY <1>t
    <3> QED BY <3>1, NewMessage, 0 \in Nat
  <2>2. Blank("user").images = 0
    BY DEF Blank
  <2>3. /\ messages' = Append(messages, Blank("user")) /\ pc' # "called"
        /\ Len(messages) < MaxLen /\ UNCHANGED <<done, shots, tools, images>>
    BY <1>6 DEF WorkerMessage
  <2>4. messages' \in Seq(Msgs(Nat)) /\ Len(messages') = Len(messages) + 1 /\ ImageInv'
    BY <2>1, <2>2, <2>3, PlainAppended
  <2> QED BY <1>t, <2>3, <2>4 DEF CountInv
<1>7. CASE ChatMessage
  <2> DEFINE healed == maybe_add_interruption_blocks
             m == [Blank("user") EXCEPT !.ours = TRUE, !.answers = healed]
  <2>1. healed \in 0 .. MaxUses /\ (healed > 0 => Len(messages) > 0)
    BY <1>7, <1>t, Fields DEF IInv, ChatMessage, maybe_add_interruption_blocks
  <2>2. m \in Msgs(Nat)
    BY <2>1, NewMessage, 0 \in Nat
  <2>3. m.images = 0
    BY DEF Blank
  <2>4. /\ messages' = Append(messages, m) /\ tools' = tools \cup UsesOf(Len(messages), healed)
        /\ Len(messages) < MaxLen /\ UNCHANGED <<done, shots, images>> /\ pc' # "called"
    BY <1>7 DEF ChatMessage
  <2> HIDE DEF m, healed
  <2>5. messages' \in Seq(Msgs(Nat)) /\ Len(messages') = Len(messages) + 1 /\ ImageInv'
    BY <2>2, <2>3, <2>4, PlainAppended
  <2>6. UsesOf(Len(messages), healed) \subseteq ToolUse
    BY <1>t, <2>1 DEF UsesOf, ToolUse
  <2> QED BY <1>t, <2>4, <2>5, <2>6 DEF CountInv
<1>8. CASE Reset
  <2>1. /\ messages' = <<>> /\ tools' = {} /\ images' = 0 /\ pc' = "idle"
        /\ UNCHANGED <<done, shots>>
    BY <1>8 DEF Reset
  <2>2. messages' \in Seq(Msgs(Nat)) /\ Len(messages') = 0
    BY <2>1
  <2>3. CountInv'
    BY <1>t, <2>1, <2>2 DEF CountInv
  <2>4. Held' = 0
    BY <2>2, TotalStep DEF Held
  <2>5. Min({Keep, 0}) = 0
    <3>1. Keep \in Int /\ 0 \in Int
      BY <1>t
    <3>2. Min({Keep, 0}) = IF Keep <= 0 THEN Keep ELSE 0
      BY <3>1, LargerOf, Zenon
    <3> QED BY <1>t, <3>2
  <2> QED BY <2>1, <2>3, <2>4, <2>5 DEF ImageInv
<1>9. CASE UNCHANGED vars
  BY <1>9, ImagesStay DEF vars, CountInv
<1> QED BY <1>1, <1>2, <1>3, <1>4, <1>5, <1>6, <1>7, <1>8, <1>9 DEF Next

LEMMA AlwaysNumbers == Spec => [](CountInv /\ ImageInv /\ FlagInv)
BY InitNumbers, StepFlags, StepNumbers, AlwaysIInv, PTL DEF Spec

\* The state of the conversation is well-formed: a tool result and a tool use are
\* within their bounds, and a filter never takes more images of a message than
\* it has.
THEOREM TypeCorrect == Spec => []TypeOK
<1>1. ASSUME IInv, CountInv, FlagInv PROVE TypeOK
  <2>1. Msgs(Nat) = Message
    BY DEF Msgs, Message
  <2>2. MaxUses \in Nat
    BY LoopAssumption
  <2>3. done \in 0 .. MaxUses /\ shots \in 0 .. MaxUses
    BY <1>1, <2>2 DEF CountInv
  <2> QED BY <1>1, <2>1, <2>3 DEF IInv, CountInv, FlagInv, Control, TypeOK
<1> QED BY <1>1, AlwaysIInv, AlwaysNumbers, PTL

\* _maybe_filter_to_n_most_recent_images (loop.py) leaves fewer than two chunks
\* of images in a request, and of the images of the conversation no fewer than
\* only_n_most_recent_images if there were as many.
THEOREM FilterKeepsEnough == Spec => []ImagesAreKept
<1>1. ASSUME CountInv, ImageInv PROVE ImagesAreKept
  <2>1. ImagesIn(DOMAIN messages) = Held
    BY <1>1, TotalIsImagesIn DEF CountInv, Held
  <2> QED BY <1>1, <2>1 DEF ImageInv, ImagesAreKept
<1> QED BY <1>1, AlwaysNumbers, PTL
=============================================================================
