---------------------------- MODULE SamplingLoop ----------------------------
(***************************************************************************)
(* The conversation that sampling_loop (loop.py) holds with the model, and *)
(* the two programs that drive it: the worker (_run in worker_api.py),     *)
(* which repairs nothing, and the Streamlit page (streamlit.py), which the *)
(* user may interrupt at every callback and which answers the tool calls   *)
(* it left behind.  Both keep the list of messages and go on with it.      *)
(***************************************************************************)
EXTENDS Integers, Sequences, FiniteSets, FiniteSetsExt

CONSTANTS
  Drivers,                      \* the programs that are looked at
  Keep,                         \* only_n_most_recent_images
  MaxLen,                       \* bound: messages of a conversation
  MaxUses                       \* bound: tool calls of one answer

ASSUME LoopAssumption ==
  /\ Drivers \subseteq {"worker", "streamlit"}
  /\ Keep \in Nat /\ MaxLen \in Nat /\ MaxUses \in Nat

VARIABLES
  driver,
  messages,          \* STATE.messages, st.session_state.messages
  pc,                \* where sampling_loop is; "idle": it does not run
  done, shots,       \* tool_result_content of the answer: results, images
  provider, in_sampling_loop, tools,   \* of st.session_state
  \* history: a tool of the worker raised, the provider was changed, a message
  \* followed one no request had been made with, images of the conversation
  raised, switched, overtaken, images
vars == <<driver, messages, pc, done, shots, provider, in_sampling_loop, tools,
          raised, switched, overtaken, images>>

\* A message: who wrote it (ours: its role is Sender.USER itself and not the
\* string "user"), its tool calls or tool results, its images, and whether its
\* last block carries a cache breakpoint.
Message == [role : {"user", "assistant"}, ours : BOOLEAN, uses : 0 .. MaxUses,
            answers : 0 .. MaxUses, images : Nat, cached : BOOLEAN]

Blank(role) == [role |-> role, ours |-> FALSE, uses |-> 0, answers |-> 0,
                images |-> 0, cached |-> FALSE]

\* tool_use blocks are named by their message and their place in it.
ToolUse == (1 .. MaxLen) \X (1 .. MaxUses)
UsesOf(i, k) == {i} \X (1 .. k)

(* SamplingLoop!TypeOK: what the variables hold. *)
TypeOK ==
  /\ driver \in Drivers
  /\ messages \in Seq(Message) /\ Len(messages) <= MaxLen
  /\ pc \in {"idle", "posted", "request", "called", "tools"}
  /\ done \in 0 .. MaxUses /\ shots \in 0 .. MaxUses
  /\ provider \in {"anthropic", "other"}
  /\ in_sampling_loop \in BOOLEAN
  /\ tools \subseteq ToolUse
  /\ {raised, switched, overtaken} \subseteq BOOLEAN /\ images \in Nat

Init ==
  /\ driver \in Drivers
  /\ messages = <<>> /\ pc = "idle" /\ done = 0 /\ shots = 0
  /\ provider \in (IF driver = "worker" THEN {"anthropic"} ELSE {"anthropic", "other"})
  /\ in_sampling_loop = FALSE /\ tools = {}
  /\ raised = FALSE /\ switched = FALSE /\ overtaken = FALSE /\ images = 0

-----------------------------------------------------------------------------
(* What a request does to the messages. *)

UserMessages == {i \in DOMAIN messages : messages[i].role = "user"}
\* 1 for the most recent message of the user.
Rank(i) == Cardinality({j \in UserMessages : j >= i})

\* mutant: the message that drops out keeps its breakpoint
InjectOnly(i) == messages[i].cached \/ (i \in UserMessages /\ Rank(i) <= 3)
\* The first message beyond the three most recent loses its breakpoint; the
\* ones before it are not looked at.
_inject_prompt_caching(i) ==
  IF i \notin UserMessages \/ Rank(i) > 4 THEN messages[i].cached ELSE Rank(i) <= 3

\* Images are named like tool calls.
ImagesIn(S) == Cardinality(UNION {UsesOf(i, messages[i].images) : i \in S})

\* mutant: the last chunk is removed when it has only begun
RemoveBegun ==
  LET excess == ImagesIn(DOMAIN messages) - Keep IN excess + ((-excess) % Keep)
\* Images go in chunks of Keep, so as to break the prompt cache less often.
ImagesToRemove ==
  LET excess == ImagesIn(DOMAIN messages) - Keep IN excess - (excess % Keep)

\* mutant: every message is taken to have enough images
FilterUnclamped(i) ==
  LET before == ImagesIn({j \in DOMAIN messages : j < i})
  IN messages[i].images - Max({0, ImagesToRemove - before})
\* The oldest images go first: message i keeps those beyond the ones to remove.
_maybe_filter_to_n_most_recent_images(i) ==
  LET before == ImagesIn({j \in DOMAIN messages : j < i})
      gone   == ImagesToRemove - before
  IN messages[i].images - Max({0, Min({messages[i].images, gone})})

Prepared ==
  IF provider = "anthropic"
  THEN [i \in DOMAIN messages |->
         [messages[i] EXCEPT !.cached = _inject_prompt_caching(i)]]
  ELSE [i \in DOMAIN messages |->
         [messages[i] EXCEPT !.images =
            IF Keep > 0 THEN _maybe_filter_to_n_most_recent_images(i) ELSE @]]

\* The API wants each tool_use answered by the next message, once, nothing else
\* answered, and at most three breakpoints besides that of the system prompt.
UsesAnswered ==
  \A i \in DOMAIN messages :
    /\ messages[i].uses > 0 => /\ i + 1 \in DOMAIN messages
                               /\ messages[i + 1].answers = messages[i].uses
    /\ messages[i].answers > 0 => /\ i - 1 \in DOMAIN messages
                                  /\ messages[i - 1].uses = messages[i].answers
Cached == {i \in DOMAIN messages : messages[i].cached}
Acceptable == UsesAnswered /\ Cardinality(Cached) <= 3

-----------------------------------------------------------------------------
(* sampling_loop *)

Request ==
  /\ pc = "request" /\ pc' = "called"
  /\ messages' = Prepared
  /\ UNCHANGED <<driver, done, shots, provider, in_sampling_loop, tools, raised,
                 switched, overtaken, images>>

\* sampling_loop returns; the page notes that it is no longer in the loop.
Return == pc' = "idle" /\ in_sampling_loop' = FALSE

\* An APIError: the callback is told, the messages are returned as they are.
ApiFails ==
  /\ pc = "called" /\ Return
  /\ UNCHANGED <<driver, messages, done, shots, provider, tools, raised, switched, overtaken,
                 images>>

\* The answer, with k tool calls.
ApiAnswers(k) ==
  /\ pc = "called" /\ Acceptable /\ Len(messages) < MaxLen
  /\ messages' = Append(messages, [Blank("assistant") EXCEPT !.uses = k])
  /\ pc' = "tools" /\ done' = 0 /\ shots' = 0
  /\ UNCHANGED <<driver, provider, in_sampling_loop, tools, raised, switched, overtaken,
                 images>>

\* A tool returns a result, a ToolFailure, or an image; _tool_output_callback
\* of the page stores it.
RunTool(image) ==
  /\ pc = "tools" /\ done < messages[Len(messages)].uses
  /\ done' = done + 1 /\ shots' = shots + image
  /\ tools' = IF driver = "streamlit" THEN tools \cup {<<Len(messages), done + 1>>} ELSE tools
  /\ UNCHANGED <<driver, messages, pc, provider, in_sampling_loop, raised, switched, overtaken,
                 images>>

\* A tool raises something that is not a ToolError: sampling_loop ends with it,
\* _run of the worker reports an error, the page stays "in" the loop.
ToolRaises ==
  /\ pc = "tools" /\ done < messages[Len(messages)].uses
  /\ pc' = "idle" /\ raised' = (raised \/ driver = "worker")
  /\ UNCHANGED <<driver, messages, done, shots, provider, in_sampling_loop, tools,
                 switched, overtaken, images>>

\* No tool was called.
AnswerEnds ==
  /\ pc = "tools" /\ messages[Len(messages)].uses = 0 /\ Return
  /\ UNCHANGED <<driver, messages, done, shots, provider, tools, raised, switched, overtaken,
                 images>>

\* All tools have returned: their results are the next message.
ToolsEnd ==
  /\ pc = "tools" /\ done > 0 /\ done = messages[Len(messages)].uses
  /\ Len(messages) < MaxLen
  /\ messages' = Append(messages, [Blank("user") EXCEPT !.answers = done, !.images = shots])
  /\ images' = images + shots /\ pc' = "request"
  /\ UNCHANGED <<driver, done, shots, provider, in_sampling_loop, tools, raised, switched,
                 overtaken>>

-----------------------------------------------------------------------------
(* The drivers. *)

\* _run of the worker, which takes a message only when no other is worked on.
WorkerMessage ==
  /\ driver = "worker" /\ pc = "idle" /\ Len(messages) < MaxLen
  /\ messages' = Append(messages, Blank("user")) /\ pc' = "request"
  /\ UNCHANGED <<driver, done, shots, provider, in_sampling_loop, tools, raised,
                 switched, overtaken, images>>

\* mutant: tool calls are answered only if no tool has run
HealUntouched ==
  IF in_sampling_loop /\ messages # <<>> /\ done = 0 THEN messages[Len(messages)].uses ELSE 0
\* Tool calls of the last message are answered if the loop was interrupted.
maybe_add_interruption_blocks ==
  IF in_sampling_loop /\ messages # <<>> THEN messages[Len(messages)].uses ELSE 0

\* The last message is one that the page has written and not asked the model with.
Unasked == messages # <<>> /\ messages[Len(messages)].ours /\ ~messages[Len(messages)].cached

\* mutant: the results that stand in for interrupted tools are not stored
ChatUnstored ==
  /\ driver = "streamlit" /\ pc = "idle" /\ Len(messages) < MaxLen
  /\ messages' = Append(messages, [Blank("user") EXCEPT !.ours = TRUE,
                                    !.answers = maybe_add_interruption_blocks])
  /\ pc' = "posted" /\ overtaken' = (overtaken \/ Unasked)
  /\ UNCHANGED <<driver, done, shots, provider, in_sampling_loop, tools, raised, switched,
                 images>>
\* A chat message: it is appended, then rendered.
ChatMessage ==
  /\ driver = "streamlit" /\ pc = "idle" /\ Len(messages) < MaxLen
  /\ LET healed == maybe_add_interruption_blocks
     IN /\ messages' = Append(messages, [Blank("user") EXCEPT !.ours = TRUE, !.answers = healed])
        /\ tools' = tools \cup UsesOf(Len(messages), healed)
  /\ pc' = "posted" /\ overtaken' = (overtaken \/ Unasked)
  /\ UNCHANGED <<driver, done, shots, provider, in_sampling_loop, raised, switched, images>>

\* The rest of main: the loop starts.
track_sampling_loop ==
  /\ pc = "posted" /\ pc' = "request" /\ in_sampling_loop' = TRUE
  /\ UNCHANGED <<driver, messages, done, shots, provider, tools, raised, switched, overtaken,
                 images>>

\* The page runs again without a message, as it does when any widget is used:
\* the loop starts if the last message is one the page has written.
Rerun ==
  /\ driver = "streamlit" /\ pc = "idle" /\ messages # <<>>
  /\ messages[Len(messages)].ours
  /\ pc' = "request" /\ in_sampling_loop' = TRUE
  /\ UNCHANGED <<driver, messages, done, shots, provider, tools, raised, switched, overtaken,
                 images>>

\* Whatever the page renders, a message of its own or in a callback of the loop, it
\* may find that it is to run again; what has not been appended is lost.
Interrupt ==
  /\ driver = "streamlit" /\ pc \in {"posted", "called", "tools"}
  /\ pc' = "idle"
  /\ UNCHANGED <<driver, messages, done, shots, provider, in_sampling_loop, tools,
                 raised, switched, overtaken, images>>

\* _reset_api_provider: the conversation goes on with another provider.
SwitchProvider ==
  /\ driver = "streamlit" /\ pc = "idle"
  /\ provider' \in {"anthropic", "other"} \ {provider}
  /\ switched' = (switched \/ messages # <<>>)
  /\ UNCHANGED <<driver, messages, pc, done, shots, in_sampling_loop, tools, raised, overtaken,
                 images>>

\* The Reset button: setup_state on an empty session state.
Reset ==
  /\ driver = "streamlit" /\ pc = "idle"
  /\ messages' = <<>> /\ tools' = {} /\ in_sampling_loop' = FALSE
  /\ switched' = FALSE /\ overtaken' = FALSE /\ images' = 0
  /\ UNCHANGED <<driver, pc, done, shots, provider, raised>>

Next ==
  \/ Request \/ ApiFails \/ (\E k \in 0 .. MaxUses : ApiAnswers(k))
  \/ (\E image \in {0, 1} : RunTool(image)) \/ ToolRaises \/ AnswerEnds \/ ToolsEnd
  \/ WorkerMessage \/ ChatMessage \/ track_sampling_loop \/ Rerun \/ Interrupt
  \/ SwitchProvider \/ Reset

Spec == Init /\ [][Next]_vars

-----------------------------------------------------------------------------
(* Properties. *)

(* Every request answers each tool call by the next message, once, whatever was *)
(* interrupted or failed before; in the worker unless a tool raised something   *)
(* else than ToolError (sampling_loop, maybe_add_interruption_blocks).          *)
RequestsAnswerToolUses == pc = "called" /\ ~raised => UsesAnswered

(* A request to Anthropic has its breakpoints on the three most recent messages *)
(* of the user.  It has none on another message so long as the conversation     *)
(* stayed with one provider and every message was the last of some request:     *)
(* _inject_prompt_caching takes one off per request.  A page that is run again   *)
(* while it renders a message leaves a fourth one behind, for good.             *)
BreakpointsAreRecent ==
  pc = "called" /\ provider = "anthropic" =>
    /\ \A i \in UserMessages : Rank(i) <= 3 => i \in Cached
    /\ ~switched /\ ~overtaken => \A i \in Cached : i \in UserMessages /\ Rank(i) <= 3

(* A request to another provider has fewer than two chunks of images, and the   *)
(* conversation has lost none it should keep.                                   *)
(* (_maybe_filter_to_n_most_recent_images)                                      *)
ImagesAreKept ==
  pc = "called" /\ provider = "other" /\ Keep > 0 =>
    /\ ImagesIn(DOMAIN messages) < 2 * Keep
    /\ ImagesIn(DOMAIN messages) >= Min({Keep, images})

(* The page has the result of every tool call that is answered in a message it  *)
(* is about to render (main looks it up in st.session_state.tools).             *)
RenderFindsResults ==
  driver = "streamlit" =>
    \A i \in DOMAIN messages : UsesOf(i - 1, messages[i].answers) \subseteq tools

=============================================================================
