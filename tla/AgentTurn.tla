------------------------------- MODULE AgentTurn -------------------------------
(***************************************************************************)
(* One turn of the agent as execution.ts runs it: the messages of the      *)
(* query are read one by one, streamed to the client through the           *)
(* StreamingHandler, and collected for the result of the node.  A query    *)
(* that throws is followed by an error and an end frame and may be         *)
(* repeated with a handler of its own (runExecution.ts).                   *)
(***************************************************************************)
EXTENDS TurnResult

CONSTANTS
    Turns        \* configurations of a turn that are explored

Content == {"text", "subagentMessages", "toolCalls", "messages"}

(***************************************************************************)
(* managed: the backend; streams: whether the node streams; markers: the   *)
(* text format with markers instead of JSON; names: its template for the   *)
(* opening marker of a subagent has the {id}; content: what is streamed;   *)
(* tools: those the tool filter lets through; display, limit: how the      *)
(* input of a call is shown, and how many pieces of it before it is cut;   *)
(* suppress: the client has seen the earlier turns (a streamed request is  *)
(* being answered); flow: prompt, or the answer to a managed session;      *)
(* treats: agent errors fail the item; onExhausted: what to do without     *)
(* structured output; says: the messages the agent of this turn sends;     *)
(* sends, queries: the bounds on its messages in one query and on the      *)
(* queries of the turn.                                                    *)
(***************************************************************************)
TurnKinds ==
    [managed : BOOLEAN, streams : BOOLEAN, markers : BOOLEAN, names : BOOLEAN,
     content : SUBSET Content, tools : SUBSET Tools,
     display : {"full", "truncated", "nameOnly"}, limit : Nat, suppress : BOOLEAN,
     flow : {"prompt", "answer"}, treats : BOOLEAN,
     onExhausted : {"continueWithError", "throwError", "fallbackToUnstructured"},
     says : SUBSET STRING, sends : Nat, queries : Nat]

ASSUME TurnsAssumption == Turns \subseteq TurnKinds

VARIABLES
    turn,      \* the configuration
    agent,     \* the query: its stage, open blocks, tools used and messages to yield
    handler,   \* StreamingHandler and the replay bracket of executeStreaming
    frames,    \* what was handed to sendChunk
    messages,  \* the collected messages
    said,      \* what the agent sent in this query
    outcome    \* running, ended, aborted, failed; the bridged interaction, the item's
               \* error and the status its result tells of the task

vars == <<turn, agent, handler, frames, messages, said, outcome>>

NoBlock == [index |-> None, tool |-> None]
NewAgent(resumed) ==
    [stage |-> "start", resumed |-> resumed, open |-> [a \in Authors |-> NoBlock],
     used |-> {}, blocking |-> {}, yields |-> <<>>, queries |-> 1]
NewHandler ==
    [calls |-> [i \in Indexes |-> None], current |-> None, inBlock |-> FALSE,
     inPrefix |-> FALSE]
Running == [status |-> "running", interaction |-> None, error |-> None, task |-> None]

Frame(kind) == [kind |-> kind, by |-> Main, tool |-> None, input |-> <<>>, message |-> None]
Begin(streams) == IF streams THEN << Frame("begin") >> ELSE <<>>
\* The {name} of a marker is always 'unknown': streamSubagentLifecycle, which would
\* register the subagents, has no caller.
Open(sub) == [Frame("open") EXCEPT !.by = IF turn.names THEN sub ELSE None]
Close == Frame("close")
\* The author of a text is recorded here, the client is not told.
Text(by) == [Frame("text") EXCEPT !.by = by]

\* toolInputDisplay: the input whole, its beginning, or none of it.
Shown(input) ==
    CASE turn.display = "nameOnly" -> <<>>
      [] turn.display = "truncated" /\ Len(input) > turn.limit -> SubSeq(input, 1, turn.limit)
      [] OTHER -> input
\* Nothing in it says whose call it is.
Call(call) == [Frame("call") EXCEPT !.tool = call.tool, !.input = Shown(call.input)]

Init ==
    /\ turn \in Turns
    /\ agent \in {NewAgent(r) : r \in IF turn.suppress THEN {TRUE} ELSE BOOLEAN}
    /\ handler = NewHandler
    /\ frames = Begin(turn.streams)
    /\ messages = <<>> /\ said = <<>>
    /\ outcome = Running

--------------------------------------------------------------------------------
(***************************************************************************)
(* streamText: the text of a subagent stands between markers of its own.   *)
(***************************************************************************)
Streams(content) == content \in turn.content
TextShown(by) == IF by = Main THEN Streams("text") ELSE Streams("subagentMessages")
SwitchesBlock(by) == turn.markers /\ by # Main /\ handler.current # by
LeavesBlock(by) ==
    /\ turn.markers /\ handler.inBlock
    /\ by = Main \/ SwitchesBlock(by)

TextFrames(by) ==
    IF ~TextShown(by) THEN <<>>
    ELSE (IF LeavesBlock(by) THEN << Close >> ELSE <<>>)
         \o (IF SwitchesBlock(by) THEN << Open(by) >> ELSE <<>>)
         \o << Text(by) >>
\* Mutant: closing the block does not forget whose it was.
AfterTextRemembers(by) ==
    IF ~TextShown(by) THEN handler
    ELSE IF SwitchesBlock(by) THEN [handler EXCEPT !.current = by, !.inBlock = TRUE]
    ELSE IF LeavesBlock(by) THEN [handler EXCEPT !.inBlock = FALSE]
    ELSE handler
AfterText(by) ==
    IF ~TextShown(by) THEN handler
    ELSE IF SwitchesBlock(by) THEN [handler EXCEPT !.current = by, !.inBlock = TRUE]
    ELSE IF LeavesBlock(by) THEN [handler EXCEPT !.current = None, !.inBlock = FALSE]
    ELSE handler

(***************************************************************************)
(* handleStreamEvent: a tool call is collected under its block index,      *)
(* whoever wrote the block, and streamed when a block of that index stops. *)
(***************************************************************************)
CallAt(m) == handler.calls[m.index]
ShowsTool(tool) == Streams("toolCalls") /\ tool \in turn.tools
EventFrames(m) ==
    CASE m.kind = "delta" -> TextFrames(m.by)
      [] m.kind = "stop" /\ CallAt(m) # None /\ ShowsTool(CallAt(m).tool) -> << Call(CallAt(m)) >>
      [] OTHER -> <<>>
\* Mutant: a call that was streamed stays under its index.
AfterEventKeepsCall(m) ==
    CASE m.kind = "delta" -> AfterText(m.by)
      [] m.kind = "toolStart" -> [handler EXCEPT !.calls[m.index] = [tool |-> m.tool, input |-> <<>>]]
      [] m.kind = "input" /\ CallAt(m) # None ->
            [handler EXCEPT !.calls[m.index].input = Append(@, m.tool)]
      [] OTHER -> handler
AfterEvent(m) ==
    CASE m.kind = "delta" -> AfterText(m.by)
      [] m.kind = "toolStart" -> [handler EXCEPT !.calls[m.index] = [tool |-> m.tool, input |-> <<>>]]
      [] m.kind = "input" /\ CallAt(m) # None ->
            [handler EXCEPT !.calls[m.index].input = Append(@, m.tool)]
      [] m.kind = "stop" -> [handler EXCEPT !.calls[m.index] = None]
      [] OTHER -> handler

(***************************************************************************)
(* executeStreaming hides what a resumed query repeats: from a user        *)
(* message marked as replay to the first one that is not.                  *)
(***************************************************************************)
IsReplay(m) == m.type = "user" /\ m.kind = "replay"
EndsPrefix(m) == handler.inPrefix /\ m.type = "user" /\ ~IsReplay(m)
\* Mutant: only the marked messages are hidden.
HiddenMarked(m) == turn.streams /\ turn.suppress /\ (IsReplay(m) \/ EndsPrefix(m))
Hidden(m) ==
    /\ turn.streams /\ turn.suppress
    /\ IsReplay(m) \/ (handler.inPrefix /\ m.type \in {"user", "assistant", "result"})

\* streamMessage: verbatim, but for the messages that coordinate an approval.
IsNoise(m) == m.type = "user" /\ m.kind = "noise"
VerbatimFrames(m) ==
    IF Streams("messages") /\ ~IsNoise(m)
    THEN << [Frame("message") EXCEPT !.message = m] >> ELSE <<>>

\* A managed message arrives whole, and its text is streamed as a delta would be.
SpeaksWhole(m) == turn.managed /\ m.type = "assistant" /\ m.kind = "text"

Stored(m) == messages' = IF m.type = "stream_event" THEN messages ELSE Append(messages, m)

Hide(m) ==
    /\ Hidden(m)
    /\ handler' = [handler EXCEPT !.inPrefix = IsReplay(m) \/ (@ /\ ~EndsPrefix(m))]
    /\ UNCHANGED <<frames, messages>>
StreamMessage(m) ==
    /\ turn.streams /\ ~Hidden(m)
    /\ frames' = frames \o VerbatimFrames(m)
                 \o (IF m.type = "stream_event" THEN EventFrames(m)
                     ELSE IF SpeaksWhole(m) THEN TextFrames(m.by) ELSE <<>>)
    /\ handler' = IF m.type = "stream_event" THEN AfterEvent(m)
                  ELSE IF SpeaksWhole(m) THEN AfterText(m.by) ELSE handler
    /\ Stored(m)
\* executeNonStreaming collects every message it is given.
CollectMessage(m) ==
    /\ ~turn.streams
    /\ messages' = Append(messages, m)
    /\ UNCHANGED <<handler, frames>>

Handle(m) ==
    /\ said' = Append(said, m)
    /\ Hide(m) \/ StreamMessage(m) \/ CollectMessage(m)

--------------------------------------------------------------------------------
(***************************************************************************)
(* The local agent (external).  A resumed query may first repeat earlier   *)
(* messages, then the new prompt; each author has at most one block open.  *)
(***************************************************************************)
Speaks(kind) == kind \in turn.says
Active == outcome.status = "running" /\ Len(said) < turn.sends
LocalTurn == Active /\ ~turn.managed

Results == IF Speaks("results") THEN LocalResults ELSE {"success"}

SystemInit ==
    /\ LocalTurn /\ agent.stage = "start"
    /\ Handle(Message("system", "init"))
    /\ agent' = [agent EXCEPT !.stage = IF agent.resumed THEN "resumed" ELSE "open"]
    /\ UNCHANGED <<turn, outcome>>

Repeat ==
    /\ LocalTurn /\ Speaks("replay")
    /\ agent.stage \in {"resumed", "replaying"}
    /\ \E m \in {Message("user", "replay"), Message("assistant", "text")}
                \cup {Message("result", kind) : kind \in Results} :
        /\ agent.stage = "resumed" => IsReplay(m)
        /\ Handle([m EXCEPT !.old = TRUE])
    /\ agent' = [agent EXCEPT !.stage = "replaying"]
    /\ UNCHANGED <<turn, outcome>>

EchoPrompt ==
    /\ LocalTurn /\ agent.stage \in {"resumed", "replaying"}
    /\ Handle(Message("user", "prompt"))
    /\ agent' = [agent EXCEPT !.stage = "open"]
    /\ UNCHANGED <<turn, outcome>>

\* The agent may also speak without having repeated the prompt.
SpeakAfter == {"open", "resumed", "replaying"}
Speak(m) ==
    /\ LocalTurn /\ agent.stage \in SpeakAfter
    /\ Handle(m)
    /\ UNCHANGED <<turn, outcome>>

TextDelta(a) ==
    /\ Speaks("delta")
    /\ Speak([Message("stream_event", "delta") EXCEPT !.by = a])
    /\ agent' = [agent EXCEPT !.stage = "open"]

StartBlock(a, i, t) ==
    /\ Speaks("blocks") /\ agent.open[a] = NoBlock
    /\ t \notin agent.used
    /\ Speak([Message("stream_event", IF t = None THEN "textStart" ELSE "toolStart")
                EXCEPT !.by = a, !.index = i, !.tool = t])
    /\ agent' = [agent EXCEPT !.stage = "open", !.open[a] = [index |-> i, tool |-> t],
                              !.used = IF t = None THEN @ ELSE @ \cup {t}]

InBlock(a, kind) ==
    /\ Speaks("blocks") /\ agent.open[a] # NoBlock
    /\ kind = "input" => agent.open[a].tool # None
    /\ Speak([Message("stream_event", kind) EXCEPT
                !.by = a, !.index = agent.open[a].index, !.tool = agent.open[a].tool])
    /\ agent' = [agent EXCEPT !.open[a] = IF kind = "stop" THEN NoBlock ELSE @]

WholeMessage ==
    /\ \E m \in {Message("assistant", "text"), Message("assistant", "failing"),
               Message("assistant", "refusal"), Message("assistant", "stopped"),
               Message("user", "denied"), Message("user", "noise")} :
        Speaks(m.kind) /\ Speak(m)
    /\ agent' = [agent EXCEPT !.stage = "open"]

\* Task tools take effect in the order of their answers.
Said == {said[i] : i \in DOMAIN said}
Called == {m.tool : m \in {m \in Said : IsTaskCall(m)}}
Answered == {m.tool : m \in {m \in Said : m.type = "user" /\ m.tool # None}}
CarryOut(t, m) ==
    CASE IsTaskCall(m) /\ m.kind = "update" -> [t EXCEPT !.updates = @ \cup {m.tool}]
      [] IsAnswer(m) /\ m.tool \in t.updates -> [t EXCEPT !.status = m.tool]
      [] OTHER -> t
Applied == Fold(CarryOut, [status |-> None, updates |-> {}], said).status
UseTaskTool(kind, t) ==
    /\ Speaks("tasks") /\ t \notin agent.used
    /\ Speak(TaskCall(kind, t))
    /\ agent' = [agent EXCEPT !.stage = "open", !.used = @ \cup {t}]
AnswerTaskTool(kind, t) ==
    /\ Speaks("tasks") /\ t \in Called \ Answered
    /\ Speak(TaskAnswer(kind, t, {Applied}))
    /\ UNCHANGED agent

Result ==
    /\ \E kind \in Results : Speak(Message("result", kind))
    /\ agent' = [agent EXCEPT !.stage = "finished"]

LocalSpeaks ==
    \/ \E a \in Authors :
        \/ TextDelta(a)
        \/ \E i \in Indexes, t \in Tools \cup {None} : StartBlock(a, i, t)
        \/ \E kind \in {"input", "stop"} : InBlock(a, kind)
    \/ \E t \in Tools :
        \/ \E kind \in {"update", "list"} : UseTaskTool(kind, t)
        \/ \E kind \in {"answered", "refused"} : AnswerTaskTool(kind, t)
    \/ WholeMessage
    \/ Result

(***************************************************************************)
(* The managed session (external).  A custom tool waits for its result, a  *)
(* builtin one may; the event ids of a pause are those that wait.          *)
(***************************************************************************)
UsedBy(uses) == {m \in Said : m.type = "assistant" /\ m.kind \in uses}
Unresolved == {m.tool : m \in UsedBy({"builtin"})}
Waiting == {m.tool : m \in UsedBy({"question", "custom"})}
Pauses == {ids \in {Waiting \cup s : s \in SUBSET Unresolved} : ids # {}}

SessionEvents ==
    {Event("message"), Event("tool_result"), Event("error"), Event("terminated"),
     IdleEvent("end_turn", {}), IdleEvent("retries_exhausted", {})}
    \cup {ToolEvent(use, t) : use \in ToolUses, t \in Tools \ agent.used}
    \cup {IdleEvent("requires_action", ids) : ids \in Pauses}

ManagedEvent ==
    /\ Active /\ turn.managed
    /\ agent.stage # "finished" /\ agent.yields = <<>>
    /\ \E e \in SessionEvents : \E files \in FileMessages(turn.flow, e) :
        agent' = [agent EXCEPT
            !.yields = MapEvent(e) \o files,
            !.stage = IF EndsTurn(e) THEN "finished" ELSE "open",
            !.used = IF e.tool = None THEN @ ELSE @ \cup {e.tool},
            !.blocking = e.ids]
    /\ UNCHANGED <<turn, handler, frames, messages, said, outcome>>

ManagedYield ==
    /\ outcome.status = "running" /\ agent.yields # <<>>
    /\ Handle(Head(agent.yields))
    /\ agent' = [agent EXCEPT !.yields = Tail(@)]
    /\ UNCHANGED <<turn, outcome>>

--------------------------------------------------------------------------------
(***************************************************************************)
(* The end of a query: its stream ends, is aborted, or throws.             *)
(***************************************************************************)
\* StreamingHandler.finalize closes the block of a subagent.
Finalize == IF turn.markers /\ handler.inBlock THEN << Close >> ELSE <<>>

\* finalizeExecution takes over, after an abort as well.
Finalized(status) ==
    [status |-> status,
     interaction |-> IF turn.managed THEN Bridge(messages) ELSE None,
     error |-> AgentError(messages, turn.treats, turn.onExhausted),
     task |-> TrackedStatus(messages)]

Finished == agent.yields = <<>> /\ (agent.stage = "finished" \/ (~turn.managed /\ said # <<>>))
EndQuery ==
    /\ outcome.status = "running" /\ Finished
    /\ frames' = IF turn.streams THEN frames \o Finalize \o << Frame("end") >> ELSE frames
    /\ outcome' = Finalized("ended")
    /\ UNCHANGED <<turn, agent, handler, messages, said>>

AbortQuery ==
    /\ outcome.status = "running"
    /\ frames' = IF turn.streams THEN frames \o Finalize \o << Frame("end") >> ELSE frames
    /\ outcome' = Finalized("aborted")
    /\ UNCHANGED <<turn, agent, handler, messages, said>>

\* The handler is not finalized; the client is sent an error and the end.
Broken == IF turn.streams THEN frames \o << Frame("error"), Frame("end") >> ELSE frames
FailQuery ==
    /\ outcome.status = "running"
    /\ frames' = Broken
    /\ outcome' = [outcome EXCEPT !.status = "failed"]
    /\ UNCHANGED <<turn, agent, handler, messages, said>>

\* A query that yields nothing at all counts as failed; the client is told nothing.
EmptyQuery ==
    /\ outcome.status = "running" /\ ~turn.managed /\ said = <<>>
    /\ outcome' = [outcome EXCEPT !.status = "failed"]
    /\ UNCHANGED <<turn, agent, handler, frames, messages, said>>

\* A resume is repeated without its resume point or afresh, a bootstrap as a resume.
RetryQuery ==
    /\ outcome.status = "failed" /\ ~turn.managed /\ agent.queries < turn.queries
    /\ \E resumed \in BOOLEAN :
        /\ turn.suppress => resumed
        /\ agent' = [NewAgent(resumed) EXCEPT !.queries = agent.queries + 1]
    /\ handler' = NewHandler
    /\ frames' = frames \o Begin(turn.streams)
    /\ messages' = <<>> /\ said' = <<>>
    /\ outcome' = Running
    /\ UNCHANGED turn

Next ==
    \/ SystemInit \/ Repeat \/ EchoPrompt \/ LocalSpeaks
    \/ ManagedEvent \/ ManagedYield
    \/ EndQuery \/ AbortQuery \/ FailQuery \/ EmptyQuery \/ RetryQuery
Spec == Init /\ [][Next]_vars

--------------------------------------------------------------------------------
(***************************************************************************)
(* What a client makes of the markers: after an opening marker all text is *)
(* one subagent's, the one named or (None) the one that writes first; after*)
(* a closing one it is the main agent's; a query begins and breaks off     *)
(* with nothing open.                                                      *)
(***************************************************************************)
Reader == [by |-> Main, right |-> TRUE]
MayBe(by, author) == by = author \/ (by = None /\ author # Main)
ReadFrame(reader, f) ==
    CASE f.kind \in {"begin", "error"} -> [reader EXCEPT !.by = Main]
      [] f.kind = "open" -> [by |-> f.by, right |-> reader.right /\ reader.by = Main]
      [] f.kind = "close" -> [by |-> Main, right |-> reader.right /\ reader.by # Main]
      [] f.kind = "text" -> [by |-> f.by, right |-> reader.right /\ MayBe(reader.by, f.by)]
      [] f.kind = "end" -> [reader EXCEPT !.right = @ /\ reader.by = Main]
      [] OTHER -> reader

\* The markers cut the text of interleaved agents into runs of one author each: outside
\* the blocks the main agent's, in a block one subagent's and, if the marker names it,
\* that one's.  A default marker does not tell which subagent.  Blocks do not nest, and a
\* stream that ends has closed its block: streamText and finalize, over every order of
\* deltas and every way a query stops.
TextAttributed == turn.markers => Fold(ReadFrame, Reader, frames).right

\* The frames of a kind of the query that is running.
FramesOf(kind) ==
    LET Read(read, f) == IF f.kind = "begin" THEN <<>>
                         ELSE IF f.kind = kind THEN Append(read, f) ELSE read
    IN  Fold(Read, <<>>, frames)
IsWhole(m) == m.type # "stream_event"
IsShown(m) == ~IsNoise(m)
IsPrompt(m) == m.type = "user" /\ m.kind = "prompt"
Fresh(m) == IsWhole(m) /\ ~m.old /\ ~IsPrompt(m)
Replayed == \E m \in Said : m.old
Echoed == \E m \in Said : IsPrompt(m)
FramedMessages ==
    LET framed == FramesOf("message") IN [i \in DOMAIN framed |-> framed[i].message]

\* A client that has seen the earlier turns is shown none of them again and misses
\* nothing of this one: the bracket of executeStreaming drops exactly what a resumed
\* query repeats, provided the query echoes the prompt after what it repeats, and the
\* messages streamed verbatim are those collected for the result.
TurnIsKept ==
    turn.streams /\ turn.suppress =>
        /\ \A i \in DOMAIN messages : ~messages[i].old
        /\ \A i \in DOMAIN FramedMessages : ~FramedMessages[i].old
        /\ (Replayed => Echoed) => Kept(Fresh, messages) = Kept(Fresh, said)
        /\ Streams("messages") => Kept(IsWhole, FramedMessages) = Kept(IsShown, messages)

\* The blocks of tool calls that were sent whole: from p to q, with a block index
\* that no other author used meanwhile.
IsEvent(r, kinds) == said[r].type = "stream_event" /\ said[r].kind \in kinds
SameBlock(p, r) == said[r].by = said[p].by /\ said[r].index = said[p].index
IsBlock(p, q) ==
    /\ p < q /\ IsEvent(p, {"toolStart"})
    /\ IsEvent(q, {"stop"}) /\ SameBlock(p, q)
    /\ ~\E r \in p + 1 .. q - 1 : IsEvent(r, {"stop"}) /\ SameBlock(p, r)
Rivalled(p, q) ==
    \E r \in p .. q :
        /\ IsEvent(r, {"toolStart", "input", "stop"})
        /\ said[r].by # said[p].by /\ said[r].index = said[p].index
PiecesOf(p, q) == {r \in p .. q : IsEvent(r, {"input"}) /\ SameBlock(p, r)}
InputOf(p, q) == [k \in 1 .. Cardinality(PiecesOf(p, q)) |-> said[p].tool]
Calls == FramesOf("call")
CallsOf(tool) == {i \in DOMAIN Calls : Calls[i].tool = tool}

\* The input was sent, by whomever, under the block index of the tool and since it started.
SentFor(tool, input) ==
    \E p \in DOMAIN said :
        /\ IsEvent(p, {"toolStart"}) /\ said[p].tool = tool
        /\ \A k \in DOMAIN input : \E r \in p .. Len(said) :
              IsEvent(r, {"input"}) /\ said[r].index = said[p].index /\ said[r].tool = input[k]

\* However blocks overlap, a tool call is streamed at most once, only if the filter lets
\* it through, and with nothing that was sent before it started or under another index;
\* and one whose block no other author's block of the same index interrupts is streamed,
\* with exactly the input sent for it as far as it is to be shown (handleStreamEvent keeps
\* calls by block index alone, and every message and author uses the same indexes).
CallsIntact ==
    turn.streams =>
        /\ \A i \in DOMAIN Calls : /\ CallsOf(Calls[i].tool) = {i}
                                   /\ ShowsTool(Calls[i].tool)
                                   /\ SentFor(Calls[i].tool, Calls[i].input)
        /\ \A p, q \in DOMAIN said :
              IsBlock(p, q) /\ ~Rivalled(p, q) /\ ShowsTool(said[p].tool) =>
                  \E i \in CallsOf(said[p].tool) : Calls[i].input = Shown(InputOf(p, q))

\* The results among the collected messages.
Ends == Kept(IsResult, messages)

\* The item fails for what this turn's own result says and not for what earlier turns
\* ended with, repeated before it: processMessages and finalizeExecution.  A result
\* without a terminal or stop reason is left out: an earlier turn's is kept with it.
OutcomeIsThisTurns ==
    (outcome.status = "ended" /\ turn.treats /\ Ends # <<>>) =>
        LET end == LastOf(Ends) IN
        (~end.old /\ end.kind # "unmarked") =>
            /\ IsError(end) <=> outcome.error \in {"result", "thrown"}
            /\ (end.kind = "exhausted" /\ turn.onExhausted = "throwError") <=> outcome.error = "thrown"
            /\ end.kind = "refusal" <=> outcome.error = "refusal"
            /\ end.kind = "deferred" => outcome.error = None

\* The status the result tells of a task is the one the agent's tools left it in,
\* once a task tool was answered and no update was called after that answer: calls of
\* updates count before they are carried out, and refused ones are repaired by the
\* next answer (executionTracking).  As above, a query that repeats earlier turns to a
\* client that has seen them must echo the prompt.
TasksMatchAgent ==
    outcome.status = "ended" /\ (turn.suppress /\ Replayed => Echoed) =>
        \A n \in DOMAIN said :
            /\ IsAnswer(said[n])
            /\ \A i \in n + 1 .. Len(said) : ~IsAnswer(said[i]) /\ said[i].kind # "update"
            => outcome.task = Applied

\* The latest tool call of the session.
LastUse ==
    LET uses == {i \in DOMAIN said : IsToolUse(said[i])}
    IN  IF uses = {} THEN Message("assistant", "text")
        ELSE said[CHOOSE i \in uses : \A j \in uses : j <= i]
YieldedFiles == \E m \in Said : m.type \in {"artifact", "session_files"}

\* What the bridge asks the user is what the managed session waits for; and a session
\* that waits for its last tool call is bridged, unless that tool is a custom one of
\* another kind or the adapter has yielded files after the pause.
PauseIsBridged ==
    turn.managed /\ outcome.status = "ended" =>
        /\ outcome.interaction # None => outcome.interaction.tool \in agent.blocking
        /\ agent.blocking # {} /\ LastUse.tool \in agent.blocking /\ LastUse.kind # "custom"
                /\ ~YieldedFiles
            => /\ outcome.interaction # None
               /\ outcome.interaction.tool = LastUse.tool

\* "if the stream ended with requires_action, inject a RuntimePendingInteraction": a
\* question the session waits for is asked.  The code does not keep this when the
\* session has files, whose messages follow the pause.
PauseReachesUser ==
    turn.managed /\ outcome.status = "ended"
        /\ LastUse.tool \in agent.blocking /\ LastUse.kind = "question"
    => outcome.interaction # None
===============================================================================
