---------------------------- MODULE ManagedSession ----------------------------
(***************************************************************************)
(* The managed-agent backend as the execution loop sees it: the messages   *)
(* eventMapper.ts makes of the events of a session, the ones the adapter   *)
(* adds for the files of the session, and the interaction hitlBridge.ts    *)
(* finds in a turn that stopped for the user.                              *)
(***************************************************************************)
EXTENDS Naturals, Sequences, FiniteSets

CONSTANTS
    Subagents,  \* subagents by the id of the tool call that started them
    Tools,      \* ids of tool calls
    Indexes,    \* indexes of content blocks in a message
    Main,       \* the agent itself, a parent_tool_use_id of null
    None        \* an absent value

Authors == Subagents \cup {Main}

\* What a message may be, with what the rest of the turn adds to a managed session.
Types ==
    {"system", "user", "assistant", "result", "stream_event", "artifact", "session_files"}
Kinds ==
    {"init", "replay", "prompt", "text", "failing", "refusal", "stopped", "denied", "noise",
     "delta", "textStart", "toolStart", "input", "stop", "update", "list", "answered", "refused",
     "question", "custom", "builtin", "toolResult", "requires_action", "success", "error",
     "exhausted", "deferred", "unmarked", "file", "all"}

\* An absent value is none of the names, numbers and records it stands for.
ASSUME NamesAssumption ==
    /\ Main \notin Subagents \cup {None}
    /\ None \notin Subagents \cup Tools \cup Indexes
    /\ None \notin [type : Types, kind : Kinds, by : Authors, tool : Tools \cup {None},
                   index : Indexes \cup {0}, ids : SUBSET (Tools \cup {None}), old : BOOLEAN]
    /\ None \notin [kind : {"tool_confirmation", "question"}, tool : Tools]
    /\ None \notin [tool : Tools, input : Seq(Tools)]

\* A question is the custom tool ask_user_question; a builtin is a toolset or MCP tool.
ToolUses == {"question", "custom", "builtin"}

(***************************************************************************)
(* A message of the SDK union: what it is, who wrote it, the tool call it  *)
(* carries and the block index of a stream event; ids are the event ids of *)
(* a pause; an old message repeats an earlier turn.                        *)
(***************************************************************************)
Message(type, kind) ==
    [type |-> type, kind |-> kind, by |-> Main, tool |-> None, index |-> 0,
     ids |-> {}, old |-> FALSE]
ToolUse(use, tool) == [Message("assistant", use) EXCEPT !.tool = tool]

(***************************************************************************)
(* Events of a managed session (external), by type; an idle event has the  *)
(* reason it stopped for and the ids of the events that wait for an answer.*)
(***************************************************************************)
Event(type) == [type |-> type, use |-> None, tool |-> None, reason |-> None, ids |-> {}]
ToolEvent(use, tool) == [Event("tool_use") EXCEPT !.use = use, !.tool = tool]
IdleEvent(reason, ids) == [Event("idle") EXCEPT !.reason = reason, !.ids = ids]

\* The reason a result names; a pause is an acknowledgement and a result.
Idle(reason, ids) ==
    CASE reason = "requires_action" ->
            << Message("assistant", "text"),
               [Message("result", "requires_action") EXCEPT !.ids = ids] >>
      [] reason = "retries_exhausted" -> << Message("result", "error") >>
      [] OTHER -> << Message("result", "success") >>

MapEvent(e) ==
    CASE e.type = "message" -> << Message("assistant", "text") >>
      [] e.type = "tool_use" -> << ToolUse(e.use, e.tool) >>
      [] e.type = "tool_result" -> << Message("user", "toolResult") >>
      [] e.type = "idle" -> Idle(e.reason, e.ids)
      [] e.type \in {"error", "terminated"} -> << Message("result", "error") >>

\* The events after which the adapter stops reading.
EndsTurn(e) == e.type \in {"idle", "terminated"}

(***************************************************************************)
(* After an idle event the adapter looks for the files of the session and  *)
(* yields those of this turn and the list of all; a turn that carries an   *)
(* answer to a paused session does not look.                               *)
(***************************************************************************)
FileMessages(flow, e) ==
    IF flow = "prompt" /\ e.type = "idle"
    THEN { <<>>,
           << Message("session_files", "all") >>,
           << Message("artifact", "file"), Message("session_files", "all") >> }
    ELSE { <<>> }

--------------------------------------------------------------------------------
(***************************************************************************)
(* injectManagedHitlInteraction, over the messages a turn has collected.   *)
(***************************************************************************)
IsToolUse(m) == m.type = "assistant" /\ m.kind \in ToolUses
\* Mutant: the first tool call of the turn.
CaptureFirst(messages) ==
    LET uses == {i \in DOMAIN messages : IsToolUse(messages[i])}
    IN  IF uses = {} THEN None ELSE messages[CHOOSE i \in uses : \A j \in uses : i <= j]
\* The most recent tool call of the turn.
Capture(messages) ==
    LET uses == {i \in DOMAIN messages : IsToolUse(messages[i])}
    IN  IF uses = {} THEN None ELSE messages[CHOOSE i \in uses : \A j \in uses : j <= i]

\* The bridge looks at the last message only.
LastOf(messages) == messages[Len(messages)]
EndsPaused(messages) ==
    /\ messages # <<>>
    /\ LastOf(messages).type = "result" /\ LastOf(messages).kind = "requires_action"
IsConfirmation(use, ids) == use.kind = "builtin" /\ (ids # {} => use.tool \in ids)

Bridge(messages) ==
    LET use == Capture(messages)
    IN  IF ~EndsPaused(messages) \/ use = None THEN None
        ELSE IF IsConfirmation(use, LastOf(messages).ids)
             THEN [kind |-> "tool_confirmation", tool |-> use.tool]
        ELSE IF use.kind = "question" THEN [kind |-> "question", tool |-> use.tool]
        ELSE None
===============================================================================
