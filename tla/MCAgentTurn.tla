------------------------------ MODULE MCAgentTurn ------------------------------
EXTENDS AgentTurn

Local(content, markers, suppress, says, sends, queries) ==
    [managed |-> FALSE, streams |-> TRUE, markers |-> markers, names |-> FALSE,
     content |-> content, tools |-> Tools, display |-> "full", limit |-> 1,
     suppress |-> suppress, flow |-> "prompt",
     treats |-> FALSE, onExhausted |-> "continueWithError", says |-> says,
     sends |-> sends, queries |-> queries]

\* Subagents that interleave their text; the same without theirs being shown, and with
\* markers that name them.
TextTurns ==
    {Local(content, markers, FALSE, {"delta"}, 4, 2) :
        content \in {{"text", "subagentMessages"}, {"text"}}, markers \in BOOLEAN}
    \cup {[Local({"text", "subagentMessages"}, TRUE, FALSE, {"delta"}, 4, 2) EXCEPT !.names = TRUE]}

\* Tool calls in blocks that interleave, with input shown whole or cut to one piece, and
\* a tool that is filtered out.
CallTurns ==
    LET calls == Local({"toolCalls"}, FALSE, FALSE, {"blocks"}, 6, 1)
    IN  {calls, [calls EXCEPT !.display = "truncated"]}
        \cup {[calls EXCEPT !.display = "nameOnly", !.tools = {t}, !.sends = 5] : t \in Tools}

\* The answer to a streamed request, whose query repeats the earlier turns.
ResumedTurns ==
    {Local({"messages"}, FALSE, TRUE, {"replay", "text", "denied", "noise"}, 6, 1)}

\* The same without streaming.
CollectedTurns ==
    {[Local({}, FALSE, FALSE, {"replay", "text"}, 5, 1) EXCEPT !.streams = FALSE]}

\* A turn that fails on agent errors, behind earlier turns that ended in any way;
\* streamed to a client that has seen those turns, and collected.
OutcomeTurns ==
    {[Local({}, FALSE, suppress, {"replay", "failing", "refusal", "stopped", "results"}, 6, 1) EXCEPT
        !.streams = suppress, !.treats = TRUE, !.onExhausted = mode] :
        suppress \in BOOLEAN, mode \in {"continueWithError", "throwError"}}

\* A turn that works on a task.
TaskTurns == {[Local({}, FALSE, FALSE, {"tasks"}, 6, 1) EXCEPT !.streams = FALSE]}

ManagedTurns ==
    {[Local({"text", "messages"}, markers, FALSE, {}, 5, 1) EXCEPT
        !.managed = TRUE, !.treats = TRUE, !.flow = flow] :
        markers \in BOOLEAN, flow \in {"prompt", "answer"}}

\* A turn of a managed session that starts with a prompt.
MCPromptTurn ==
    {[Local({"text"}, FALSE, FALSE, {}, 5, 1) EXCEPT !.managed = TRUE]}

MCTurns == TextTurns \cup CallTurns \cup ResumedTurns \cup CollectedTurns
           \cup OutcomeTurns \cup TaskTurns \cup ManagedTurns
===============================================================================
