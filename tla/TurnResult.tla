------------------------------ MODULE TurnResult ------------------------------
(***************************************************************************)
(* What finalizeExecution.ts makes of the collected messages of a turn:    *)
(* processMessages folds them into diagnostics, of which the error of the  *)
(* item is taken, and executionTracking.ts follows the calls of the task   *)
(* tools.  The messages of this turn may stand behind those of earlier     *)
(* turns that a resumed query repeats.                                     *)
(***************************************************************************)
EXTENDS ManagedSession, MessageFold

(***************************************************************************)
(* Results: exhausted ran out of structured output retries, deferred has   *)
(* the terminal reason tool_deferred, a refusal stopped for one, and an    *)
(* unmarked success carries neither a terminal nor a stop reason.  An      *)
(* assistant message may carry the stop reason of a refusal or (stopped)   *)
(* another one, or text that detectAgentError takes for an error.          *)
(***************************************************************************)
LocalResults == {"success", "error", "exhausted", "deferred", "refusal", "unmarked"}
IsResult(m) == m.type = "result"
IsError(m) == m.kind \in {"error", "exhausted"}
LooksFailed(m) == m.type = "assistant" /\ m.kind = "failing"

NothingProcessed ==
    [exhausted |-> FALSE, isError |-> FALSE, deferred |-> FALSE, refused |-> FALSE,
     failing |-> FALSE]

ProcessAssistant(p, m) ==
    [p EXCEPT !.refused = m.kind = "refusal" \/ (@ /\ m.kind # "stopped"),
              !.failing = @ \/ LooksFailed(m)]

\* Mutant: an error, once seen, stays.
ProcessResultSticky(p, m) ==
    [p EXCEPT !.exhausted = (m.kind = "exhausted"),
              !.isError = @ \/ IsError(m),
              !.deferred = IF m.kind = "unmarked" THEN @ ELSE m.kind = "deferred",
              !.refused = IF m.kind = "unmarked" THEN @ ELSE m.kind = "refusal"]
\* Every result has a subtype and is_error; a reason it lacks is not forgotten.
ProcessResult(p, m) ==
    [p EXCEPT !.exhausted = (m.kind = "exhausted"),
              !.isError = IsError(m),
              !.deferred = IF m.kind = "unmarked" THEN @ ELSE m.kind = "deferred",
              !.refused = IF m.kind = "unmarked" THEN @ ELSE m.kind = "refusal"]

Process(p, m) ==
    CASE m.type = "assistant" -> ProcessAssistant(p, m)
      [] IsResult(m) -> ProcessResult(p, m)
      [] OTHER -> p
ProcessMessages(messages) == Fold(Process, NothingProcessed, messages)

Errors == {"thrown", "result", "refusal", "text"}
ASSUME ErrorsAssumption == None \notin Errors

(***************************************************************************)
(* The item's error.  Running out of retries throws if the node says so;   *)
(* of the diagnostics the result's comes first, then a refusal, then what  *)
(* the text looks like, and none counts for a deferred tool.               *)
(***************************************************************************)
AgentError(messages, treats, onExhausted) ==
    LET p == ProcessMessages(messages)
    IN  IF p.exhausted /\ onExhausted = "throwError" THEN "thrown"
        ELSE IF ~treats \/ p.deferred THEN None
        ELSE IF p.isError THEN "result"
        ELSE IF p.refused THEN "refusal"
        ELSE IF p.failing THEN "text"
        ELSE None

-------------------------------------------------------------------------------
(***************************************************************************)
(* Task tools, for one task.  A call of TaskUpdate gives the task a status *)
(* of its own, named by the call; an answer is an object, or text if the   *)
(* call was refused; the answer of TaskList tells the task's status.       *)
(***************************************************************************)
TaskCall(kind, call) == [Message("assistant", kind) EXCEPT !.tool = call]
TaskAnswer(kind, call, told) ==
    [Message("user", kind) EXCEPT !.tool = call, !.ids = told]

IsTaskCall(m) == m.type = "assistant" /\ m.kind \in {"update", "list"}
IsAnswer(m) == m.type = "user" /\ m.kind = "answered"

NoTasks == [status |-> None, calls |-> {}]

\* mergeTaskPatch: a call's input is merged at once, and remembered for its answer.
TrackCall(t, m) ==
    [status |-> IF m.kind = "update" THEN m.tool ELSE t.status, calls |-> t.calls \cup {m}]

\* Mutant: the answer of an update, which names no status, is not merged.
TrackAnswerLists(t, m) ==
    IF \E call \in t.calls : call.tool = m.tool /\ call.kind = "list"
    THEN [t EXCEPT !.status = CHOOSE s \in m.ids : TRUE] ELSE t
\* An object answers a remembered call: an update's input is merged once more, under
\* the answer; of a list the tasks are merged.
TrackAnswer(t, m) ==
    IF \E call \in t.calls : call.tool = m.tool /\ call.kind = "update"
    THEN [t EXCEPT !.status = m.tool]
    ELSE IF \E call \in t.calls : call.tool = m.tool /\ call.kind = "list"
    THEN [t EXCEPT !.status = CHOOSE s \in m.ids : TRUE]
    ELSE t

Track(t, m) ==
    CASE IsTaskCall(m) -> TrackCall(t, m)
      [] IsAnswer(m) -> TrackAnswer(t, m)
      [] OTHER -> t
TrackedStatus(messages) == Fold(Track, NoTasks, messages).status
===============================================================================
