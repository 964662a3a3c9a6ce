----------------------------- MODULE NodeItems -----------------------------
(***************************************************************************)
(* Nodes running their input items, one after the other, over one chat     *)
(* session kept by the Postgres Session Memory node: the item loop of      *)
(* node/execute.ts, and of executeTaskOperation the steps that other       *)
(* processes and the outside world can see -- the Agent Plane callbacks,   *)
(* the session's execution lock, the agent's turn in the transcript file,  *)
(* and the durable record and observability rows written before the lock   *)
(* is released and the item returns.                                       *)
(* Each item opens a pool of its own, closed when the node ends.  Workers  *)
(* fail: any statement, callback or agent run may throw, and a process may *)
(* stop at any step, its connections being dropped one by one later.       *)
(***************************************************************************)
EXTENDS DurableRecord, FiniteSets

CONSTANTS
    Items,          \* the number of input items of each worker's node
    Lenient,        \* the workers whose node has "Continue On Fail"
    WithPlane,      \* the workers whose node reports to the Agent Plane
    Free,           \* the value of lock when nobody holds it
    MaxFaults       \* bound on failures and stops

ASSUME ItemsAssumption ==
    /\ Items \in [Writer -> Nat \ {0}]
    /\ Lenient \subseteq Writer /\ WithPlane \subseteq Writer
    /\ Free \notin Writer
    /\ NoRow \notin Seq(Writer \X Nat)
    /\ MaxFaults \in Nat

VARIABLES
    node,           \* per worker: the step it is at, its item, whether it runs
    run,            \* per worker: the locals of the item being executed
    lock,           \* whose connection holds the advisory lock
    transcript,     \* the lines of the chat session's transcript file
    plane,          \* per item: runs the Agent Plane started, ends it was told
    ended,          \* per item: how it ended
    faults

vars == <<schema, db, txn, node, run, lock, transcript, plane, ended, faults>>

AllItems == UNION {{w} \X (1 .. Items[w]) : w \in Writer}
Current(w) == <<w, node[w].item>>

NoRun ==
    [memory |-> FALSE, locked |-> FALSE, reported |-> FALSE, inChat |-> FALSE,
     content |-> <<>>, line |-> 0, result |-> "none", error |-> "none", flushed |-> FALSE]

Init ==
    /\ RecordInit
    /\ node = [w \in Writer |-> [pc |-> "next", item |-> 1, up |-> TRUE]]
    /\ run = [w \in Writer |-> NoRun]
    /\ lock = Free
    /\ transcript = <<>>
    /\ plane = [i \in AllItems |-> [started |-> 0, told |-> {}]]
    /\ ended = [i \in AllItems |-> [how |-> "pending", durable |-> FALSE, inChat |-> FALSE]]
    /\ faults = 0

At(w, pc) == node[w].up /\ node[w].pc = pc
Goto(w, pc) == node' = [node EXCEPT ![w].pc = pc]

(* An exception inside executeTaskOperation's try block.                   *)
Throw(w, kind) ==
    /\ run' = [run EXCEPT ![w].error = kind, ![w].content = <<>>, ![w].line = 0]
    /\ Goto(w, "catch")

Fault == faults < MaxFaults /\ faults' = faults + 1
NoFault == UNCHANGED faults

(* An exception before that block, which its catch block does not see.     *)
ThrowOutside(w) ==
    /\ Fault
    /\ \E kind \in {"node", "other"} : run' = [run EXCEPT ![w].error = kind]
    /\ Goto(w, "thrown")
----------------------------------------------------------------------------
(* The item loop.  An item that already is a task result passes through.   *)
PassThrough(w) ==
    /\ At(w, "next") /\ node[w].item <= Items[w]
    /\ ended' = [ended EXCEPT ![Current(w)].how = "passed"]
    /\ node' = [node EXCEPT ![w].item = @ + 1]
    /\ UNCHANGED <<recordVars, run, lock, transcript, plane, faults>>

(* Reading the item's parameters and making its adapter; a missing managed *)
(* agent is a NodeOperationError, a parameter that does not parse is not.  *)
BeginItem(w) ==
    /\ At(w, "next") /\ node[w].item <= Items[w]
    /\ \/ NoFault /\ Goto(w, IF w \in WithPlane THEN "ready" ELSE "memory") /\ UNCHANGED run
       \/ ThrowOutside(w)
    /\ UNCHANGED <<recordVars, lock, transcript, plane, ended>>

(* ensureCompanionAgentReady runs before the try block: an Agent Plane     *)
(* that refuses is a NodeOperationError, one that cannot be reached is     *)
(* not, and both leave executeTaskOperation at once.                       *)
EnsureReady(w) ==
    /\ At(w, "ready")
    /\ \/ Goto(w, "memory") /\ NoFault /\ UNCHANGED run
       \/ ThrowOutside(w)
    /\ UNCHANGED <<recordVars, lock, transcript, plane, ended>>

(* supplyData of the Postgres Session Memory node connects, creates its    *)
(* table and checks its columns, or fails.                                 *)
SupplyMemory(w) ==
    /\ At(w, "memory")
    /\ EnsureTables({"sessions"})
    /\ run' = [run EXCEPT ![w].memory = TRUE]
    /\ Goto(w, "lock")
    /\ UNCHANGED <<lock, transcript, plane, ended, faults>>

(* fetchSessionMemory: a memory node that fails counts as none connected.  *)
MissMemory(w) ==
    /\ At(w, "memory")
    /\ Fault
    /\ Goto(w, "start")
    /\ UNCHANGED <<recordVars, run, lock, transcript, plane, ended>>

(* As AcquireLock, going on without the lock when the wait is over.        *)
AcquireLockOrGoOn(w) ==
    /\ At(w, "lock")
    /\ \/ lock = Free /\ lock' = w /\ NoFault /\ Goto(w, "resolve") /\ UNCHANGED run
       \/ lock # Free /\ NoFault /\ Goto(w, "start") /\ UNCHANGED <<run, lock>>
    /\ UNCHANGED <<recordVars, transcript, plane, ended>>

(* As AcquireLock, with no limit on the wait.                              *)
AcquireLockForever(w) ==
    /\ At(w, "lock")
    /\ \/ lock = Free /\ lock' = w /\ NoFault /\ Goto(w, "resolve") /\ UNCHANGED run
       \/ Fault /\ Throw(w, "other") /\ UNCHANGED lock
    /\ UNCHANGED <<recordVars, transcript, plane, ended>>

(* acquireSessionExecutionLock polls for the lock and gives up after five  *)
(* seconds with a NodeOperationError; a failing poll is any error.         *)
AcquireLock(w) ==
    /\ At(w, "lock")
    /\ \/ lock = Free /\ lock' = w /\ NoFault /\ Goto(w, "resolve") /\ UNCHANGED run
       \/ lock # Free /\ NoFault /\ Throw(w, "node") /\ UNCHANGED lock
       \/ Fault /\ Throw(w, "other") /\ UNCHANGED lock
    /\ UNCHANGED <<recordVars, transcript, plane, ended>>

(* The rest of resolveSessionState: only its return hands the function     *)
(* that releases the lock to the caller.                                   *)
ResolveSession(w) ==
    /\ At(w, "resolve")
    /\ \/ NoFault /\ run' = [run EXCEPT ![w].locked = TRUE] /\ Goto(w, "start")
       \/ Fault /\ Throw(w, "other")
    /\ UNCHANGED <<recordVars, lock, transcript, plane, ended>>

(* fetchAgentPlane sends a request a second time, to the local URL, when   *)
(* the first one broke, whether or not the Agent Plane had received it:    *)
(* how often an answered and an unanswered request are received.           *)
Answered == 1 .. 2
Unanswered == 0 .. 2

(* recordCompanionRunStarted, whose failure the catch block sees.          *)
RecordStarted(w) ==
    /\ At(w, "start")
    /\ \/ w \notin WithPlane /\ NoFault /\ Goto(w, "agent") /\ UNCHANGED <<run, plane>>
       \/ /\ w \in WithPlane
          /\ \E copies \in Answered :
                /\ IF copies = 1 THEN NoFault ELSE Fault
                /\ plane' = [plane EXCEPT ![Current(w)].started = copies]
          /\ run' = [run EXCEPT ![w].reported = TRUE]
          /\ Goto(w, "agent")
       \/ /\ w \in WithPlane /\ Fault
          /\ \E kind \in {"node", "other"} : Throw(w, kind)
          /\ \E copies \in Unanswered : plane' = [plane EXCEPT ![Current(w)].started = copies]
    /\ UNCHANGED <<recordVars, lock, transcript, ended>>

(* runAgentExecution and waitForPendingInteractions: the agent adds its    *)
(* turn to the transcript of the chat session, or of another session when  *)
(* it drifted; it may fail with or without having written it.              *)
RunAgent(w) ==
    /\ At(w, "agent")
    /\ \E inChat \in BOOLEAN :
        /\ transcript' = IF inChat THEN Append(transcript, Current(w)) ELSE transcript
        /\ \/ /\ NoFault
              /\ \E result \in {"ok", "agentError", "paused"} :
                    /\ run' = [run EXCEPT ![w].inChat = inChat, ![w].result = result]
                    /\ Goto(w, IF ~run[w].memory
                               THEN "flush"
                               ELSE IF result = "paused" THEN "content" ELSE "metadata")
           \/ Fault /\ Throw(w, "other")
    /\ UNCHANGED <<recordVars, lock, plane, ended>>

(* persistSessionMetadata, on the completed path.                          *)
PersistMetadata(w) ==
    /\ At(w, "metadata")
    /\ \/ NoFault /\ Goto(w, "content") /\ UNCHANGED run
       \/ Fault /\ Throw(w, "other")
    /\ UNCHANGED <<recordVars, lock, transcript, plane, ended>>

(* resolveDurableFullSessionContent: the first transcript with lines, the  *)
(* chat session's before the one the agent ran in, else the messages of    *)
(* this run.                                                               *)
ReadContent(w) ==
    /\ At(w, "content")
    /\ run' = [run EXCEPT ![w].content =
                    IF transcript # <<>> THEN transcript ELSE <<Current(w)>>]
    /\ Goto(w, "tables")
    /\ UNCHANGED <<recordVars, lock, transcript, plane, ended, faults>>
----------------------------------------------------------------------------
(* As BeginRecord, the statements being sent without BEGIN.                *)
BeginRecordNot(w) ==
    /\ At(w, "begin")
    /\ Goto(w, "update")
    /\ UNCHANGED <<recordVars, run, lock, transcript, plane, ended, faults>>

(* persistFullSessionToPostgresPool, one statement a step.                 *)
CreateTables(w) ==
    /\ At(w, "tables")
    /\ EnsureTables({"full", "events"})
    /\ Goto(w, "begin")
    /\ UNCHANGED <<run, lock, transcript, plane, ended, faults>>

BeginRecord(w) ==
    /\ At(w, "begin")
    /\ Begin(w)
    /\ Goto(w, "update")
    /\ UNCHANGED <<run, lock, transcript, plane, ended, faults>>

UpdateFull(w) ==
    /\ At(w, "update")
    /\ \/ UpdateRow(w, run[w].content) /\ Goto(w, "delete")
       \/ UpdateMisses /\ Goto(w, "insert")
    /\ UNCHANGED <<run, lock, transcript, plane, ended, faults>>

InsertFull(w) ==
    /\ At(w, "insert")
    /\ \/ InsertRow(w, run[w].content) /\ Goto(w, "delete") /\ UNCHANGED run
       \/ InsertConflicts(w) /\ Abort(w) /\ Throw(w, "other")
    /\ UNCHANGED <<lock, transcript, plane, ended, faults>>

DeleteLines(w) ==
    /\ At(w, "delete")
    /\ DeleteEvents(w)
    /\ run' = [run EXCEPT ![w].line = 0]
    /\ Goto(w, "lines")
    /\ UNCHANGED <<lock, transcript, plane, ended, faults>>

InsertLine(w) ==
    /\ At(w, "lines") /\ run[w].line < Len(run[w].content)
    /\ LET seq == run[w].line + 1 IN
        /\ InsertEvent(w, seq, run[w].content[seq])
        /\ run' = [run EXCEPT ![w].line = seq]
    /\ UNCHANGED <<node, lock, transcript, plane, ended, faults>>

CommitRecord(w) ==
    /\ At(w, "lines") /\ run[w].line = Len(run[w].content)
    /\ Commit(w)
    /\ run' = [run EXCEPT ![w].content = <<>>, ![w].line = 0]
    /\ Goto(w, "flush")
    /\ UNCHANGED <<lock, transcript, plane, ended, faults>>

(* A statement fails, its connection is destroyed and ROLLBACK finds no    *)
(* transaction; of a failed COMMIT nobody knows whether it took effect.    *)
RecordFails(w) ==
    /\ node[w].up /\ node[w].pc \in {"tables", "begin", "update", "insert", "delete", "lines"}
    /\ Fault
    /\ \/ Abort(w)
       \/ node[w].pc = "lines" /\ run[w].line = Len(run[w].content) /\ Commit(w)
    /\ Throw(w, "other")
    /\ UNCHANGED <<lock, transcript, plane, ended>>
----------------------------------------------------------------------------
(* As Flush, remembering a flush only once it is done.                     *)
FlushUnremembered(w) ==
    /\ At(w, "flush")
    /\ Goto(w, IF run[w].memory /\ ~run[w].flushed THEN "obsTables" ELSE "release")
    /\ UNCHANGED <<recordVars, run, lock, transcript, plane, ended, faults>>

(* flushObservability: at most once per item, and tried, not done.         *)
Flush(w) ==
    /\ At(w, "flush")
    /\ run' = [run EXCEPT ![w].flushed = TRUE]
    /\ Goto(w, IF run[w].memory /\ ~run[w].flushed THEN "obsTables" ELSE "release")
    /\ UNCHANGED <<recordVars, lock, transcript, plane, ended, faults>>

TerminalStatus(w) ==
    IF run[w].error # "none" THEN "failed"
    ELSE IF run[w].result = "paused" THEN "paused_hitl" ELSE "completed"

CreateObservabilityTable(w) ==
    /\ At(w, "obsTables")
    /\ EnsureTables({"observability"})
    /\ Goto(w, "obsBegin")
    /\ UNCHANGED <<run, lock, transcript, plane, ended, faults>>

BeginObservability(w) ==
    /\ At(w, "obsBegin")
    /\ Begin(w)
    /\ Goto(w, "obsRows")
    /\ UNCHANGED <<run, lock, transcript, plane, ended, faults>>

WriteObservability(w) ==
    /\ At(w, "obsRows")
    /\ InsertObservability(w, Current(w), TerminalStatus(w))
    /\ Goto(w, "obsCommit")
    /\ UNCHANGED <<run, lock, transcript, plane, ended, faults>>

CommitObservability(w) ==
    /\ At(w, "obsCommit")
    /\ Commit(w)
    /\ Goto(w, "release")
    /\ UNCHANGED <<run, lock, transcript, plane, ended, faults>>

(* The failed path allows the flush to fail; the others throw.             *)
ObservabilityFails(w) ==
    /\ node[w].up /\ node[w].pc \in {"obsTables", "obsBegin", "obsRows", "obsCommit"}
    /\ Fault
    /\ \/ Abort(w)
       \/ node[w].pc = "obsCommit" /\ Commit(w)
    /\ IF run[w].error = "none"
       THEN Throw(w, "other")
       ELSE Goto(w, "release") /\ UNCHANGED run
    /\ UNCHANGED <<lock, transcript, plane, ended>>

(* releaseSessionExecutionLockIfNeeded swallows a failing unlock, which    *)
(* leaves the lock with a connection of the pool unless that one broke.    *)
ReleaseLock(w) ==
    /\ At(w, "release")
    /\ \/ ~run[w].locked /\ NoFault /\ UNCHANGED lock
       \/ run[w].locked /\ NoFault /\ lock' = Free
       \/ run[w].locked /\ Fault /\ UNCHANGED lock
    /\ run' = [run EXCEPT ![w].locked = FALSE]
    /\ Goto(w, IF run[w].error # "none" THEN "thrown" ELSE "tell")
    /\ UNCHANGED <<recordVars, transcript, plane, ended>>

(* An end is told of the run whose id is known; its request may not arrive *)
(* and its answer may be lost.                                             *)
Tell(w, end) ==
    \/ NoFault /\ plane' = [plane EXCEPT ![Current(w)].told = @ \cup {end}]
    \/ Fault /\ UNCHANGED plane
    \/ Fault /\ plane' = [plane EXCEPT ![Current(w)].told = @ \cup {end}]

(* As RecordCompleted, its failure reaching the catch block.               *)
RecordCompletedOrThrow(w) ==
    /\ At(w, "tell")
    /\ \/ /\ IF run[w].reported /\ run[w].result # "paused"
             THEN plane' = [plane EXCEPT ![Current(w)].told = @ \cup {"completed"}]
             ELSE UNCHANGED plane
          /\ NoFault /\ Goto(w, "return") /\ UNCHANGED run
       \/ /\ run[w].reported /\ Fault
          /\ plane' = [plane EXCEPT ![Current(w)].told = @ \cup {"completed"}]
          /\ Throw(w, "other")
    /\ UNCHANGED <<recordVars, lock, transcript, ended>>

(* recordCompanionRunCompleted, for a task_result, which a paused item is  *)
(* not; its failure is caught.                                             *)
RecordCompleted(w) ==
    /\ At(w, "tell")
    /\ IF run[w].reported /\ run[w].result # "paused"
       THEN Tell(w, "completed")
       ELSE NoFault /\ UNCHANGED plane
    /\ Goto(w, "return")
    /\ UNCHANGED <<recordVars, run, lock, transcript, ended>>

(* The catch block of executeTaskOperation begins with                     *)
(* recordCompanionRunFailed.                                               *)
RecordFailed(w) ==
    /\ At(w, "catch")
    /\ IF run[w].reported THEN Tell(w, "failed") ELSE NoFault /\ UNCHANGED plane
    /\ Goto(w, "flush")
    /\ UNCHANGED <<recordVars, run, lock, transcript, ended>>
----------------------------------------------------------------------------
(* The item's end in the loop.                                             *)
EndItem(w, how, pc) ==
    /\ ended' = [ended EXCEPT ![Current(w)] =
                    [how |-> how, durable |-> run[w].memory, inChat |-> run[w].inChat]]
    /\ run' = [run EXCEPT ![w] = NoRun]
    /\ node' = [node EXCEPT ![w].pc = pc,
                            ![w].item = IF pc = "next" THEN @ + 1 ELSE @]

(* A result with an agentError is an item of its own under "Continue On    *)
(* Fail" and otherwise a NodeOperationError.                               *)
ReturnItem(w) ==
    /\ At(w, "return")
    /\ \/ run[w].result = "paused" /\ EndItem(w, "paused", "next")
       \/ run[w].result = "ok" /\ EndItem(w, "completed", "next")
       \/ /\ run[w].result = "agentError"
          /\ IF w \in Lenient THEN EndItem(w, "completed", "next") ELSE EndItem(w, "failed", "end")
    /\ UNCHANGED <<recordVars, lock, transcript, plane, faults>>

(* A NodeOperationError ends the node whatever its settings; any other     *)
(* error is an item of its own under "Continue On Fail".                   *)
CatchItem(w) ==
    /\ At(w, "thrown")
    /\ IF run[w].error = "other" /\ w \in Lenient
       THEN EndItem(w, "failed", "next")
       ELSE EndItem(w, "failed", "end")
    /\ UNCHANGED <<recordVars, lock, transcript, plane, faults>>

FinishNode(w) ==
    /\ At(w, "next") /\ node[w].item > Items[w]
    /\ Goto(w, "end")
    /\ UNCHANGED <<recordVars, run, lock, transcript, plane, ended, faults>>

(* n8n calls the memory's closeFunctions: the pools of all items close.    *)
CloseNode(w) ==
    /\ At(w, "end")
    /\ lock' = IF lock = w THEN Free ELSE lock
    /\ Goto(w, "closed")
    /\ UNCHANGED <<recordVars, run, transcript, plane, ended, faults>>
----------------------------------------------------------------------------
(* The process stops; Postgres notices each of its connections later, and  *)
(* may first carry out a COMMIT already on its way.                        *)
Crash(w) ==
    /\ node[w].up /\ node[w].pc # "closed"
    /\ Fault
    /\ node' = [node EXCEPT ![w].up = FALSE]
    /\ UNCHANGED <<recordVars, run, lock, transcript, plane, ended>>

ReapLock(w) ==
    /\ ~node[w].up /\ lock = w
    /\ lock' = Free
    /\ UNCHANGED <<recordVars, node, run, transcript, plane, ended, faults>>

ReapTransaction(w) ==
    /\ ~node[w].up /\ txn[w].open
    /\ \/ Abort(w)
       \/ /\ \/ node[w].pc = "lines" /\ run[w].line = Len(run[w].content)
             \/ node[w].pc = "obsCommit"
          /\ Commit(w)
    /\ UNCHANGED <<node, run, lock, transcript, plane, ended, faults>>

Step(w) ==
    \/ PassThrough(w) \/ BeginItem(w) \/ FinishNode(w) \/ CloseNode(w)
    \/ EnsureReady(w) \/ SupplyMemory(w) \/ MissMemory(w) \/ AcquireLock(w) \/ ResolveSession(w)
    \/ RecordStarted(w) \/ RunAgent(w) \/ PersistMetadata(w) \/ ReadContent(w)
    \/ CreateTables(w) \/ BeginRecord(w) \/ UpdateFull(w) \/ InsertFull(w)
    \/ DeleteLines(w) \/ InsertLine(w) \/ CommitRecord(w) \/ RecordFails(w)
    \/ Flush(w) \/ CreateObservabilityTable(w) \/ BeginObservability(w) \/ WriteObservability(w)
    \/ CommitObservability(w) \/ ObservabilityFails(w) \/ ReleaseLock(w)
    \/ RecordCompleted(w) \/ RecordFailed(w) \/ ReturnItem(w) \/ CatchItem(w)

Stop(w) == Crash(w) \/ ReapLock(w) \/ ReapTransaction(w)

Next == \E w \in Writer : Step(w) \/ Stop(w)

Spec == Init /\ [][Next]_vars

(* A running process goes on, every statement and callback being answered  *)
(* or failing; Postgres notices that a process is gone.                    *)
FairSpec ==
    /\ Spec
    /\ \A w \in Writer : WF_vars(Step(w)) /\ WF_vars(ReapLock(w)) /\ WF_vars(ReapTransaction(w))
----------------------------------------------------------------------------
Pcs ==
    {"next", "ready", "memory", "lock", "resolve", "start", "agent", "metadata", "content",
     "tables", "begin", "update", "insert", "delete", "lines", "flush", "obsTables", "obsBegin",
     "obsRows", "obsCommit", "release", "tell", "catch", "return", "thrown", "end", "closed"}

(* A line of the transcript stands for the turn of an item.                *)
Line == Writer \X Nat
Rows == Seq(Line) \cup {NoRow}
ObsRow == Line \X {"completed", "paused_hitl", "failed"}

Dbs == [full : Rows, events : Seq(Line), obs : SUBSET ObsRow]
Txns == [open : BOOLEAN, full : Rows, events : Rows, deleted : Nat, obs : SUBSET ObsRow]
Nodes == [pc : Pcs, item : Nat, up : BOOLEAN]
Runs ==
    [memory : BOOLEAN, locked : BOOLEAN, reported : BOOLEAN, inChat : BOOLEAN,
     content : Seq(Line), line : Nat, result : {"none", "ok", "agentError", "paused"},
     error : {"none", "node", "other"}, flushed : BOOLEAN]
Planes == [started : 0 .. 2, told : SUBSET {"completed", "failed"}]
Ends ==
    [how : {"pending", "passed", "completed", "paused", "failed"},
     durable : BOOLEAN, inChat : BOOLEAN]

TypeOK ==
    /\ schema \subseteq Tables /\ db \in Dbs /\ txn \in [Writer -> Txns]
    /\ node \in [Writer -> Nodes] /\ run \in [Writer -> Runs]
    /\ lock \in Writer \cup {Free} /\ transcript \in Seq(Line)
    /\ plane \in [AllItems -> Planes] /\ ended \in [AllItems -> Ends]
    /\ faults \in 0 .. MaxFaults

(* The archive row and the event rows tell the same session, whatever      *)
(* failed between them and whoever else wrote (the transaction of          *)
(* persistFullSessionToPostgresPool).                                      *)
RecordMatches ==
    db.events = IF db.full = NoRow THEN <<>> ELSE db.full

(* An item that returned over a connected Postgres memory has its rows     *)
(* with its status, and its turn, if the agent wrote it to the transcript  *)
(* of the chat session, is in the archive and stays there, whichever       *)
(* worker writes it next ("Successful and HITL-paused runs fail instead of *)
(* returning if those durable writes fail").  Nothing is said of a turn in *)
(* another session, of an item whose memory did not connect, or of what    *)
(* the loss of the transcript file would do, which no step here loses.     *)
ReturnsAreDurable ==
    \A i \in AllItems :
        (ended[i].how \in {"completed", "paused"} /\ ended[i].durable) =>
            /\ <<i, IF ended[i].how = "paused" THEN "paused_hitl" ELSE "completed">> \in db.obs
            /\ ended[i].inChat => db.full # NoRow /\ \E n \in 1 .. Len(db.full) : db.full[n] = i

(* The rows of an item tell one terminal status, even when a COMMIT took   *)
(* effect whose answer never came.                                         *)
OneOutcome ==
    \A r, s \in db.obs : r[1] = s[1] => r = s

(* The Agent Plane is not told that a run both completed and failed, nor   *)
(* that a run failed whose item returned its result.                       *)
PlaneAgrees ==
    \A i \in AllItems :
        "failed" \in plane[i].told =>
            "completed" \notin plane[i].told /\ ended[i].how \notin {"completed", "paused"}

(* A node comes to its end: waiting for the lock never holds it up, not    *)
(* even when an earlier item of the same node left the lock behind.        *)
NodesEnd == \A w \in Writer : <>(node[w].pc = "closed" \/ ~node[w].up)

=============================================================================
