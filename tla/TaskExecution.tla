---------------------------- MODULE TaskExecution ----------------------------
(***************************************************************************)
(* Executions of the executeTask operation on one chat session             *)
(* (operations/executeTask/index.ts and its steps): take the session lock, *)
(* resolve the session from memory, run the agent with the retries of      *)
(* runAgentExecution, pause for a human or complete, and release.  An      *)
(* execution that paused runs again, in a further round, once its question *)
(* is answered.                                                            *)
(*                                                                         *)
(* A step is what the code does from one await to the next; every awaited  *)
(* call of the session memory, of the stream store and of the agent may    *)
(* fail (if Faults says so), and an exception takes the path of the catch  *)
(* block.  The agent, its transcripts and the connection pool are external *)
(* and modelled from how the code uses them.                               *)
(***************************************************************************)
EXTENDS Integers, QueryRetry

CONSTANTS Executions,
          Chat,       \* the chat session id, also the id of its Claude session
          Backend,    \* "localCli" or "managedAgent"
          Streaming,  \* whether an execution has a durable stream: the possible answers
          Memories,   \* the Session Memory nodes considered
          Faults,     \* the calls that may fail in this instance
          MaxRounds   \* bound on the questions of one execution

FaultKinds == {"connect", "poll", "unlock", "memory", "setup", "stream", "durable", "transcript",
               "record", "wait"}

ASSUME ChatAssumption == Chat \in Sessions
ASSUME ExecutionsAssumption == None \notin Executions
ASSUME InstanceAssumption == /\ Backend \in {"localCli", "managedAgent"}
                             /\ Memories \subseteq MemoryKinds
                             /\ Faults \subseteq FaultKinds
                             /\ Streaming \subseteq BOOLEAN
                             /\ MaxRounds \in Nat

VARIABLES memory,   \* the Session Memory node connected: "postgres", "redis" or "simple"
          holder,   \* the execution whose backend holds the advisory lock
          client,   \* the pinned connection of each execution
          release,  \* lifecycle.state.releaseSessionExecutionLock is set
          entry,    \* the session memory's entry
          made,     \* the sessions that exist (transcripts, managed sessions)
          pc,
          outcome,  \* how the execution ends once it has released the lock
          seen,     \* sessionMemory.has returned true
          opts,     \* queryOptions
          stage,    \* where runAgentExecution is in its retries
          tries,    \* its counter of queries
          live,     \* the session the running query works in
          latched,  \* the running query began with an interaction pending
          sess,     \* executionSessionId
          asked,    \* the pending interaction, by the session it was raised in
          answers,  \* the answered interaction this round resumes from, likewise
          record,   \* the interaction store has the record of the pending one
          waiting,  \* putExecutionToWait was called
          round,
          handle,   \* the execution has a handle on the durable stream store
          stream,   \* status of the execution's stream row
          lost      \* history: the catch block could not mark the stream

lockVars == <<memory, holder, client, release>>
runVars == <<opts, stage, tries, live, latched>>
hitlVars == <<asked, answers, record, waiting, round>>
streamVars == <<handle, stream, lost>>
vars == <<lockVars, entry, made, pc, outcome, seen, runVars, sess, hitlVars, streamVars>>

Ended == {"done", "paused", "failed"}
Section == {"has", "meta", "forget", "setup", "start", "query", "sync", "store",
            "wait", "pauseMark", "pauseFull", "mark", "persist", "full"}
Managed == Backend = "managedAgent"
Resumed(e) == answers[e] # None      \* isApprovalResume

TypeOK ==
    /\ memory \in Memories
    /\ holder \in Executions \cup {None}
    /\ client \in [Executions -> {"none", "pinned", "idle", "closed"}]
    /\ release \in [Executions -> BOOLEAN]
    /\ entry \in Entries /\ made \in SUBSET Sessions
    /\ pc \in [Executions -> {"idle", "poll", "failMark", "release"} \cup Section \cup Ended]
    /\ outcome \in [Executions -> Ended]
    /\ seen \in [Executions -> BOOLEAN]
    /\ opts \in [Executions -> Options]
    /\ stage \in [Executions -> {"first", "bootstrap", "recovered", "emptyRetry"}]
    /\ tries \in [Executions -> Nat]
    /\ live \in [Executions -> OrNone] /\ latched \in [Executions -> BOOLEAN]
    /\ sess \in [Executions -> OrNone]
    /\ asked \in [Executions -> OrNone] /\ answers \in [Executions -> OrNone]
    /\ record \in [Executions -> BOOLEAN] /\ waiting \in [Executions -> BOOLEAN]
    /\ round \in [Executions -> Nat]
    /\ handle \in [Executions -> BOOLEAN] /\ lost \in [Executions -> BOOLEAN]
    /\ stream \in [Executions -> {"none", "live", "completed", "paused_hitl", "failed"}]

Init == /\ memory \in Memories
        /\ holder = None
        /\ client = [e \in Executions |-> "none"]
        /\ release = [e \in Executions |-> FALSE]
        /\ entry = NoEntry /\ made = {}
        /\ pc = [e \in Executions |-> "idle"]
        /\ outcome = [e \in Executions |-> "failed"]
        /\ seen = [e \in Executions |-> FALSE]
        /\ opts = [e \in Executions |-> NoOptions]
        /\ stage = [e \in Executions |-> "first"]
        /\ tries = [e \in Executions |-> 0]
        /\ live = [e \in Executions |-> None]
        /\ latched = [e \in Executions |-> FALSE]
        /\ sess = [e \in Executions |-> None]
        /\ asked = [e \in Executions |-> None]
        /\ answers = [e \in Executions |-> None]
        /\ record = [e \in Executions |-> FALSE]
        /\ waiting = [e \in Executions |-> FALSE]
        /\ round = [e \in Executions |-> 0]
        /\ handle = [e \in Executions |-> FALSE]
        /\ stream = [e \in Executions |-> "none"]
        /\ lost = [e \in Executions |-> FALSE]

\* A call of the session memory may throw; Simple memory has none that does.
MemoryMayFail == "memory" \in Faults /\ memory # "simple"

Goto(e, l) == pc' = [pc EXCEPT ![e] = l]
\* An exception: the catch block first tells the stream.
Throw(e) == Goto(e, "failMark") /\ outcome' = [outcome EXCEPT ![e] = "failed"]
EndAs(e, o) == Goto(e, "release") /\ outcome' = [outcome EXCEPT ![e] = o]
-----------------------------------------------------------------------------
(***************************************************************************)
(* acquireSessionExecutionLock and resolveSessionState.                    *)
(***************************************************************************)
Begin(e) ==
    /\ pc[e] = "idle"
    /\ Goto(e, IF HasLock(memory) THEN "poll" ELSE "has")
    /\ client' = [client EXCEPT ![e] = IF HasLock(memory) THEN "pinned" ELSE "none"]
    /\ UNCHANGED <<memory, holder, release, entry, made, outcome, seen, runVars, sess, hitlVars, streamVars>>

ConnectFails(e) ==
    /\ pc[e] = "idle" /\ HasLock(memory) /\ "connect" \in Faults
    /\ Throw(e)
    /\ UNCHANGED <<lockVars, entry, made, seen, runVars, sess, hitlVars, streamVars>>

\* Mutant: the answer of pg_try_advisory_lock is not looked at.
TryLockShared(e) ==
    /\ pc[e] = "poll"
    /\ holder' = e
    /\ Goto(e, "has")
    /\ UNCHANGED <<memory, client, release, entry, made, outcome, seen, runVars, sess, hitlVars, streamVars>>

\* One poll that gets the lock.
TryLock(e) ==
    /\ pc[e] = "poll" /\ holder = None
    /\ holder' = e
    /\ Goto(e, "has")
    /\ UNCHANGED <<memory, client, release, entry, made, outcome, seen, runVars, sess, hitlVars, streamVars>>

\* The lock stayed taken until the timeout, or the poll itself failed.
GiveUpLock(e) ==
    /\ pc[e] = "poll"
    /\ holder # None \/ "poll" \in Faults
    /\ client' = [client EXCEPT ![e] = "idle"]
    /\ Throw(e)
    /\ UNCHANGED <<memory, holder, release, entry, made, seen, runVars, sess, hitlVars, streamVars>>

Has(e) ==
    /\ pc[e] = "has"
    /\ seen' = [seen EXCEPT ![e] = entry.there]
    /\ Goto(e, "meta")
    /\ UNCHANGED <<lockVars, entry, made, outcome, runVars, sess, hitlVars, streamVars>>

\* resolveSessionState returned: from here on the lifecycle can release the lock.
Returned(e) == Goto(e, "setup") /\ release' = [release EXCEPT ![e] = HasLock(memory)]

(***************************************************************************)
(* getMetadata, and the decision taken from it.  A local session is        *)
(* resumed if its transcript exists; an entry without one is stale.        *)
(***************************************************************************)
ReadMetadata(e) ==
    LET stale  == ~Managed /\ seen[e] /\ Chat \notin made
        resume == IF ~Managed /\ seen[e] /\ Chat \in made THEN Chat ELSE None
        stored == IF Managed /\ seen[e] THEN entry.managed ELSE None
    IN  /\ pc[e] = "meta"
        /\ opts' = [opts EXCEPT ![e] = [SessionOptions(resume, Chat) EXCEPT !.managed = stored]]
        /\ IF stale THEN Goto(e, "forget") /\ UNCHANGED release ELSE Returned(e)
        /\ UNCHANGED <<memory, holder, client, entry, made, outcome, seen, stage, tries, live,
                       latched, sess, hitlVars, streamVars>>

ForgetStale(e) ==
    /\ pc[e] = "forget"
    /\ entry' = Forget(memory, entry)
    /\ Returned(e)
    /\ UNCHANGED <<memory, holder, client, made, outcome, seen, runVars, sess, hitlVars, streamVars>>

\* The release function is only in a local variable yet: the catch block has none to call.
ResolveFails(e) ==
    /\ pc[e] \in {"has", "meta"} \/ (pc[e] = "forget" /\ HasForget(memory))
    /\ MemoryMayFail
    /\ Throw(e)
    /\ UNCHANGED <<lockVars, entry, made, seen, runVars, sess, hitlVars, streamVars>>
-----------------------------------------------------------------------------
(***************************************************************************)
(* Everything between session resolution and the first query.  A resume    *)
(* from an answered interaction rewrites the session options; the durable  *)
(* stream may be off or unavailable.                                       *)
(***************************************************************************)
OpenStream(e) ==
    \E h \in Streaming :
        /\ handle' = [handle EXCEPT ![e] = h]
        /\ stream' = [stream EXCEPT ![e] = IF h THEN "live" ELSE @]

ApplyAnswer(e) ==
    LET o == ResumeOptions(opts[e], IF Managed THEN answers[e] ELSE Chat)
    IN  \E anchor \in {None, answers[e]} :
            opts' = [opts EXCEPT ![e] = IF Resumed(e) THEN [o EXCEPT !.at = anchor] ELSE @]

Setup(e) ==
    /\ pc[e] = "setup"
    /\ ApplyAnswer(e)
    /\ OpenStream(e)
    /\ stage' = [stage EXCEPT ![e] = "first"]
    /\ tries' = [tries EXCEPT ![e] = 0]
    /\ Goto(e, "start")
    /\ UNCHANGED <<lockVars, entry, made, outcome, seen, live, latched, sess, hitlVars, lost>>

\* Before the stream was opened or after (approval wiring, the companion callback).
SetupFails(e) ==
    /\ pc[e] = "setup" /\ "setup" \in Faults
    /\ OpenStream(e)
    /\ Throw(e)
    /\ UNCHANGED <<lockVars, entry, made, seen, runVars, sess, hitlVars, lost>>
-----------------------------------------------------------------------------
(***************************************************************************)
(* The agent (external).  It refuses a query that resumes what is not      *)
(* there or bootstraps an id that exists; a query without options runs in  *)
(* a new session.  The managed-agent adapter sends an answer to the        *)
(* session it is given, and otherwise replaces a session it cannot open.   *)
(***************************************************************************)
InUse(e) == made \cup {live[x] : x \in Executions \ {e}}
NewSessions(e) == Sessions \ ({Chat} \cup InUse(e))

Refusal(e) ==
    LET o == opts[e] IN
    IF Managed THEN "no"
    ELSE IF o.resume # None
         THEN IF o.at \notin {None, o.resume} THEN "lookup"
              ELSE IF o.resume \notin made THEN "retryable" ELSE "no"
         ELSE IF o.sessionId \in InUse(e) \ {None} THEN "collision" ELSE "no"

AnswerTarget(o) == IF o.managed # None THEN o.managed ELSE o.resume
QuerySessions(e) ==
    LET o == opts[e] IN
    IF Managed
    THEN IF Resumed(e) THEN {AnswerTarget(o)}
         ELSE IF o.managed # None THEN {o.managed} \cup NewSessions(e) ELSE NewSessions(e)
    ELSE IF o.resume # None THEN {o.resume}
         ELSE IF o.sessionId # None THEN {o.sessionId} ELSE NewSessions(e)

QueryStarts(e) ==
    /\ pc[e] = "start" /\ Refusal(e) = "no"
    /\ \E s \in QuerySessions(e) : live' = [live EXCEPT ![e] = s]
    /\ latched' = [latched EXCEPT ![e] = asked[e] # None]
    /\ tries' = [tries EXCEPT ![e] = @ + 1]
    /\ Goto(e, "query")
    /\ UNCHANGED <<lockVars, entry, made, outcome, seen, opts, stage, sess, hitlVars, streamVars>>

(***************************************************************************)
(* runAgentExecution after a query that threw: a collided bootstrap is     *)
(* retried as a resume, a failed resume plain or fresh, and nothing a      *)
(* second time.                                                            *)
(***************************************************************************)
AttemptFailed(e, kind) ==
    LET o      == opts[e]
        action == RecoveryAction(o, kind, Resumed(e))
        Retry(options, s) == /\ opts' = [opts EXCEPT ![e] = options]
                             /\ stage' = [stage EXCEPT ![e] = s]
                             /\ Goto(e, "start") /\ UNCHANGED outcome
    IN  CASE stage[e] = "first" /\ BootstrapCollided(o, kind) ->
                Retry(BootstrapResume(o), "bootstrap")
          [] ~(stage[e] = "first" /\ BootstrapCollided(o, kind))
             /\ stage[e] \in {"first", "bootstrap"} /\ action = "retry_plain_resume" ->
                Retry(PlainResume(o), "recovered")
          [] ~(stage[e] = "first" /\ BootstrapCollided(o, kind))
             /\ stage[e] \in {"first", "bootstrap"} /\ action = "retry_fresh" ->
                Retry(Fresh(o), "recovered")
          [] OTHER -> Throw(e) /\ UNCHANGED <<opts, stage>>

\* The query fails before the agent did anything.
QueryRejected(e) ==
    /\ pc[e] = "start"
    /\ \E kind \in IF Refusal(e) # "no" THEN {Refusal(e)}
                   ELSE {"retryable", "hard"} \cup IF opts[e].at # None THEN {"lookup"} ELSE {} :
          AttemptFailed(e, kind)
    /\ tries' = [tries EXCEPT ![e] = @ + 1]
    /\ UNCHANGED <<lockVars, entry, made, seen, live, latched, sess, hitlVars, streamVars>>

\* The session of a query that failed or said nothing may or may not be there.
MaybeMade(e) == made' \in {made, made \cup {live[e]}}
QueryOver(e) == live' = [live EXCEPT ![e] = None]

QueryFails(e) ==
    /\ pc[e] = "query"
    /\ \E kind \in {"retryable", "hard"} : AttemptFailed(e, kind)
    /\ MaybeMade(e) /\ QueryOver(e)
    /\ UNCHANGED <<lockVars, entry, seen, tries, latched, sess, hitlVars, streamVars>>

(***************************************************************************)
(* canUseTool of a local run: unless an interaction is pending already,    *)
(* its record is stored and it becomes pending.                            *)
(***************************************************************************)
Ask(e) ==
    /\ pc[e] = "query" /\ ~Managed /\ asked[e] = None /\ round[e] < MaxRounds
    /\ asked' = [asked EXCEPT ![e] = live[e]]
    /\ record' = [record EXCEPT ![e] = TRUE]
    /\ UNCHANGED <<lockVars, entry, made, pc, outcome, seen, runVars, sess, answers, waiting,
                   round, streamVars>>

\* Mutant: a run whose messages lack the session id never pauses.
QueryReturnsCompleting(e) ==
    /\ pc[e] = "query" /\ ~latched[e]
    /\ \E s \in {live[e], None} :
          /\ sess' = [sess EXCEPT ![e] = s]
          /\ Goto(e, IF asked[e] # None /\ s # None THEN "sync" ELSE "mark")
    /\ made' = made \cup {live[e]}
    /\ QueryOver(e)
    /\ UNCHANGED <<lockVars, entry, outcome, seen, opts, stage, tries, latched, hitlVars, streamVars>>

(***************************************************************************)
(* The query ends with messages.  A query that began with an interaction   *)
(* pending is interrupted at its first message, so it never does.  A       *)
(* managed run may end with an interaction to raise (hitlBridge).  The     *)
(* messages of a local run may lack the session id.                        *)
(***************************************************************************)
QueryReturns(e) ==
    /\ pc[e] = "query" /\ ~latched[e]
    /\ \E raises \in BOOLEAN :
          /\ raises => Managed /\ round[e] < MaxRounds
          /\ asked' = [asked EXCEPT ![e] = IF raises THEN live[e] ELSE @]
    /\ sess' \in {[sess EXCEPT ![e] = s] : s \in {live[e]} \cup IF Managed THEN {} ELSE {None}}
    /\ made' = made \cup {live[e]}
    /\ QueryOver(e)
    /\ Goto(e, IF asked'[e] # None THEN "sync" ELSE "mark")
    /\ UNCHANGED <<lockVars, entry, outcome, seen, opts, stage, tries, latched, answers, record,
                   waiting, round, streamVars>>

QueryEmpty(e) ==
    /\ pc[e] = "query" /\ (asked[e] = None \/ latched[e])
    /\ IF stage[e] = "emptyRetry"
       THEN Throw(e) /\ UNCHANGED <<opts, stage>>
       ELSE /\ opts' = [opts EXCEPT ![e] = EmptyRetry(@, Resumed(e))]
            /\ stage' = [stage EXCEPT ![e] = "emptyRetry"]
            /\ Goto(e, "start") /\ UNCHANGED outcome
    /\ MaybeMade(e) /\ QueryOver(e)
    /\ UNCHANGED <<lockVars, entry, seen, tries, latched, sess, hitlVars, streamVars>>
-----------------------------------------------------------------------------
(***************************************************************************)
(* waitForPendingInteractions: session metadata first, then the record,    *)
(* then the wait, each awaited; then the rest of the pausing branch of     *)
(* finalizeExecution.                                                      *)
(***************************************************************************)
\* What a local run that ended in session s does to the entry; another id is a drift.
Remember(s) == entry' = IF s = Chat THEN Touch(entry, None)
                        ELSE IF s = None THEN entry ELSE Forget(memory, entry)

SyncPending(e) ==
    /\ pc[e] = "sync"
    /\ \/ ~Managed /\ Remember(sess[e])
       \/ Managed /\ entry' = Touch(entry, sess[e])
       \/ Managed /\ MemoryMayFail /\ UNCHANGED entry      \* logged, not fatal
    /\ Goto(e, "store")
    /\ UNCHANGED <<lockVars, made, outcome, seen, runVars, sess, hitlVars, streamVars>>

SyncFails(e) ==
    /\ pc[e] = "sync" /\ ~Managed /\ MemoryMayFail
    /\ sess[e] = Chat \/ (sess[e] # None /\ HasForget(memory))
    /\ Throw(e)
    /\ UNCHANGED <<lockVars, entry, made, seen, runVars, sess, hitlVars, streamVars>>

\* Mutant: a failed save of the pending interaction is logged and passed over.
PersistPendingLenient(e) ==
    /\ pc[e] = "store"
    /\ \/ record' = [record EXCEPT ![e] = TRUE]
       \/ "record" \in Faults /\ UNCHANGED record
    /\ Goto(e, "wait")
    /\ UNCHANGED <<lockVars, entry, made, outcome, seen, runVars, sess, asked, answers, waiting, round,
                   streamVars>>

PersistPending(e) ==
    /\ pc[e] = "store"
    /\ record' = [record EXCEPT ![e] = TRUE]
    /\ Goto(e, "wait")
    /\ UNCHANGED <<lockVars, entry, made, outcome, seen, runVars, sess, asked, answers, waiting, round,
                   streamVars>>

\* Not fatal to a record that canUseTool had stored before.
PersistPendingFails(e) ==
    /\ pc[e] = "store" /\ "record" \in Faults
    /\ Throw(e)
    /\ UNCHANGED <<lockVars, entry, made, seen, runVars, sess, hitlVars, streamVars>>

(***************************************************************************)
(* putExecutionToWait, unless the companion node owns the wait of a local  *)
(* run.  Notifications after it may fail; that is logged.                  *)
(***************************************************************************)
PutToWait(e) ==
    /\ pc[e] = "wait"
    /\ \E owned \in {TRUE} \cup IF Managed THEN {} ELSE {FALSE} :
          waiting' = [waiting EXCEPT ![e] = owned]
    /\ Goto(e, "pauseMark")
    /\ UNCHANGED <<lockVars, entry, made, outcome, seen, runVars, sess, asked, answers, record, round,
                   streamVars>>

\* Or assertSinglePendingInteraction throws: both leave the record behind.
PutToWaitFails(e) ==
    /\ pc[e] = "wait" /\ (~Managed \/ "wait" \in Faults)
    /\ Throw(e)
    /\ UNCHANGED <<lockVars, entry, made, seen, runVars, sess, hitlVars, streamVars>>

MarkStream(e, status) == stream' = [stream EXCEPT ![e] = IF handle[e] THEN status ELSE @]

MarkPaused(e) ==
    /\ pc[e] = "pauseMark"
    /\ MarkStream(e, "paused_hitl")
    /\ Goto(e, "pauseFull")
    /\ UNCHANGED <<lockVars, entry, made, outcome, seen, runVars, sess, hitlVars, handle, lost>>

\* persistDurableFullSession and flushObservability; only Postgres memory writes anything.
DurableFails(e) ==
    /\ pc[e] \in {"pauseFull", "full"} /\ HasLock(memory) /\ "durable" \in Faults
    /\ Throw(e)
    /\ UNCHANGED <<lockVars, entry, made, seen, runVars, sess, hitlVars, streamVars>>

Pause(e) ==
    /\ pc[e] = "pauseFull"
    /\ EndAs(e, "paused")
    /\ UNCHANGED <<lockVars, entry, made, seen, runVars, sess, hitlVars, streamVars>>
-----------------------------------------------------------------------------
(***************************************************************************)
(* The completing branch of finalizeExecution.                             *)
(***************************************************************************)
\* A structured output that was never valid, in the mode that throws: before the pause branch.
ResultRejected(e) ==
    /\ pc[e] \in {"sync", "mark"}
    /\ Throw(e)
    /\ UNCHANGED <<lockVars, entry, made, seen, runVars, sess, hitlVars, streamVars>>

MarkCompleted(e) ==
    /\ pc[e] = "mark"
    /\ MarkStream(e, "completed")
    /\ Goto(e, "persist")
    /\ UNCHANGED <<lockVars, entry, made, outcome, seen, runVars, sess, hitlVars, handle, lost>>

MarkFails(e) ==
    /\ pc[e] \in {"pauseMark", "mark"} /\ handle[e] /\ "stream" \in Faults
    /\ Throw(e)
    /\ UNCHANGED <<lockVars, entry, made, seen, runVars, sess, hitlVars, streamVars>>

\* The session a local run is taken to have used, if its messages do not say.
SessionToPersist(e) ==
    IF sess[e] # None THEN sess[e]
    ELSE IF opts[e].resume # None THEN opts[e].resume ELSE opts[e].sessionId

PersistMetadata(e) ==
    /\ pc[e] = "persist"
    /\ IF Managed THEN entry' = Touch(entry, sess[e])
                  ELSE Remember(SessionToPersist(e))
    /\ Goto(e, "full")
    /\ UNCHANGED <<lockVars, made, outcome, seen, runVars, sess, hitlVars, streamVars>>

PersistFails(e) ==
    /\ pc[e] = "persist" /\ MemoryMayFail
    /\ Managed \/ SessionToPersist(e) = Chat \/ (SessionToPersist(e) # None /\ HasForget(memory))
    /\ Throw(e)
    /\ UNCHANGED <<lockVars, entry, made, seen, runVars, sess, hitlVars, streamVars>>

Complete(e) ==
    /\ pc[e] = "full"
    /\ EndAs(e, "done")
    /\ UNCHANGED <<lockVars, entry, made, seen, runVars, sess, hitlVars, streamVars>>
-----------------------------------------------------------------------------
\* Mutant: a stream that was marked already keeps its status.
MarkFailedOnce(e) ==
    /\ pc[e] = "failMark"
    /\ stream' = [stream EXCEPT ![e] = IF handle[e] /\ @ = "live" THEN "failed" ELSE @]
    /\ EndAs(e, "failed")
    /\ UNCHANGED <<lockVars, entry, made, seen, runVars, sess, hitlVars, handle, lost>>

\* The catch block: mark the stream, or fail to and go on.
MarkFailed(e) ==
    /\ pc[e] = "failMark"
    /\ \/ MarkStream(e, "failed") /\ UNCHANGED lost
       \/ /\ handle[e] /\ "stream" \in Faults
          /\ lost' = [lost EXCEPT ![e] = TRUE] /\ UNCHANGED stream
    /\ EndAs(e, "failed")
    /\ UNCHANGED <<lockVars, entry, made, seen, runVars, sess, hitlVars, handle>>

\* Mutant: only executions that did not fail release the lock.
ReleaseLockUnlessFailed(e) ==
    /\ pc[e] = "release"
    /\ holder' = IF release[e] /\ outcome[e] # "failed" THEN None ELSE holder
    /\ client' = [client EXCEPT ![e] = IF release[e] /\ outcome[e] # "failed" THEN "idle" ELSE @]
    /\ release' = [release EXCEPT ![e] = FALSE]
    /\ Goto(e, outcome[e])
    /\ UNCHANGED <<memory, entry, made, outcome, seen, runVars, sess, hitlVars, streamVars>>

\* Mutant: an execution that pauses keeps the lock.
ReleaseLockUnlessPaused(e) ==
    /\ pc[e] = "release"
    /\ holder' = IF release[e] /\ outcome[e] # "paused" THEN None ELSE holder
    /\ client' = [client EXCEPT ![e] = IF release[e] /\ outcome[e] # "paused" THEN "idle" ELSE @]
    /\ release' = [release EXCEPT ![e] = FALSE]
    /\ Goto(e, outcome[e])
    /\ UNCHANGED <<memory, entry, made, outcome, seen, runVars, sess, hitlVars, streamVars>>

(***************************************************************************)
(* releaseSessionExecutionLockIfNeeded: unlock on the pinned connection    *)
(* and give that back to the pool; the second also if the first failed.    *)
(***************************************************************************)
ReleaseLock(e) ==
    /\ pc[e] = "release"
    /\ holder' = IF release[e] THEN None ELSE holder
    /\ client' = [client EXCEPT ![e] = IF release[e] THEN "idle" ELSE @]
    /\ release' = [release EXCEPT ![e] = FALSE]
    /\ Goto(e, outcome[e])
    /\ UNCHANGED <<memory, entry, made, outcome, seen, runVars, sess, hitlVars, streamVars>>

UnlockFails(e) ==
    /\ pc[e] = "release" /\ release[e] /\ "unlock" \in Faults
    /\ client' = [client EXCEPT ![e] = "idle"]
    /\ release' = [release EXCEPT ![e] = FALSE]
    /\ Goto(e, outcome[e])
    /\ UNCHANGED <<memory, holder, entry, made, outcome, seen, runVars, sess, hitlVars, streamVars>>

(***************************************************************************)
(* The memory node's closeFunction ends the pool.  That drops the locks of *)
(* its idle connections, and waits for one that is still checked out.      *)
(***************************************************************************)
CloseMemory(e) ==
    /\ pc[e] \in Ended /\ client[e] = "idle"
    /\ client' = [client EXCEPT ![e] = "closed"]
    /\ holder' = IF holder = e THEN None ELSE holder
    /\ UNCHANGED <<memory, release, entry, made, pc, outcome, seen, runVars, sess, hitlVars, streamVars>>

\* The human answered; the waiting execution runs the node again.
Answer(e) ==
    /\ pc[e] = "paused" /\ client[e] \in {"none", "closed"}
    /\ answers' = [answers EXCEPT ![e] = asked[e]]
    /\ asked' = [asked EXCEPT ![e] = None]
    /\ record' = [record EXCEPT ![e] = FALSE]
    /\ waiting' = [waiting EXCEPT ![e] = FALSE]
    /\ round' = [round EXCEPT ![e] = @ + 1]
    /\ client' = [client EXCEPT ![e] = "none"]
    /\ seen' = [seen EXCEPT ![e] = FALSE]
    /\ sess' = [sess EXCEPT ![e] = None]
    /\ opts' = [opts EXCEPT ![e] = NoOptions]
    /\ stage' = [stage EXCEPT ![e] = "first"]
    /\ tries' = [tries EXCEPT ![e] = 0]
    /\ latched' = [latched EXCEPT ![e] = FALSE]
    /\ handle' = [handle EXCEPT ![e] = FALSE]
    /\ Goto(e, "idle")
    /\ UNCHANGED <<memory, holder, release, entry, made, outcome, live, stream, lost>>

\* Redis and Simple memory: the entry's TTL passes.
Expire ==
    /\ HasExpiry(memory) /\ entry.there
    /\ entry' = NoEntry
    /\ UNCHANGED <<lockVars, made, pc, outcome, seen, runVars, sess, hitlVars, streamVars>>

\* The Claude config directory is not durable: the transcript goes.
LoseTranscript ==
    /\ ~Managed /\ "transcript" \in Faults /\ Chat \in made
    /\ \A e \in Executions : live[e] # Chat
    /\ made' = made \ {Chat}
    /\ UNCHANGED <<lockVars, entry, pc, outcome, seen, runVars, sess, hitlVars, streamVars>>

Acquire(e) == Begin(e) \/ ConnectFails(e) \/ TryLock(e) \/ GiveUpLock(e)
Resolve(e) == Has(e) \/ ReadMetadata(e) \/ ForgetStale(e) \/ ResolveFails(e)
Prepare(e) == Setup(e) \/ SetupFails(e)
Query(e) == QueryFails(e) \/ Ask(e) \/ QueryReturns(e) \/ QueryEmpty(e)
StartQuery(e) == QueryStarts(e) \/ QueryRejected(e)
PauseBranch(e) == \/ SyncPending(e) \/ SyncFails(e) \/ PersistPending(e) \/ PersistPendingFails(e)
                  \/ PutToWait(e) \/ PutToWaitFails(e) \/ MarkPaused(e) \/ Pause(e)
CompleteBranch(e) == ResultRejected(e) \/ MarkCompleted(e) \/ PersistMetadata(e)
                       \/ PersistFails(e) \/ Complete(e)
Finish(e) == MarkFails(e) \/ DurableFails(e) \/ MarkFailed(e) \/ ReleaseLock(e) \/ UnlockFails(e)
Step(e) == \/ Acquire(e) \/ Resolve(e) \/ Prepare(e) \/ StartQuery(e)
           \/ PauseBranch(e) \/ CompleteBranch(e) \/ Finish(e)

Next == \/ \E e \in Executions : Step(e) \/ Query(e) \/ CloseMemory(e) \/ Answer(e)
        \/ Expire \/ LoseTranscript

Spec == Init /\ [][Next]_vars

(***************************************************************************)
(* The event loop runs an execution on once the call it awaits has         *)
(* settled, and n8n closes the memory of an execution that ended.  Nothing *)
(* says that a query of the agent ends or that a human answers.            *)
(***************************************************************************)
Fairness == \A e \in Executions : WF_vars(Step(e)) /\ WF_vars(CloseMemory(e))
FairSpec == Spec /\ Fairness
-----------------------------------------------------------------------------
(***************************************************************************)
(* With Postgres memory, two executions never run the agent for the chat   *)
(* session at once, and nothing another execution does comes between what  *)
(* one reads from memory and what it writes (acquireSessionExecutionLock). *)
(***************************************************************************)
Exclusive == HasLock(memory) => \A e \in Executions : pc[e] \in Section => holder = e

(***************************************************************************)
(* With Postgres memory, the entry an execution resolved its session from  *)
(* is still the one in memory while its agent runs (resolveSessionState).  *)
(***************************************************************************)
ReadIsCurrent ==
    HasLock(memory) => \A e \in Executions : pc[e] \in {"setup", "start", "query"} =>
        /\ opts[e].managed = IF Managed THEN entry.managed ELSE None
        /\ entry.there => seen[e]

(***************************************************************************)
(* An execution ends with its connection, and so the lock, still checked   *)
(* out only if its session resolution failed after it took the lock: the   *)
(* release function is then known to nobody (sessionResolve.ts:71).        *)
(* Whatever fails later, the lifecycle gives the connection back.          *)
(***************************************************************************)
LeakIsResolveFailure ==
    \A e \in Executions : pc[e] \in Ended /\ client[e] = "pinned" =>
        holder = e /\ outcome[e] = "failed" /\ tries[e] = 0 /\ ~handle[e]

(***************************************************************************)
(* No query carries both resume and sessionId, whatever retry produced it  *)
(* (docs/execute-task.md: "normal resume flows do not send sessionId       *)
(* together with resume"), and one execution makes at most four queries.   *)
(***************************************************************************)
OptionsConsistent ==
    \A e \in Executions : (opts[e].resume = None \/ opts[e].sessionId = None) /\ tries[e] <= 4

(***************************************************************************)
(* A round that resumes from a human's answer never falls back to a        *)
(* session without the question (preventFreshFallbackOnResumeFailure).     *)
(***************************************************************************)
AnswerNeverDropped ==
    \A e \in Executions : Resumed(e) /\ pc[e] \in {"start", "query"} => opts[e].resume # None

(***************************************************************************)
(* An execution that raised a question never ends as completed: it pauses  *)
(* or fails, also if the agent was retried after it (runExecution.ts,      *)
(* finalizeExecution.ts).                                                  *)
(***************************************************************************)
AskedNeverDone ==
    \A e \in Executions : asked[e] # None => pc[e] # "done" /\ ~(pc[e] = "release" /\ outcome[e] = "done")

(***************************************************************************)
(* The status of a stream row tells how its execution ended, unless the    *)
(* store failed the catch block too (finalizeExecution.ts, index.ts).      *)
(***************************************************************************)
StreamTellsOutcome ==
    \A e \in Executions : pc[e] \in Ended /\ handle[e] /\ ~lost[e] =>
        stream[e] = (CASE pc[e] = "done" -> "completed" [] pc[e] = "paused" -> "paused_hitl"
                       [] OTHER -> "failed")

(***************************************************************************)
(* An execution that returned its question, or was put to wait for the     *)
(* answer, has the record that the answer is matched against; and one that *)
(* returned its question really waits, unless its companion does.  None of *)
(* the awaited calls in between may fail unnoticed                         *)
(* (waitForPendingInteractions, finalizeExecution).                        *)
(***************************************************************************)
Paused(e) == pc[e] = "paused" \/ (pc[e] = "release" /\ outcome[e] = "paused")
PausedIsAnswerable ==
    \A e \in Executions :
        /\ Paused(e) \/ waiting[e] => record[e] /\ asked[e] # None
        /\ Paused(e) /\ Managed => waiting[e]

(***************************************************************************)
(* A human's answer goes to the session that asked                         *)
(* (hitlResponseApplication.ts: "preserve the real sesn_... session ID     *)
(* from the HITL response envelope").                                      *)
(***************************************************************************)
AnswerReachesAsker ==
    \A e \in Executions : Resumed(e) /\ pc[e] = "query" => live[e] = answers[e]

(***************************************************************************)
(* Whenever the execution that holds the lock is not waiting for the agent *)
(* it comes to a query or the lock comes free: by its release or, if the   *)
(* unlock failed, when its pool is closed.  The exception is a failure     *)
(* inside session resolution, whose connection nobody gives back           *)
(* (releaseSessionExecutionLockIfNeeded, closeFunction).                   *)
(***************************************************************************)
LockComesFree ==
    \A e \in Executions :
        (holder = e /\ pc[e] # "query")
          ~> (holder # e \/ pc[e] = "query"
                \/ (pc[e] = "failed" /\ client[e] = "pinned" /\ tries[e] = 0))
=============================================================================
