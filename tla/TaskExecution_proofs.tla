------------------------ MODULE TaskExecution_proofs ------------------------
(***************************************************************************)
(* Type correctness of TaskExecution; that Postgres memory lets one        *)
(* execution run at a time; that a connection is left behind only by a     *)
(* failure inside session resolution; that the retries keep the options of *)
(* a query, a human's answer and a question; that what an execution read   *)
(* of its session is still so while its agent runs; that an execution      *)
(* pauses only with a record to answer to; and that the row of a stream    *)
(* tells how its execution ended.  For any number of executions, sessions  *)
(* and rounds, either backend and any faults.                              *)
(***************************************************************************)
EXTENDS TaskExecution, TLAPS

USE NoneAssumption, ChatAssumption, ExecutionsAssumption, InstanceAssumption

(* What the operators on the options of a query return.                     *)
LEMMA OptionTypes ==
    /\ NoOptions \in Options
    /\ \A s \in OrNone : SessionOptions(s, Chat) \in Options
    /\ \A s \in OrNone, o \in Options : ResumeOptions(o, s) \in Options
    /\ \A o \in Options : /\ BootstrapResume(o) \in Options
                          /\ PlainResume(o) \in Options
                          /\ Fresh(o) \in Options
    /\ \A o \in Options, a \in BOOLEAN : EmptyRetry(o, a) \in Options
<1>1. NoOptions \in Options
  BY DEF NoOptions, Options, OrNone
<1>2. \A s \in OrNone, o \in Options : ResumeOptions(o, s) \in Options
  BY DEF ResumeOptions, Options, OrNone
<1>3. \A s \in OrNone : SessionOptions(s, Chat) \in Options
  BY <1>1, <1>2 DEF SessionOptions, Options, OrNone
<1>4. ASSUME NEW o \in Options
      PROVE  /\ BootstrapResume(o) \in Options /\ PlainResume(o) \in Options
             /\ Fresh(o) \in Options
  BY DEF BootstrapResume, PlainResume, Fresh, Options, OrNone
<1>5. ASSUME NEW o \in Options, NEW a \in BOOLEAN
      PROVE  EmptyRetry(o, a) \in Options
  BY DEF EmptyRetry, Options, OrNone
<1> QED BY <1>1, <1>2, <1>3, <1>4, <1>5

(* The entry stays an entry under every call of the session memory.         *)
LEMMA EntryTypes ==
    /\ NoEntry \in Entries
    /\ \A x \in Entries, s \in OrNone : Touch(x, s) \in Entries
    /\ \A x \in Entries : Forget(memory, x) \in Entries
BY DEF NoEntry, Entries, Touch, Forget, OrNone

Retried(e) ==
    \E o \in Options, s \in {"bootstrap", "recovered"} :
        /\ opts' = [opts EXCEPT ![e] = o]
        /\ stage' = [stage EXCEPT ![e] = s]
        /\ Goto(e, "start") /\ UNCHANGED outcome
        /\ stage[e] = "first" \/ (stage[e] = "bootstrap" /\ s = "recovered")
        /\ opts[e].resume = None \/ opts[e].sessionId = None => o.resume = None \/ o.sessionId = None
        /\ Resumed(e) /\ opts[e].resume # None => o.resume # None
        /\ o.managed = opts[e].managed
GivenUp(e) == Throw(e) /\ UNCHANGED <<opts, stage>>

(* A failed query is retried with options that name at most one session,    *)
(* the one of an answer if there is one and the managed session as read     *)
(* from memory, or ends the execution.                                      *)
LEMMA Attempt ==
    ASSUME opts \in [Executions -> Options], NEW e \in Executions, NEW kind \in ErrorKinds, AttemptFailed(e, kind)
    PROVE  Retried(e) \/ GivenUp(e)
<1> DEFINE o == opts[e]
           first == stage[e] = "first" /\ BootstrapCollided(o, kind)
           action == RecoveryAction(o, kind, Resumed(e))
           recovers == ~first /\ stage[e] \in {"first", "bootstrap"}
<1>1. o \in Options /\ o.resume \in OrNone /\ o.sessionId \in OrNone /\ o.at \in OrNone
  BY DEF Options
<1>2. BootstrapResume(o) \in Options /\ PlainResume(o) \in Options /\ Fresh(o) \in Options
  BY <1>1, OptionTypes
<1>3. CASE first
  <2>1. /\ opts' = [opts EXCEPT ![e] = BootstrapResume(o)]
        /\ stage' = [stage EXCEPT ![e] = "bootstrap"]
        /\ Goto(e, "start") /\ UNCHANGED outcome
    BY <1>3 DEF AttemptFailed
  <2>2. /\ BootstrapResume(o).sessionId = None /\ BootstrapResume(o).resume = o.sessionId
        /\ BootstrapResume(o).managed = o.managed
    BY <1>1 DEF BootstrapResume, Options
  <2>3. o.resume = None
    BY <1>3 DEF BootstrapCollided
  <2>4. stage[e] = "first"
    BY <1>3
  <2> QED BY <1>2, <2>1, <2>2, <2>3, <2>4 DEF Retried
<1>4. CASE recovers /\ action = "retry_plain_resume"
  <2>1. /\ opts' = [opts EXCEPT ![e] = PlainResume(o)]
        /\ stage' = [stage EXCEPT ![e] = "recovered"]
        /\ Goto(e, "start") /\ UNCHANGED outcome
    BY <1>4 DEF AttemptFailed
  <2>2. /\ PlainResume(o).sessionId = o.sessionId /\ PlainResume(o).resume = o.resume
        /\ PlainResume(o).managed = o.managed
    BY <1>1 DEF PlainResume, Options
  <2> QED BY <1>2, <1>4, <2>1, <2>2 DEF Retried
<1>5. CASE recovers /\ action = "retry_fresh"
  <2>1. /\ opts' = [opts EXCEPT ![e] = Fresh(o)]
        /\ stage' = [stage EXCEPT ![e] = "recovered"]
        /\ Goto(e, "start") /\ UNCHANGED outcome
    BY <1>5 DEF AttemptFailed
  <2>2. Fresh(o).resume = None /\ Fresh(o).managed = o.managed
    BY <1>1 DEF Fresh, Options
  <2>3. ~Resumed(e)
    BY <1>5 DEF RecoveryAction
  <2> QED BY <1>2, <1>5, <2>1, <2>2, <2>3 DEF Retried
<1>6. CASE ~first /\ ~(recovers /\ action \in {"retry_plain_resume", "retry_fresh"})
  BY <1>6 DEF AttemptFailed, GivenUp
<1> QED BY <1>3, <1>4, <1>5, <1>6

-----------------------------------------------------------------------------
Places == {"idle", "poll", "failMark", "release"} \cup Section \cup Ended
LockTypes == /\ holder \in Executions \cup {None}
             /\ client \in [Executions -> {"none", "pinned", "idle", "closed"}]
             /\ release \in [Executions -> BOOLEAN]
             /\ pc \in [Executions -> Places]
             /\ outcome \in [Executions -> Ended]
             /\ tries \in [Executions -> Nat]
             /\ handle \in [Executions -> BOOLEAN]

(* Who may release holds the lock, and nobody may outside an execution.  A   *)
(* pinned connection is that of a release to come, of a resolution under     *)
(* way, or of one that failed.                                               *)
Resolving == {"has", "meta", "forget"}
Unresolved(e) == tries[e] = 0 /\ ~handle[e]
LockOk(e) ==
    /\ HasLock(memory) /\ pc[e] \in Section => holder = e
    /\ release[e] => HasLock(memory) /\ holder = e
    /\ release[e] => pc[e] \notin {"idle", "poll"} \cup Resolving \cup Ended
    /\ pc[e] = "poll" => HasLock(memory)
    /\ pc[e] \in {"idle", "poll"} \cup Resolving => Unresolved(e)
    /\ client[e] = "pinned" =>
          \/ release[e] \/ pc[e] = "poll" \/ pc[e] \in Resolving
          \/ /\ pc[e] \in {"failMark", "release", "failed"}
             /\ outcome[e] = "failed" /\ Unresolved(e) /\ holder = e
    /\ client[e] = "pinned" => HasLock(memory)
    /\ pc[e] \in Ended => pc[e] = outcome[e]
LockInv == LockTypes /\ \A e \in Executions : LockOk(e)

(* Steps of an execution between its resolution and its release: they leave  *)
(* the lock alone and stay in between.                                       *)
Alone(e) == \A x \in Executions \ {e} :
                /\ pc'[x] = pc[x] /\ outcome'[x] = outcome[x]
                /\ tries'[x] = tries[x] /\ handle'[x] = handle[x]
Within(e) ==
    /\ LockTypes' /\ Alone(e)
    /\ UNCHANGED lockVars
    /\ pc[e] \in (Section \cup {"failMark"}) \ Resolving
    /\ pc'[e] \in (Section \cup {"failMark", "release"}) \ Resolving
    /\ pc[e] = "failMark" => /\ pc'[e] = "release" /\ outcome'[e] = "failed"
                             /\ tries'[e] = tries[e] /\ handle'[e] = handle[e]

LEMMA AttemptGoes ==
    ASSUME NEW e \in Executions, NEW kind, AttemptFailed(e, kind)
    PROVE  (Goto(e, "start") /\ UNCHANGED outcome) \/ Throw(e)
BY DEF AttemptFailed

LEMMA WithinSteps ==
    ASSUME LockTypes, NEW e \in Executions,
           Prepare(e) \/ StartQuery(e) \/ Query(e) \/ PauseBranch(e) \/ CompleteBranch(e)
             \/ MarkFails(e) \/ DurableFails(e) \/ MarkFailed(e)
    PROVE  Within(e)
<1> USE DEF lockVars, runVars, hitlVars, streamVars, Goto, Throw, EndAs, Ended, Section, Resolving,
            LockTypes, Places, Within, Alone
<1>1. CASE Setup(e)
  BY <1>1 DEF Setup, OpenStream
<1>2. CASE SetupFails(e)
  BY <1>2 DEF SetupFails, OpenStream
<1>3. CASE QueryStarts(e)
  BY <1>3 DEF QueryStarts
<1>4. CASE QueryRejected(e)
  <2>1. (Goto(e, "start") /\ UNCHANGED outcome) \/ Throw(e)
    BY <1>4, AttemptGoes DEF QueryRejected
  <2> QED BY <1>4, <2>1 DEF QueryRejected
<1>5. CASE QueryFails(e)
  <2>1. (Goto(e, "start") /\ UNCHANGED outcome) \/ Throw(e)
    BY <1>5, AttemptGoes DEF QueryFails
  <2> QED BY <1>5, <2>1 DEF QueryFails
<1>6. CASE Ask(e)
  BY <1>6 DEF Ask
<1>7. CASE QueryReturns(e)
  BY <1>7 DEF QueryReturns
<1>8. CASE QueryEmpty(e)
  BY <1>8 DEF QueryEmpty
<1>9. CASE SyncPending(e)
  BY <1>9 DEF SyncPending
<1>10. CASE SyncFails(e)
  BY <1>10 DEF SyncFails
<1>11. CASE PersistPending(e) \/ PersistPendingFails(e) \/ PutToWait(e)
            \/ PutToWaitFails(e)
  BY <1>11 DEF PersistPending, PersistPendingFails, PutToWait, PutToWaitFails
<1>12. CASE MarkPaused(e)
  BY <1>12 DEF MarkPaused
<1>13. CASE Pause(e)
  BY <1>13 DEF Pause
<1>14. CASE ResultRejected(e)
  BY <1>14 DEF ResultRejected
<1>15. CASE MarkCompleted(e)
  BY <1>15 DEF MarkCompleted
<1>16. CASE PersistMetadata(e)
  BY <1>16 DEF PersistMetadata
<1>17. CASE PersistFails(e)
  BY <1>17 DEF PersistFails
<1>18. CASE Complete(e)
  BY <1>18 DEF Complete
<1>19. CASE MarkFails(e)
  BY <1>19 DEF MarkFails
<1>20. CASE DurableFails(e)
  BY <1>20 DEF DurableFails
<1>21. CASE MarkFailed(e)
  BY <1>21 DEF MarkFailed
<1> QED BY <1>1, <1>2, <1>3, <1>4, <1>5, <1>6, <1>7, <1>8, <1>9, <1>10, <1>11, <1>12, <1>13, <1>14,
           <1>15, <1>16, <1>17, <1>18, <1>19, <1>20, <1>21
        DEF Prepare, StartQuery, Query, PauseBranch, CompleteBranch

LEMMA LockInit == Init => LockInv
BY DEF Init, LockInv, LockTypes, LockOk, Unresolved, Resolving, Places, Section, Ended

(* A resolution that returns hands out the lock of its memory.              *)
LEMMA ReturnedKeeps ==
    ASSUME LockInv, NEW e \in Executions, pc[e] \in {"meta", "forget"}, Returned(e),
           UNCHANGED <<memory, holder, client, outcome, tries, handle>>
    PROVE  LockInv'
<1>1. /\ pc' = [pc EXCEPT ![e] = "setup"]
      /\ release' = [release EXCEPT ![e] = HasLock(memory)]
  BY DEF Returned, Goto
<1>2. LockTypes'
  <2>1. pc \in [Executions -> Places] /\ release \in [Executions -> BOOLEAN]
    BY DEF LockInv, LockTypes
  <2>2. "setup" \in Places /\ HasLock(memory) \in BOOLEAN
    BY DEF Places, Section, HasLock
  <2>3. pc' \in [Executions -> Places]
    BY <1>1, <2>1, <2>2
  <2>4. release' \in [Executions -> BOOLEAN]
    <3> DEFINE b == HasLock(memory)
    <3>1. b \in BOOLEAN
      BY <2>2
    <3>2. release' = [release EXCEPT ![e] = b]
      BY <1>1
    <3> HIDE DEF b
    <3> QED BY <2>1, <3>1, <3>2
  <2> QED BY <2>3, <2>4 DEF LockInv, LockTypes
<1>3. /\ pc[e] = "meta" \/ pc[e] = "forget"
      /\ pc'[e] = "setup" /\ release'[e] = HasLock(memory)
      /\ \A x \in Executions \ {e} : pc'[x] = pc[x] /\ release'[x] = release[x]
  BY <1>1 DEF LockInv, LockTypes
<1>4. LockOk(e) /\ \A x \in Executions : LockOk(x)
  BY DEF LockInv
<1>5. HasLock(memory) => holder = e
  BY <1>3, <1>4 DEF LockOk, Section
<1>6. LockOk(e)'
  BY <1>3, <1>4, <1>5 DEF LockOk, Unresolved, Resolving, Section, Ended, HasLock
<1>7. \A x \in Executions \ {e} : LockOk(x)'
  BY <1>3, <1>4 DEF LockOk, Unresolved, HasLock
<1> QED BY <1>2, <1>6, <1>7 DEF LockInv

LEMMA LockStep ==
    ASSUME LockInv, [Next]_vars
    PROVE  LockInv'
<1> USE DEF LockInv, lockVars, streamVars, runVars, HasLock
<1>1. ASSUME NEW e \in Executions, Within(e) PROVE LockInv'
  <2>1. LockTypes'
    BY <1>1 DEF Within
  <2>2. LockOk(e)'
    BY <1>1 DEF Within, LockOk, Unresolved, Resolving, Section, Ended
  <2>3. \A x \in Executions \ {e} : LockOk(x)'
    BY <1>1 DEF Within, Alone, LockOk, Unresolved
  <2> QED BY <2>1, <2>2, <2>3
<1> USE DEF LockTypes, LockOk, Unresolved, Goto, Throw, Places, Section, Ended, Resolving
<1>2. ASSUME NEW e \in Executions, Begin(e) PROVE LockInv'
  BY <1>2 DEF Begin
<1>3. ASSUME NEW e \in Executions, ConnectFails(e) PROVE LockInv'
  BY <1>3 DEF ConnectFails
<1>4. ASSUME NEW e \in Executions, TryLock(e) PROVE LockInv'
  BY <1>4 DEF TryLock
<1>5. ASSUME NEW e \in Executions, GiveUpLock(e) PROVE LockInv'
  BY <1>5 DEF GiveUpLock
<1>6. ASSUME NEW e \in Executions, Has(e) PROVE LockInv'
  BY <1>6 DEF Has
<1>7. ASSUME NEW e \in Executions, ReadMetadata(e) PROVE LockInv'
  <2>1. /\ pc[e] = "meta"
        /\ UNCHANGED <<memory, holder, client, outcome, tries, handle>>
        /\ (Goto(e, "forget") /\ UNCHANGED release) \/ Returned(e)
    BY <1>7 DEF ReadMetadata
  <2>2. CASE Goto(e, "forget") /\ UNCHANGED release
    BY <2>1, <2>2
  <2>3. CASE Returned(e)
    BY <2>1, <2>3, ReturnedKeeps
  <2> QED BY <2>1, <2>2, <2>3
<1>8. ASSUME NEW e \in Executions, ForgetStale(e) PROVE LockInv'
  <2>1. /\ pc[e] \in {"meta", "forget"} /\ Returned(e)
        /\ UNCHANGED <<memory, holder, client, outcome, tries, handle>>
    BY <1>8 DEF ForgetStale
  <2> QED BY <2>1, ReturnedKeeps
<1>9. ASSUME NEW e \in Executions, ResolveFails(e) PROVE LockInv'
  BY <1>9 DEF ResolveFails
<1>10. ASSUME NEW e \in Executions, ReleaseLock(e) PROVE LockInv'
  BY <1>10 DEF ReleaseLock
<1>11. ASSUME NEW e \in Executions, UnlockFails(e) PROVE LockInv'
  BY <1>11 DEF UnlockFails
<1>12. ASSUME NEW e \in Executions, CloseMemory(e) PROVE LockInv'
  BY <1>12 DEF CloseMemory
<1>13. ASSUME NEW e \in Executions, Answer(e) PROVE LockInv'
  BY <1>13 DEF Answer
<1>14. CASE Expire \/ LoseTranscript \/ UNCHANGED vars
  BY <1>14 DEF Expire, LoseTranscript, vars
<1>15. ASSUME NEW e \in Executions, Step(e) \/ Query(e) PROVE LockInv'
  BY <1>1, <1>2, <1>3, <1>4, <1>5, <1>6, <1>7, <1>8, <1>9, <1>10, <1>11, <1>15, WithinSteps
     DEF Step, Acquire, Resolve, Finish
<1> QED BY <1>12, <1>13, <1>14, <1>15 DEF Next

LEMMA LockCorrect == Spec => []LockInv
BY LockInit, LockStep, PTL DEF Spec

(***************************************************************************)
(* With Postgres memory, at most one execution at a time is between taking *)
(* the session's advisory lock and releasing it, so one agent runs for a   *)
(* chat session (acquireSessionExecutionLock,                              *)
(* releaseSessionExecutionLockIfNeeded).                                   *)
(***************************************************************************)
THEOREM OneAgentAtATime == Spec => []Exclusive
<1>1. LockInv => Exclusive
  BY DEF LockInv, LockOk, Exclusive
<1> QED BY <1>1, LockCorrect, PTL

(***************************************************************************)
(* The only execution that can end with its connection checked out is one  *)
(* whose session resolution failed, before any query and before it had a   *)
(* stream: past the return of resolveSessionState no failure leaks it.     *)
(***************************************************************************)
THEOREM OnlyResolutionLeaks == Spec => []LeakIsResolveFailure
<1>1. LockInv => LeakIsResolveFailure
  BY DEF LockInv, LockOk, LeakIsResolveFailure, Unresolved, Resolving, Ended
<1> QED BY <1>1, LockCorrect, PTL
-----------------------------------------------------------------------------
Stages == {"first", "bootstrap", "recovered", "emptyRetry"}
RunTypes == /\ entry \in Entries
            /\ opts \in [Executions -> Options]
            /\ stage \in [Executions -> Stages]
            /\ live \in [Executions -> OrNone] /\ sess \in [Executions -> OrNone]
            /\ asked \in [Executions -> OrNone] /\ answers \in [Executions -> OrNone]

(* The queries made by the time a stage is left: each stage adds one.       *)
Budget(s) == CASE s = "first" -> 1 [] s = "bootstrap" -> 2 [] s = "recovered" -> 3 [] OTHER -> 4
OneSession(o) == o.resume = None \/ o.sessionId = None
RunOk(e) == /\ OneSession(opts[e])
            /\ tries[e] <= Budget(stage[e])
            /\ pc[e] = "start" => tries[e] < Budget(stage[e])
            /\ Resumed(e) /\ pc[e] \in {"start", "query"} => opts[e].resume # None
RunInv == RunTypes /\ \A e \in Executions : RunOk(e)

(* The types of what the steps of an execution put into its options, the    *)
(* entry and the pending interaction.                                       *)
LEMMA RunTypeSteps ==
    ASSUME RunTypes, NEW e \in Executions, Step(e) \/ Query(e) \/ CloseMemory(e) \/ Answer(e)
    PROVE  RunTypes'
<1> USE DEF lockVars, runVars, hitlVars, streamVars, RunTypes
<1>0. /\ opts[e].resume \in OrNone /\ opts[e].sessionId \in OrNone /\ opts[e].managed \in OrNone
      /\ entry.managed \in OrNone /\ Chat \in OrNone /\ None \in OrNone
  BY DEF Options, Entries, OrNone
<1>1. CASE ReadMetadata(e)
  <2>1. \A s, r \in OrNone : [SessionOptions(s, Chat) EXCEPT !.managed = r] \in Options
    BY OptionTypes DEF Options
  <2>2. PICK s \in OrNone, r \in OrNone :
            opts' = [opts EXCEPT ![e] = [SessionOptions(s, Chat) EXCEPT !.managed = r]]
    BY <1>0, <1>1 DEF ReadMetadata
  <2> QED BY <1>1, <2>1, <2>2 DEF ReadMetadata
<1>2. CASE Setup(e)
  <2>1. \A s, r \in OrNone, o \in Options : [ResumeOptions(o, s) EXCEPT !.at = r] \in Options
    BY OptionTypes DEF Options
  <2>2. \E o \in Options : opts' = [opts EXCEPT ![e] = o]
    BY <1>0, <1>2, <2>1 DEF Setup, ApplyAnswer
  <2> QED BY <1>2, <2>2 DEF Setup, Stages
<1>3. CASE QueryStarts(e)
  <2>1. AnswerTarget(opts[e]) \in OrNone /\ NewSessions(e) \subseteq OrNone
    BY <1>0 DEF AnswerTarget, NewSessions, OrNone
  <2>2. QuerySessions(e) \subseteq OrNone
    BY <1>0, <2>1 DEF QuerySessions
  <2> QED BY <1>3, <2>2 DEF QueryStarts
<1>4. ASSUME Retried(e) \/ GivenUp(e)
      PROVE  opts' \in [Executions -> Options] /\ stage' \in [Executions -> Stages]
  BY <1>4 DEF Retried, GivenUp, Stages
<1>5. CASE QueryRejected(e)
  <2>1. PICK kind \in ErrorKinds : AttemptFailed(e, kind)
    BY <1>5 DEF QueryRejected, Refusal, ErrorKinds
  <2> QED BY <1>4, <1>5, <2>1, Attempt DEF QueryRejected
<1>6. CASE QueryFails(e)
  <2>1. PICK kind \in ErrorKinds : AttemptFailed(e, kind)
    BY <1>6 DEF QueryFails, ErrorKinds
  <2> QED BY <1>0, <1>4, <1>6, <2>1, Attempt DEF QueryFails, QueryOver
<1>7. CASE Ask(e)
  BY <1>7 DEF Ask
<1>8. CASE QueryReturns(e)
  BY <1>0, <1>8 DEF QueryReturns, QueryOver
<1>9. CASE QueryEmpty(e)
  <2>1. EmptyRetry(opts[e], Resumed(e)) \in Options
    BY OptionTypes DEF Resumed
  <2> QED BY <1>0, <1>9, <2>1 DEF QueryEmpty, QueryOver, Stages
<1>10. CASE ForgetStale(e) \/ SyncPending(e) \/ PersistMetadata(e)
  <2>1. SessionToPersist(e) \in OrNone
    BY <1>0 DEF SessionToPersist
  <2>2. entry' \in Entries
    BY <1>0, <1>10, <2>1, EntryTypes DEF ForgetStale, SyncPending, PersistMetadata, Remember
  <2> QED BY <1>10, <2>2 DEF ForgetStale, SyncPending, PersistMetadata
<1>11. CASE Answer(e)
  BY <1>0, <1>11, OptionTypes DEF Answer, Stages
<1>12. CASE Acquire(e) \/ Has(e) \/ ResolveFails(e) \/ SetupFails(e) \/ SyncFails(e)
            \/ PersistPending(e) \/ PersistPendingFails(e) \/ PutToWait(e)
            \/ PutToWaitFails(e)
            \/ MarkPaused(e) \/ Pause(e) \/ ResultRejected(e) \/ MarkCompleted(e)
            \/ PersistFails(e) \/ Complete(e) \/ Finish(e) \/ CloseMemory(e)
  BY <1>12 DEF Acquire, Begin, ConnectFails, TryLock, GiveUpLock, Has, ResolveFails, SetupFails,
               SyncFails, PersistPending,
                 PersistPendingFails, PutToWait,
                 PutToWaitFails, MarkPaused, Pause, ResultRejected, MarkCompleted, PersistFails,
               Complete, Finish, MarkFails, DurableFails, MarkFailed, ReleaseLock, UnlockFails,
               CloseMemory
<1> QED BY <1>1, <1>2, <1>3, <1>5, <1>6, <1>7, <1>8, <1>9, <1>10, <1>11, <1>12
        DEF Step, Resolve, Prepare, StartQuery, Query, PauseBranch, CompleteBranch

LEMMA RunSteps ==
    ASSUME LockTypes, RunInv, NEW e \in Executions,
           Step(e) \/ Query(e) \/ CloseMemory(e) \/ Answer(e)
    PROVE  \A x \in Executions : RunOk(x)'
<1> USE DEF lockVars, runVars, hitlVars, streamVars
<1>0. RunTypes /\ pc \in [Executions -> Places] /\ tries \in [Executions -> Nat]
      /\ \A x \in Executions : RunOk(x)
  BY DEF RunInv, LockTypes
<1>1. CASE ReadMetadata(e)
  <2>1. PICK s, r :
            opts' = [opts EXCEPT ![e] = [SessionOptions(s, Chat) EXCEPT !.managed = r]]
    BY <1>1 DEF ReadMetadata
  <2>2. OneSession([SessionOptions(s, Chat) EXCEPT !.managed = r])
    BY DEF OneSession, SessionOptions, ResumeOptions, NoOptions
  <2>3. /\ UNCHANGED <<stage, tries, answers>>
        /\ pc' = [pc EXCEPT ![e] = "forget"] \/ pc' = [pc EXCEPT ![e] = "setup"]
    BY <1>1 DEF ReadMetadata, Returned, Goto
  <2> QED BY <1>0, <2>1, <2>2, <2>3 DEF RunOk, RunTypes, Resumed
<1>2. CASE Setup(e)
  <2>1. PICK o \in Options : /\ opts' = [opts EXCEPT ![e] = o]
                             /\ OneSession(o)
                             /\ Resumed(e) => o.resume # None
    <3>1. CASE Resumed(e)
      <4>1. PICK s \in OrNone, r \in OrNone :
                /\ s # None
                /\ opts' = [opts EXCEPT ![e] = [ResumeOptions(opts[e], s) EXCEPT !.at = r]]
        BY <1>0, <1>2, <3>1 DEF Setup, ApplyAnswer, RunTypes, Resumed, OrNone
      <4> DEFINE o == [ResumeOptions(opts[e], s) EXCEPT !.at = r]
      <4>2. opts[e] \in Options
        BY <1>0 DEF RunTypes
      <4>3. o \in Options /\ o.resume = s /\ o.sessionId = None
        BY <4>2 DEF ResumeOptions, Options, OrNone
      <4> QED BY <4>1, <4>3 DEF OneSession
    <3>2. CASE ~Resumed(e)
      BY <1>0, <1>2, <3>2 DEF Setup, ApplyAnswer, RunTypes, RunOk
    <3> QED BY <3>1, <3>2
  <2>2. /\ stage' = [stage EXCEPT ![e] = "first"] /\ tries' = [tries EXCEPT ![e] = 0]
        /\ pc' = [pc EXCEPT ![e] = "start"] /\ UNCHANGED answers
    BY <1>2 DEF Setup, Goto
  <2> QED BY <1>0, <2>1, <2>2 DEF RunOk, RunTypes, Resumed, Budget
<1>3. CASE QueryStarts(e)
  <2>1. /\ pc[e] = "start" /\ pc' = [pc EXCEPT ![e] = "query"]
        /\ tries' = [tries EXCEPT ![e] = @ + 1] /\ UNCHANGED <<opts, stage, answers>>
    BY <1>3 DEF QueryStarts, Goto
  <2> QED BY <1>0, <2>1 DEF RunOk, RunTypes, Resumed, Budget
<1>4. ASSUME Retried(e), UNCHANGED answers, pc[e] \in {"start", "query"}, tries'[e] \in Nat,
             tries'[e] <= Budget(stage[e]),
             \A x \in Executions \ {e} : tries'[x] = tries[x]
      PROVE  \A x \in Executions : RunOk(x)'
  <2>1. PICK o \in Options, s \in {"bootstrap", "recovered"} :
            /\ opts' = [opts EXCEPT ![e] = o] /\ stage' = [stage EXCEPT ![e] = s]
            /\ Goto(e, "start")
            /\ stage[e] = "first" \/ (stage[e] = "bootstrap" /\ s = "recovered")
            /\ OneSession(opts[e]) => OneSession(o)
            /\ Resumed(e) /\ opts[e].resume # None => o.resume # None
    BY <1>4 DEF Retried, OneSession
  <2>2. Budget(stage[e]) < Budget(s) /\ Budget(stage[e]) \in Nat /\ Budget(s) \in Nat
    BY <2>1 DEF Budget
  <2>3. RunOk(e)'
    BY <1>0, <1>4, <2>1, <2>2 DEF RunOk, RunTypes, Resumed, Goto
  <2>4. \A x \in Executions \ {e} : RunOk(x)'
    BY <1>0, <1>4, <2>1 DEF RunOk, RunTypes, Resumed, Goto
  <2> QED BY <2>3, <2>4
<1>5. ASSUME GivenUp(e), UNCHANGED answers, tries'[e] <= Budget(stage[e]),
             \A x \in Executions \ {e} : tries'[x] = tries[x]
      PROVE  \A x \in Executions : RunOk(x)'
  BY <1>0, <1>5 DEF GivenUp, Throw, Goto, RunOk, RunTypes, Resumed
<1>6. CASE QueryRejected(e)
  <2>1. PICK kind \in ErrorKinds : AttemptFailed(e, kind)
    BY <1>6 DEF QueryRejected, Refusal, ErrorKinds
  <2>2. pc[e] = "start" /\ tries' = [tries EXCEPT ![e] = @ + 1] /\ UNCHANGED answers
    BY <1>6 DEF QueryRejected
  <2>3. Budget(stage[e]) \in Nat /\ tries[e] < Budget(stage[e])
    BY <1>0, <2>2 DEF Budget, RunOk
  <2>4. /\ tries'[e] \in Nat /\ tries'[e] <= Budget(stage[e])
        /\ \A x \in Executions \ {e} : tries'[x] = tries[x]
    BY <1>0, <2>2, <2>3
  <2> QED BY <1>0, <1>4, <1>5, <2>1, <2>2, <2>4, Attempt DEF RunTypes
<1>7. CASE QueryFails(e)
  <2>1. PICK kind \in ErrorKinds : AttemptFailed(e, kind)
    BY <1>7 DEF QueryFails, ErrorKinds
  <2>2. pc[e] = "query" /\ UNCHANGED <<answers, tries>>
    BY <1>7 DEF QueryFails
  <2>3. tries[e] \in Nat /\ tries[e] <= Budget(stage[e])
    BY <1>0 DEF RunOk
  <2> QED BY <1>0, <1>4, <1>5, <2>1, <2>2, <2>3, Attempt DEF RunTypes
<1>8. CASE QueryEmpty(e)
  <2>1. pc[e] = "query" /\ UNCHANGED <<answers, tries>>
    BY <1>8 DEF QueryEmpty
  <2>2. CASE stage[e] = "emptyRetry"
    BY <1>0, <1>5, <1>8, <2>1, <2>2 DEF QueryEmpty, GivenUp, RunOk
  <2>3. CASE stage[e] # "emptyRetry"
    <3>1. /\ opts' = [opts EXCEPT ![e] = EmptyRetry(@, Resumed(e))]
          /\ stage' = [stage EXCEPT ![e] = "emptyRetry"] /\ Goto(e, "start")
      BY <1>8, <2>3 DEF QueryEmpty
    <3>2. /\ OneSession(EmptyRetry(opts[e], Resumed(e)))
          /\ Resumed(e) => EmptyRetry(opts[e], Resumed(e)).resume # None
      BY <1>0, <2>1 DEF EmptyRetry, OneSession, RunOk, RunTypes, Options
    <3>3. Budget(stage[e]) < 4 /\ Budget(stage[e]) \in Nat /\ Budget("emptyRetry") = 4
      BY <1>0, <2>3 DEF Budget, RunTypes, Stages
    <3> QED BY <1>0, <2>1, <3>1, <3>2, <3>3 DEF RunOk, RunTypes, Resumed, Goto
  <2> QED BY <2>2, <2>3
<1>9. CASE Answer(e)
  <2>1. OneSession(NoOptions)
    BY DEF OneSession, NoOptions
  <2> QED BY <1>0, <1>9, <2>1 DEF Answer, RunOk, RunTypes, Resumed, Goto, Budget
<1>10. ASSUME UNCHANGED <<opts, stage, tries, answers>>,
              \/ UNCHANGED pc
              \/ \E l : pc' = [pc EXCEPT ![e] = l] /\ l \notin {"start", "query"}
       PROVE  \A x \in Executions : RunOk(x)'
  BY <1>0, <1>10 DEF RunOk, Resumed
<1>11. CASE Acquire(e) \/ Has(e) \/ ForgetStale(e) \/ ResolveFails(e) \/ SetupFails(e)
  <2>1. UNCHANGED <<opts, stage, tries, answers>>
        /\ \E l \in {"poll", "has", "failMark", "meta", "setup"} : pc' = [pc EXCEPT ![e] = l]
    BY <1>11 DEF Acquire, Begin, ConnectFails, TryLock, GiveUpLock, Has, ForgetStale, ResolveFails,
                 SetupFails, Returned, Throw, Goto
  <2> QED BY <1>10, <2>1
<1>12. CASE Ask(e) \/ QueryReturns(e) \/ PauseBranch(e) \/ CompleteBranch(e) \/ CloseMemory(e)
  <2>1. /\ UNCHANGED <<opts, stage, tries, answers>>
        /\ UNCHANGED pc \/ \E l \in Places \ {"start", "query"} : pc' = [pc EXCEPT ![e] = l]
    BY <1>12 DEF Ask, QueryReturns, PauseBranch, SyncPending, SyncFails, PersistPending,
                 PersistPendingFails, PutToWait,
                 PutToWaitFails, MarkPaused,
                 Pause, CompleteBranch, ResultRejected, MarkCompleted, PersistMetadata, PersistFails,
                 Complete, CloseMemory, Throw, EndAs, Goto, Places, Section
  <2> QED BY <1>10, <2>1
<1>13. CASE Finish(e)
  <2>1. outcome[e] \in Ended
    BY DEF LockTypes
  <2>2. /\ UNCHANGED <<opts, stage, tries, answers>>
        /\ \E l \in {"failMark", "release"} \cup Ended : pc' = [pc EXCEPT ![e] = l]
    BY <1>13, <2>1 DEF Finish, MarkFails, DurableFails, MarkFailed, ReleaseLock, UnlockFails, Throw,
                       EndAs, Goto
  <2> QED BY <1>10, <2>2 DEF Ended
<1> QED BY <1>1, <1>2, <1>3, <1>6, <1>7, <1>8, <1>9, <1>11, <1>12, <1>13
        DEF Step, Resolve, Prepare, StartQuery, Query

LEMMA RunCorrect == Spec => []RunInv
<1>1. Init => RunInv
  BY OptionTypes, EntryTypes
     DEF Init, RunInv, RunTypes, RunOk, Resumed, Stages, OrNone, Budget, OneSession, NoOptions
<1>2. LockInv /\ RunInv /\ [Next]_vars => RunInv'
  <2> SUFFICES ASSUME LockInv, RunInv, [Next]_vars PROVE RunInv'
    OBVIOUS
  <2>1. ASSUME NEW e \in Executions, Step(e) \/ Query(e) \/ CloseMemory(e) \/ Answer(e)
        PROVE  RunInv'
    BY <2>1, RunTypeSteps, RunSteps DEF RunInv, LockInv
  <2>2. CASE Expire \/ LoseTranscript \/ UNCHANGED vars
    BY <2>2, EntryTypes
       DEF Expire, LoseTranscript, vars, lockVars, runVars, hitlVars, RunInv, RunTypes, RunOk, Resumed
  <2> QED BY <2>1, <2>2 DEF Next
<1> QED BY <1>1, <1>2, LockCorrect, PTL DEF Spec

(***************************************************************************)
(* Whatever fails and is retried, no query names both a session to resume  *)
(* and one to create, and runAgentExecution makes at most four of them:    *)
(* first, bootstrap resume, recovery, empty-stream retry.                  *)
(***************************************************************************)
THEOREM RetriesAreBounded == Spec => []OptionsConsistent
<1>1. LockInv /\ RunInv => OptionsConsistent
  <2> SUFFICES ASSUME LockInv, RunInv, NEW e \in Executions
               PROVE  (opts[e].resume = None \/ opts[e].sessionId = None) /\ tries[e] <= 4
    BY DEF OptionsConsistent
  <2>1. tries[e] \in Nat /\ tries[e] <= Budget(stage[e]) /\ OneSession(opts[e])
    BY DEF LockInv, LockTypes, RunInv, RunOk
  <2> QED BY <2>1 DEF Budget, OneSession
<1> QED BY <1>1, LockCorrect, RunCorrect, PTL

(***************************************************************************)
(* A round that carries a human's answer resumes a session in every one of *)
(* its queries: no retry of runAgentExecution turns it into a fresh one.   *)
(***************************************************************************)
THEOREM AnswersAreKept == Spec => []AnswerNeverDropped
<1>1. RunInv => AnswerNeverDropped
  BY DEF RunInv, RunOk, AnswerNeverDropped
<1> QED BY <1>1, RunCorrect, PTL
-----------------------------------------------------------------------------
(* The completing branch is entered, and left, without a question.          *)
AskOk(e) == asked[e] # None => /\ pc[e] \notin {"mark", "persist", "full", "done"}
                               /\ pc[e] = "release" => outcome[e] # "done"
AskInv == \A e \in Executions : AskOk(e)

LEMMA AskSteps ==
    ASSUME LockTypes, RunTypes, AskInv, NEW e \in Executions,
           Step(e) \/ Query(e) \/ CloseMemory(e) \/ Answer(e)
    PROVE  AskInv'
<1> USE DEF lockVars, runVars, hitlVars, streamVars, Goto, Throw, EndAs
<1>1. /\ pc \in [Executions -> Places] /\ outcome \in [Executions -> Ended]
      /\ asked \in [Executions -> OrNone] /\ \A x \in Executions : AskOk(x)
  BY DEF LockTypes, RunTypes, AskInv
<1>2. ASSUME UNCHANGED <<asked, outcome>>,
             \E l \in Places \ {"mark", "persist", "full", "done", "release"} :
                 pc' = [pc EXCEPT ![e] = l]
      PROVE  AskInv'
  BY <1>1, <1>2 DEF AskInv, AskOk
<1>3. ASSUME UNCHANGED asked, Throw(e) \/ EndAs(e, "failed") \/ EndAs(e, "paused") PROVE AskInv'
  BY <1>1, <1>3 DEF AskInv, AskOk
<1>4. CASE Acquire(e) \/ Resolve(e)
  <2>1. UNCHANGED asked
    BY <1>4 DEF Acquire, Begin, ConnectFails, TryLock, GiveUpLock, Resolve, Has, ReadMetadata,
                ForgetStale, ResolveFails
  <2>2. \/ Throw(e)
        \/ UNCHANGED outcome /\ \E l \in {"poll", "has", "meta", "forget", "setup"} : Goto(e, l)
    BY <1>4 DEF Acquire, Begin, ConnectFails, TryLock, GiveUpLock, Resolve, Has, ReadMetadata,
                ForgetStale, ResolveFails, Returned
  <2> QED BY <1>2, <1>3, <2>1, <2>2 DEF Places, Section
<1>5. CASE Setup(e) \/ SetupFails(e) \/ QueryStarts(e)
  BY <1>2, <1>3, <1>5 DEF Setup, SetupFails, QueryStarts, Places, Section
<1>6. CASE QueryRejected(e) \/ QueryFails(e)
  <2>1. (Goto(e, "start") /\ UNCHANGED outcome) \/ Throw(e)
    BY <1>6, AttemptGoes DEF QueryRejected, QueryFails
  <2>2. UNCHANGED asked
    BY <1>6 DEF QueryRejected, QueryFails
  <2> QED BY <1>2, <1>3, <2>1, <2>2 DEF Places, Section
<1>7. CASE QueryEmpty(e)
  BY <1>2, <1>3, <1>7 DEF QueryEmpty, Places, Section
<1>8. CASE Ask(e)
  BY <1>1, <1>8 DEF Ask, AskInv, AskOk
<1>9. CASE QueryReturns(e)
  <2>1. /\ pc' = [pc EXCEPT ![e] = IF asked'[e] # None THEN "sync" ELSE "mark"]
        /\ UNCHANGED outcome
        /\ \A x \in Executions \ {e} : asked'[x] = asked[x]
    BY <1>1, <1>9 DEF QueryReturns
  <2> QED BY <1>1, <2>1 DEF AskInv, AskOk
<1>10. CASE PauseBranch(e)
  BY <1>2, <1>3, <1>10 DEF PauseBranch, SyncPending, SyncFails, PersistPending,
                 PersistPendingFails, PutToWait,
                 PutToWaitFails, MarkPaused, Pause, Places,
                           Section
<1>11. CASE ResultRejected(e) \/ PersistFails(e) \/ MarkFails(e) \/ DurableFails(e) \/ MarkFailed(e)
  BY <1>3, <1>11 DEF ResultRejected, PersistFails, MarkFails, DurableFails, MarkFailed
<1>12. CASE MarkCompleted(e) \/ PersistMetadata(e) \/ Complete(e)
  BY <1>1, <1>12 DEF MarkCompleted, PersistMetadata, Complete, AskInv, AskOk
<1>13. CASE ReleaseLock(e) \/ UnlockFails(e)
  BY <1>1, <1>13 DEF ReleaseLock, UnlockFails, AskInv, AskOk, Ended
<1>14. CASE CloseMemory(e)
  BY <1>1, <1>14 DEF CloseMemory, AskInv, AskOk
<1>15. CASE Answer(e)
  BY <1>1, <1>15 DEF Answer, AskInv, AskOk
<1> QED BY <1>4, <1>5, <1>6, <1>7, <1>8, <1>9, <1>10, <1>11, <1>12, <1>13, <1>14, <1>15
        DEF Step, Prepare, StartQuery, Query, CompleteBranch, Finish

(***************************************************************************)
(* An execution whose agent raised a question pauses or fails: no retry,   *)
(* failure or late result makes it complete (runAgentExecution,            *)
(* finalizeExecution).                                                     *)
(***************************************************************************)
THEOREM QuestionsNeverComplete == Spec => []AskedNeverDone
<1>1. Init => AskInv
  BY DEF Init, AskInv, AskOk
<1>2. LockInv /\ RunInv /\ AskInv /\ [Next]_vars => AskInv'
  <2> SUFFICES ASSUME LockInv, RunInv, AskInv, [Next]_vars PROVE AskInv'
    OBVIOUS
  <2>1. ASSUME NEW e \in Executions, Step(e) \/ Query(e) \/ CloseMemory(e) \/ Answer(e)
        PROVE  AskInv'
    BY <2>1, AskSteps DEF LockInv, RunInv
  <2>2. CASE Expire \/ LoseTranscript \/ UNCHANGED vars
    BY <2>2 DEF Expire, LoseTranscript, vars, hitlVars, AskInv, AskOk
  <2> QED BY <2>1, <2>2 DEF Next
<1>3. AskInv => AskedNeverDone
  BY DEF AskInv, AskOk, AskedNeverDone
<1> QED BY <1>1, <1>2, <1>3, LockCorrect, RunCorrect, PTL DEF Spec
-----------------------------------------------------------------------------
(* What is left of TypeOK.  That only sessions are made rests on a query    *)
(* running in one, which for a managed resume rests on AnswerNeverDropped.  *)
RestTypes == /\ memory \in Memories
             /\ seen \in [Executions -> BOOLEAN] /\ latched \in [Executions -> BOOLEAN]
             /\ record \in [Executions -> BOOLEAN] /\ waiting \in [Executions -> BOOLEAN]
             /\ round \in [Executions -> Nat] /\ lost \in [Executions -> BOOLEAN]
             /\ stream \in [Executions -> {"none", "live", "completed", "paused_hitl", "failed"}]
LiveInv == made \in SUBSET Sessions /\ \A e \in Executions : pc[e] = "query" => live[e] \in Sessions

LEMMA RestSteps ==
    ASSUME LockTypes, RunTypes, RestTypes, NEW e \in Executions,
           Step(e) \/ Query(e) \/ CloseMemory(e) \/ Answer(e)
    PROVE  RestTypes'
<1> USE DEF lockVars, runVars, hitlVars, streamVars, RestTypes
<1>1. CASE Acquire(e) \/ ReadMetadata(e) \/ ForgetStale(e) \/ ResolveFails(e) \/ QueryRejected(e)
           \/ QueryFails(e) \/ QueryReturns(e) \/ QueryEmpty(e) \/ SyncPending(e) \/ SyncFails(e)
           \/ Pause(e) \/ CloseMemory(e)
  BY <1>1 DEF Acquire, Begin, ConnectFails, TryLock, GiveUpLock, ReadMetadata, ForgetStale,
              ResolveFails, QueryRejected, QueryFails, QueryReturns, QueryEmpty, SyncPending,
              SyncFails, Pause, CloseMemory
<1>2. CASE ResultRejected(e) \/ PersistMetadata(e) \/ PersistFails(e) \/ Complete(e) \/ MarkFails(e)
           \/ DurableFails(e) \/ ReleaseLock(e) \/ UnlockFails(e)
  BY <1>2 DEF ResultRejected, PersistMetadata, PersistFails, Complete, MarkFails, DurableFails,
              ReleaseLock, UnlockFails
<1>3. CASE Has(e)
  BY <1>3 DEF Has, RunTypes, Entries
<1>4. CASE Setup(e) \/ SetupFails(e)
  BY <1>4 DEF Setup, SetupFails, OpenStream
<1>5. CASE QueryStarts(e) \/ Ask(e) \/ PersistPending(e) \/ PersistPendingFails(e) \/ PutToWait(e)
            \/ PutToWaitFails(e)
  BY <1>5 DEF QueryStarts, Ask, PersistPending, PersistPendingFails, PutToWait, PutToWaitFails
<1>6. CASE MarkPaused(e) \/ MarkCompleted(e) \/ MarkFailed(e)
  BY <1>6 DEF MarkPaused, MarkCompleted, MarkFailed, MarkStream
<1>7. CASE Answer(e)
  BY <1>7 DEF Answer
<1> QED BY <1>1, <1>2, <1>3, <1>4, <1>5, <1>6, <1>7
        DEF Step, Resolve, Prepare, StartQuery, Query, PauseBranch, CompleteBranch, Finish

LEMMA LiveSteps ==
    ASSUME LockTypes, RunInv, LiveInv, NEW e \in Executions,
           Step(e) \/ Query(e) \/ CloseMemory(e) \/ Answer(e)
    PROVE  LiveInv'
<1> USE DEF lockVars, runVars, hitlVars, streamVars
<1>1. /\ pc \in [Executions -> Places] /\ live \in [Executions -> OrNone]
      /\ opts[e] \in Options /\ RunOk(e)
      /\ outcome[e] \in Ended
  BY DEF LockTypes, RunInv, RunTypes
<1>2. CASE QueryStarts(e)
  <2>1. /\ opts[e].resume \in OrNone /\ opts[e].sessionId \in OrNone /\ opts[e].managed \in OrNone
        /\ pc[e] = "start"
    BY <1>1, <1>2 DEF QueryStarts, Options
  <2>2. Resumed(e) => AnswerTarget(opts[e]) \in Sessions
    BY <1>1, <2>1 DEF AnswerTarget, RunOk, OrNone
  <2>3. QuerySessions(e) \subseteq Sessions
    BY <2>1, <2>2 DEF QuerySessions, NewSessions, OrNone
  <2> QED BY <1>1, <1>2, <2>3 DEF QueryStarts, Goto, LiveInv
<1>3. CASE Query(e)
  <2>1. live[e] \in Sessions
    BY <1>3 DEF Query, QueryFails, Ask, QueryReturns, QueryEmpty, LiveInv
  <2>2. made' \in SUBSET Sessions
    BY <1>3, <2>1 DEF Query, QueryFails, Ask, QueryReturns, QueryEmpty, MaybeMade, LiveInv
  <2>3. CASE Ask(e)
    BY <2>2, <2>3 DEF Ask, LiveInv
  <2>4. CASE QueryFails(e) \/ QueryReturns(e) \/ QueryEmpty(e)
    <3>1. \E l \in {"start", "failMark", "sync", "mark"} : pc' = [pc EXCEPT ![e] = l]
      BY <2>4, AttemptGoes DEF QueryFails, QueryReturns, QueryEmpty, Throw, Goto
    <3>2. live' = [live EXCEPT ![e] = None]
      BY <2>4 DEF QueryFails, QueryReturns, QueryEmpty, QueryOver
    <3> QED BY <1>1, <2>2, <3>1, <3>2 DEF LiveInv
  <2> QED BY <1>3, <2>3, <2>4 DEF Query
<1>4. ASSUME UNCHANGED <<made, live>>, UNCHANGED pc \/ \E l : pc' = [pc EXCEPT ![e] = l] /\ l # "query"
      PROVE  LiveInv'
  BY <1>1, <1>4 DEF LiveInv
<1>5. CASE Acquire(e) \/ Resolve(e) \/ Prepare(e) \/ QueryRejected(e)
  <2>1. UNCHANGED <<made, live>>
    BY <1>5 DEF Acquire, Begin, ConnectFails, TryLock, GiveUpLock, Resolve, Has, ReadMetadata,
                ForgetStale, ResolveFails, Prepare, Setup, SetupFails, QueryRejected
  <2>2. \E l \in {"poll", "has", "failMark", "meta", "forget", "setup", "start"} :
            pc' = [pc EXCEPT ![e] = l]
    BY <1>5, AttemptGoes
       DEF Acquire, Begin, ConnectFails, TryLock, GiveUpLock, Resolve, Has, ReadMetadata,
           ForgetStale, ResolveFails, Returned, Prepare, Setup, SetupFails, QueryRejected, Throw, Goto
  <2> QED BY <1>4, <2>1, <2>2
<1>6. CASE PauseBranch(e) \/ CompleteBranch(e) \/ Finish(e) \/ CloseMemory(e) \/ Answer(e)
  <2>1. UNCHANGED <<made, live>>
    BY <1>6 DEF PauseBranch, SyncPending, SyncFails, PersistPending,
                 PersistPendingFails, PutToWait,
                 PutToWaitFails, MarkPaused, Pause, CompleteBranch,
                ResultRejected, MarkCompleted, PersistMetadata, PersistFails, Complete, Finish,
                MarkFails, DurableFails, MarkFailed, ReleaseLock, UnlockFails, CloseMemory, Answer
  <2>2. UNCHANGED pc \/ \E l \in Places \ {"query"} : pc' = [pc EXCEPT ![e] = l]
    BY <1>1, <1>6 DEF PauseBranch, SyncPending, SyncFails, PersistPending,
                 PersistPendingFails, PutToWait,
                 PutToWaitFails, MarkPaused, Pause, CompleteBranch,
                ResultRejected, MarkCompleted, PersistMetadata, PersistFails, Complete, Finish,
                MarkFails, DurableFails, MarkFailed, ReleaseLock, UnlockFails, CloseMemory, Answer,
                Throw, EndAs, Goto, Places, Section, Ended
  <2> QED BY <1>4, <2>1, <2>2
<1> QED BY <1>2, <1>3, <1>5, <1>6 DEF Step, StartQuery

(***************************************************************************)
(* The type invariant of the executions, their lock, their query options,  *)
(* their questions and their streams.                                      *)
(***************************************************************************)
THEOREM TaskTypeCorrect == Spec => []TypeOK
<1>1. Init => RestTypes /\ LiveInv
  BY DEF Init, RestTypes, LiveInv
<1>2. LockInv /\ RunInv /\ RestTypes /\ LiveInv /\ [Next]_vars => RestTypes' /\ LiveInv'
  <2> SUFFICES ASSUME LockInv, RunInv, RestTypes, LiveInv, [Next]_vars PROVE RestTypes' /\ LiveInv'
    OBVIOUS
  <2>1. ASSUME NEW e \in Executions, Step(e) \/ Query(e) \/ CloseMemory(e) \/ Answer(e)
        PROVE  RestTypes' /\ LiveInv'
    BY <2>1, RestSteps, LiveSteps DEF LockInv, RunInv
  <2>2. CASE Expire \/ LoseTranscript \/ UNCHANGED vars
    BY <2>2 DEF Expire, LoseTranscript, vars, lockVars, runVars, hitlVars, streamVars, RestTypes, LiveInv
  <2> QED BY <2>1, <2>2 DEF Next
<1>3. LockInv /\ RunInv /\ RestTypes /\ LiveInv => TypeOK
  BY DEF LockInv, RunInv, LockTypes, RunTypes, RestTypes, LiveInv, TypeOK, Places, Stages
<1> QED BY <1>1, <1>2, <1>3, LockCorrect, RunCorrect, PTL DEF Spec

-----------------------------------------------------------------------------
(***************************************************************************)
(* What an execution read from memory stays true while its agent runs:     *)
(* with the lock, only the execution itself writes the entry, and it       *)
(* writes after the query.                                                 *)
(***************************************************************************)
ReadOk(e) ==
    /\ pc[e] = "meta" => seen[e] = entry.there
    /\ pc[e] = "forget" => ~Managed /\ opts[e].managed = None
    /\ pc[e] \in {"setup", "start", "query"} =>
          /\ opts[e].managed = IF Managed THEN entry.managed ELSE None
          /\ entry.there => seen[e]
EntryOk == ~entry.there => entry.managed = None
ReadInv == EntryOk /\ (HasLock(memory) => \A e \in Executions : ReadOk(e))

(* What the session memory's writes leave.                                  *)
LEMMA EntryWrites ==
    /\ \A x \in Entries, s \in OrNone : Touch(x, s).there
    /\ ~NoEntry.there /\ NoEntry.managed = None
BY DEF Touch, NoEntry

LEMMA ReadSteps ==
    ASSUME LockInv, RunInv, TypeOK, ReadInv, NEW e \in Executions,
           Step(e) \/ Query(e) \/ CloseMemory(e) \/ Answer(e)
    PROVE  ReadInv'
<1> USE DEF lockVars, runVars, hitlVars, streamVars
<1>0. /\ pc \in [Executions -> Places] /\ opts \in [Executions -> Options]
      /\ seen \in [Executions -> BOOLEAN] /\ entry \in Entries
      /\ entry.there \in BOOLEAN /\ entry.managed \in OrNone /\ EntryOk
      /\ opts[e].resume \in OrNone /\ outcome[e] \in Ended
      /\ sess[e] \in OrNone /\ opts[e] \in Options
  BY DEF LockInv, LockTypes, RunInv, RunTypes, TypeOK, ReadInv, Entries, Options
(* A step that leaves the entry and the others alone.                       *)
<1>1. ASSUME UNCHANGED <<memory, entry>>, HasLock(memory) => ReadOk(e)',
             \A x \in Executions \ {e} : /\ pc'[x] = pc[x] /\ opts'[x] = opts[x]
                                         /\ seen'[x] = seen[x]
      PROVE  ReadInv'
  BY <1>1 DEF ReadInv, EntryOk, ReadOk
(* A write to the entry: the execution holds the lock, if there is one.     *)
<1>2. ASSUME UNCHANGED memory, EntryOk', pc[e] \in Section, HasLock(memory) => ReadOk(e)',
             \A x \in Executions \ {e} : /\ pc'[x] = pc[x] /\ opts'[x] = opts[x]
                                         /\ seen'[x] = seen[x]
      PROVE  ReadInv'
  <2>1. ASSUME NEW x \in Executions \ {e}, HasLock(memory) PROVE pc[x] \notin Section
    BY <1>2, <2>1 DEF LockInv, LockOk
  <2> QED BY <1>2, <2>1 DEF ReadInv, ReadOk, Section
(* A step to a place where nothing is known of the entry, or one that stays *)
(* between the resolution and the query.                                    *)
<1>3. ASSUME UNCHANGED <<memory, entry, opts, seen>>,
             \E l : pc' = [pc EXCEPT ![e] = l]
                      /\ (l \notin {"meta", "forget", "setup", "start", "query"}
                          \/ (l \in {"start", "query"} /\ pc[e] \in {"setup", "start", "query"}))
      PROVE  ReadInv'
  <2>1. PICK l : pc' = [pc EXCEPT ![e] = l]
                   /\ (l \notin {"meta", "forget", "setup", "start", "query"}
                       \/ (l \in {"start", "query"} /\ pc[e] \in {"setup", "start", "query"}))
    BY <1>3
  <2> QED BY <1>0, <1>1, <1>3, <2>1 DEF ReadInv, ReadOk
<1>4. CASE Acquire(e) \/ ResolveFails(e) \/ SetupFails(e) \/ QueryStarts(e)
  <2>1. /\ UNCHANGED <<memory, entry, opts, seen>>
        /\ \/ pc[e] = "start" /\ pc' = [pc EXCEPT ![e] = "query"]
           \/ \E l \in {"poll", "has", "failMark"} : pc' = [pc EXCEPT ![e] = l]
    BY <1>4 DEF Acquire, Begin, ConnectFails, TryLock, GiveUpLock, ResolveFails, SetupFails,
                QueryStarts, Throw, Goto
  <2> QED BY <1>3, <2>1
<1>5. CASE Has(e)
  BY <1>0, <1>1, <1>5 DEF Has, Goto, ReadOk
<1>6. CASE ReadMetadata(e)
  <2> DEFINE stale == ~Managed /\ seen[e] /\ Chat \notin made
             stored == IF Managed /\ seen[e] THEN entry.managed ELSE None
  <2>1. PICK s \in OrNone :
            opts' = [opts EXCEPT ![e] = [SessionOptions(s, Chat) EXCEPT !.managed = stored]]
    BY <1>6 DEF ReadMetadata, OrNone
  <2>2. /\ pc[e] = "meta" /\ UNCHANGED <<memory, entry, seen>>
        /\ stale => pc' = [pc EXCEPT ![e] = "forget"]
        /\ ~stale => pc' = [pc EXCEPT ![e] = "setup"]
    BY <1>6 DEF ReadMetadata, Returned, Goto
  <2>3. opts'[e].managed = stored
    <3>1. SessionOptions(s, Chat) \in Options
      BY OptionTypes
    <3> QED BY <1>0, <2>1, <3>1 DEF Options
  <2>4. HasLock(memory) => ReadOk(e)'
    BY <1>0, <2>2, <2>3 DEF ReadInv, ReadOk, EntryOk
  <2> HIDE DEF stored
  <2> QED BY <1>0, <1>1, <2>1, <2>2, <2>4
<1>7. CASE ForgetStale(e)
  <2>1. /\ pc[e] = "forget" /\ entry' = Forget(memory, entry) /\ pc' = [pc EXCEPT ![e] = "setup"]
        /\ UNCHANGED <<memory, opts, seen>>
    BY <1>7 DEF ForgetStale, Returned, Goto
  <2>2. EntryOk' /\ (HasLock(memory) => ~entry'.there /\ entry'.managed = None)
    BY <1>0, <2>1, EntryWrites DEF Forget, EntryOk, HasForget, HasLock
  <2>3. HasLock(memory) => ReadOk(e)'
    BY <1>0, <2>1, <2>2 DEF ReadInv, ReadOk
  <2> QED BY <1>0, <1>2, <2>1, <2>2, <2>3 DEF Section
<1>8. CASE Setup(e)
  <2>1. /\ pc[e] = "setup" /\ pc' = [pc EXCEPT ![e] = "start"] /\ UNCHANGED <<memory, entry, seen>>
    BY <1>8 DEF Setup, Goto
  <2>2. PICK o : opts' = [opts EXCEPT ![e] = o] /\ o.managed = opts[e].managed
    <3> DEFINE r == ResumeOptions(opts[e], IF Managed THEN answers[e] ELSE Chat)
    <3>1. r.managed = opts[e].managed /\ \A a : [r EXCEPT !.at = a].managed = opts[e].managed
      BY <1>0 DEF ResumeOptions, Options
    <3>2. PICK a : opts' = [opts EXCEPT ![e] = IF Resumed(e) THEN [r EXCEPT !.at = a] ELSE opts[e]]
      BY <1>8 DEF Setup, ApplyAnswer
    <3> HIDE DEF r
    <3> QED BY <3>1, <3>2
  <2>3. HasLock(memory) => ReadOk(e)'
    BY <1>0, <2>1, <2>2 DEF ReadInv, ReadOk
  <2> QED BY <1>0, <1>1, <2>1, <2>2, <2>3
<1>9. ASSUME Retried(e), UNCHANGED <<memory, entry, seen>>, pc[e] \in {"start", "query"}
      PROVE  ReadInv'
  <2>1. PICK o \in Options : opts' = [opts EXCEPT ![e] = o] /\ o.managed = opts[e].managed
    BY <1>9 DEF Retried
  <2>2. pc' = [pc EXCEPT ![e] = "start"]
    BY <1>9 DEF Retried, Goto
  <2>3. HasLock(memory) => ReadOk(e)'
    BY <1>0, <1>9, <2>1, <2>2 DEF ReadInv, ReadOk
  <2> QED BY <1>0, <1>1, <1>9, <2>1, <2>2, <2>3
<1>10. ASSUME Throw(e), UNCHANGED <<memory, entry, seen, opts>>
       PROVE  ReadInv'
  <2>1. \E l \in {"failMark"} : pc' = [pc EXCEPT ![e] = l]
    BY <1>10 DEF Throw, Goto
  <2> QED BY <1>3, <1>10, <2>1
<1>11. CASE QueryRejected(e) \/ QueryFails(e)
  <2>1. PICK kind \in ErrorKinds : AttemptFailed(e, kind)
    BY <1>11 DEF QueryRejected, QueryFails, Refusal, ErrorKinds
  <2>2. pc[e] \in {"start", "query"} /\ UNCHANGED <<memory, entry, seen>>
    BY <1>11 DEF QueryRejected, QueryFails
  <2>3. Retried(e) \/ GivenUp(e)
    BY <1>0, <2>1, Attempt
  <2> QED BY <1>9, <1>10, <2>2, <2>3 DEF GivenUp
<1>12. CASE QueryEmpty(e)
  <2>1. pc[e] = "query" /\ UNCHANGED <<memory, entry, seen>>
    BY <1>12 DEF QueryEmpty
  <2>2. CASE stage[e] = "emptyRetry"
    BY <1>10, <1>12, <2>1, <2>2 DEF QueryEmpty
  <2>3. CASE stage[e] # "emptyRetry"
    <3>1. /\ opts' = [opts EXCEPT ![e] = EmptyRetry(opts[e], Resumed(e))]
          /\ pc' = [pc EXCEPT ![e] = "start"]
      BY <1>12, <2>3 DEF QueryEmpty, Goto
    <3>2. EmptyRetry(opts[e], Resumed(e)).managed = opts[e].managed
      BY <1>0 DEF EmptyRetry, Options
    <3>3. HasLock(memory) => ReadOk(e)'
      BY <1>0, <2>1, <3>1, <3>2 DEF ReadInv, ReadOk
    <3> QED BY <1>0, <1>1, <2>1, <3>1, <3>3
  <2> QED BY <2>2, <2>3
<1>13. CASE Ask(e)
  BY <1>1, <1>13 DEF Ask, ReadInv, ReadOk
<1>14. CASE QueryReturns(e)
  <2>1. /\ UNCHANGED <<memory, entry, opts, seen>>
        /\ \E l \in {"sync", "mark"} : pc' = [pc EXCEPT ![e] = l]
    BY <1>14 DEF QueryReturns, Goto
  <2> QED BY <1>3, <2>1
<1>15. CASE SyncPending(e) \/ PersistMetadata(e)
  <2>1. /\ pc[e] \in Section /\ UNCHANGED <<memory, opts, seen>>
        /\ \E l \in {"store", "full"} : pc' = [pc EXCEPT ![e] = l]
    BY <1>15 DEF SyncPending, PersistMetadata, Goto, Section
  <2>2. \/ entry' = entry \/ entry' = Forget(memory, entry)
        \/ \E s \in OrNone : entry' = Touch(entry, s)
    BY <1>0, <1>15 DEF SyncPending, PersistMetadata, Remember, OrNone
  <2>3. EntryOk'
    BY <1>0, <2>2, EntryWrites DEF EntryOk, Forget
  <2>4. ReadOk(e)'
    BY <1>0, <2>1 DEF ReadOk
  <2> QED BY <1>0, <1>2, <2>1, <2>3, <2>4
<1>16. CASE SyncFails(e)
            \/ PersistPending(e) \/ PersistPendingFails(e) \/ PutToWait(e)
            \/ PutToWaitFails(e) \/ MarkPaused(e) \/ Pause(e) \/ ResultRejected(e)
            \/ MarkCompleted(e) \/ PersistFails(e) \/ Complete(e) \/ Finish(e)
  <2>1. /\ UNCHANGED <<memory, entry, opts, seen>>
        /\ \E l \in {"wait", "pauseMark", "pauseFull", "persist", "failMark", "release"} \cup Ended :
              pc' = [pc EXCEPT ![e] = l]
    BY <1>0, <1>16 DEF SyncFails, PersistPending,
                 PersistPendingFails, PutToWait,
                 PutToWaitFails, MarkPaused, Pause, ResultRejected, MarkCompleted,
                       PersistFails, Complete, Finish, MarkFails, DurableFails, MarkFailed,
                       ReleaseLock, UnlockFails, Throw, EndAs, Goto
  <2> QED BY <1>3, <2>1 DEF Ended
<1>17. CASE CloseMemory(e)
  BY <1>1, <1>17 DEF CloseMemory, ReadInv, ReadOk
<1>18. CASE Answer(e)
  <2>1. /\ UNCHANGED <<memory, entry>> /\ pc' = [pc EXCEPT ![e] = "idle"]
        /\ opts' = [opts EXCEPT ![e] = NoOptions] /\ seen' = [seen EXCEPT ![e] = FALSE]
    BY <1>18 DEF Answer, Goto
  <2>2. ReadOk(e)'
    BY <1>0, <2>1 DEF ReadOk
  <2> QED BY <1>0, <1>1, <2>1, <2>2
<1> QED BY <1>4, <1>5, <1>6, <1>7, <1>8, <1>11, <1>12, <1>13, <1>14, <1>15, <1>16, <1>17, <1>18
        DEF Step, Resolve, Prepare, StartQuery, Query, PauseBranch, CompleteBranch

(***************************************************************************)
(* With Postgres memory, nothing changes the entry between the moment an   *)
(* execution resolves its session from it and the end of its agent's       *)
(* query (resolveSessionState): the managed session it was given and what  *)
(* it knows of the entry are those in memory, through every retry.         *)
(***************************************************************************)
THEOREM ReadsStayCurrent == Spec => []ReadIsCurrent
<1>1. Init => ReadInv
  BY EntryWrites DEF Init, ReadInv, EntryOk, ReadOk
<1>2. LockInv /\ RunInv /\ TypeOK /\ ReadInv /\ [Next]_vars => ReadInv'
  <2> SUFFICES ASSUME LockInv, RunInv, TypeOK, ReadInv, [Next]_vars PROVE ReadInv'
    OBVIOUS
  <2>1. ASSUME NEW e \in Executions, Step(e) \/ Query(e) \/ CloseMemory(e) \/ Answer(e)
        PROVE  ReadInv'
    BY <2>1, ReadSteps
  <2>2. CASE Expire
    BY <2>2, EntryWrites DEF Expire, HasExpiry, HasLock, lockVars, ReadInv, EntryOk
  <2>3. CASE LoseTranscript \/ UNCHANGED vars
    BY <2>3 DEF LoseTranscript, vars, lockVars, runVars, ReadInv, EntryOk, ReadOk
  <2> QED BY <2>1, <2>2, <2>3 DEF Next
<1>3. ReadInv => ReadIsCurrent
  BY DEF ReadInv, ReadOk, ReadIsCurrent
<1> QED BY <1>1, <1>2, <1>3, LockCorrect, RunCorrect, TaskTypeCorrect, PTL DEF Spec

-----------------------------------------------------------------------------
(***************************************************************************)
(* An execution pauses in an order of its own: the question first, its     *)
(* record next, the wait last.  A failure in between leaves the pausing    *)
(* branch, and none takes back what was done.                              *)
(***************************************************************************)
Pausing == {"pauseMark", "pauseFull"}
WaitOk(e) ==
    /\ waiting[e] => /\ record[e] /\ asked[e] # None
                     /\ pc[e] \in Pausing \cup {"failMark", "release"} \cup Ended
    /\ pc[e] \in {"sync", "store", "wait"} => asked[e] # None
    /\ pc[e] = "wait" => record[e]
    /\ pc[e] \in Pausing \/ Paused(e) => /\ record[e] /\ asked[e] # None
                                         /\ Managed => waiting[e]
WaitInv == \A e \in Executions : WaitOk(e)

LEMMA WaitSteps ==
    ASSUME LockInv, RunTypes, TypeOK, WaitInv, NEW e \in Executions,
           Step(e) \/ Query(e) \/ CloseMemory(e) \/ Answer(e)
    PROVE  WaitInv'
<1> USE DEF lockVars, runVars, hitlVars, streamVars
<1>0. /\ pc \in [Executions -> Places] /\ asked \in [Executions -> OrNone]
      /\ record \in [Executions -> BOOLEAN] /\ waiting \in [Executions -> BOOLEAN]
      /\ outcome \in [Executions -> Ended] /\ outcome[e] \in Ended
      /\ WaitOk(e)
  BY DEF LockInv, LockTypes, RunTypes, TypeOK, WaitInv
<1>1. ASSUME WaitOk(e)',
             \A x \in Executions \ {e} : /\ pc'[x] = pc[x] /\ outcome'[x] = outcome[x]
                                         /\ asked'[x] = asked[x] /\ record'[x] = record[x]
                                         /\ waiting'[x] = waiting[x]
      PROVE  WaitInv'
  BY <1>1 DEF WaitInv, WaitOk, Paused
(* A step before the pausing branch, one inside it or one past it.          *)
<1>2. ASSUME UNCHANGED <<asked, record, waiting>>,
             \A x \in Executions \ {e} : outcome'[x] = outcome[x],
             \E l : /\ pc' = [pc EXCEPT ![e] = l]
                    /\ l \notin {"sync", "wait", "pauseMark"}
                    /\ l = "store" => pc[e] = "sync"
                    /\ l = "pauseFull" => pc[e] = "pauseMark"
                    /\ l = "paused" => Paused(e)
                    /\ l = "release" /\ outcome'[e] = "paused" => pc[e] = "pauseFull"
                    /\ \/ l \in Pausing \cup {"failMark", "release"} \cup Ended
                       \/ pc[e] \notin Pausing \cup {"failMark", "release"} \cup Ended
      PROVE  WaitInv'
  <2>1. PICK l : /\ pc' = [pc EXCEPT ![e] = l]
                 /\ l \notin {"sync", "wait", "pauseMark"}
                 /\ l = "store" => pc[e] = "sync"
                 /\ l = "pauseFull" => pc[e] = "pauseMark"
                 /\ l = "paused" => Paused(e)
                 /\ l = "release" /\ outcome'[e] = "paused" => pc[e] = "pauseFull"
                 /\ \/ l \in Pausing \cup {"failMark", "release"} \cup Ended
                    \/ pc[e] \notin Pausing \cup {"failMark", "release"} \cup Ended
    BY <1>2
  <2>2. pc'[e] = l
    BY <1>0, <2>1
  <2>3. Paused(e)' => Paused(e) \/ pc[e] = "pauseFull"
    BY <2>1, <2>2 DEF Paused
  <2>4. WaitOk(e)'
    BY <1>0, <1>2, <2>1, <2>2, <2>3 DEF WaitOk, Pausing
  <2> QED BY <1>0, <1>1, <1>2, <2>1, <2>4
<1>3. CASE Acquire(e) \/ Resolve(e) \/ Prepare(e) \/ StartQuery(e) \/ QueryFails(e) \/ QueryEmpty(e)
  <2>1. /\ UNCHANGED <<asked, record, waiting>>
        /\ \A x \in Executions \ {e} : outcome'[x] = outcome[x]
    BY <1>0, <1>3, AttemptGoes
       DEF Acquire, Begin, ConnectFails, TryLock, GiveUpLock, Resolve, Has, ReadMetadata,
           ForgetStale, ResolveFails, Prepare, Setup, SetupFails, StartQuery, QueryStarts,
           QueryRejected, QueryFails, QueryEmpty, Throw
  <2>2. /\ \E l \in {"poll", "has", "failMark", "meta", "forget", "setup", "start", "query"} :
              pc' = [pc EXCEPT ![e] = l]
        /\ pc[e] \in {"idle", "poll", "has", "meta", "forget", "setup", "start", "query"}
    BY <1>3, AttemptGoes
       DEF Acquire, Begin, ConnectFails, TryLock, GiveUpLock, Resolve, Has, ReadMetadata,
           ForgetStale, ResolveFails, Returned, Prepare, Setup, SetupFails, StartQuery, QueryStarts,
           QueryRejected, QueryFails, QueryEmpty, Throw, Goto
  <2> QED BY <1>2, <2>1, <2>2 DEF Ended, Pausing
<1>4. CASE Ask(e)
  <2>1. /\ pc[e] = "query" /\ pc' = pc /\ waiting' = waiting /\ outcome' = outcome
        /\ \A x \in Executions \ {e} : asked'[x] = asked[x] /\ record'[x] = record[x]
    BY <1>0, <1>4 DEF Ask
  <2>2. WaitOk(e)'
    BY <1>0, <2>1 DEF WaitOk, Paused, Pausing, Ended
  <2> QED BY <1>1, <2>1, <2>2
<1>5. CASE QueryReturns(e)
  <2>1. /\ pc[e] = "query" /\ UNCHANGED <<record, waiting, outcome>>
        /\ pc' = [pc EXCEPT ![e] = IF asked'[e] # None THEN "sync" ELSE "mark"]
        /\ \A x \in Executions \ {e} : asked'[x] = asked[x]
    BY <1>0, <1>5 DEF QueryReturns, Goto
  <2>2. ~waiting[e]
    BY <1>0, <2>1 DEF WaitOk, Pausing, Ended
  <2>3. WaitOk(e)'
    BY <1>0, <2>1, <2>2 DEF WaitOk, Paused, Pausing
  <2> QED BY <1>0, <1>1, <2>1, <2>3
<1>6. CASE PersistPending(e)
  <2>1. /\ pc[e] = "store" /\ pc' = [pc EXCEPT ![e] = "wait"]
        /\ record' = [record EXCEPT ![e] = TRUE] /\ UNCHANGED <<asked, waiting, outcome>>
    BY <1>6 DEF PersistPending, Goto
  <2>2. WaitOk(e)'
    BY <1>0, <2>1 DEF WaitOk, Paused, Pausing, Ended
  <2> QED BY <1>0, <1>1, <2>1, <2>2
<1>7. CASE PutToWait(e)
  <2>1. /\ pc[e] = "wait" /\ pc' = [pc EXCEPT ![e] = "pauseMark"]
        /\ UNCHANGED <<asked, record, outcome>>
        /\ \E o \in BOOLEAN : /\ Managed => o
                              /\ waiting' = [waiting EXCEPT ![e] = o]
    BY <1>7 DEF PutToWait, Goto
  <2>2. WaitOk(e)'
    BY <1>0, <2>1 DEF WaitOk, Paused, Pausing, Managed
  <2> QED BY <1>0, <1>1, <2>1, <2>2
<1>8. CASE SyncPending(e) \/ MarkPaused(e) \/ Pause(e)
  <2>1. /\ UNCHANGED <<asked, record, waiting>>
        /\ \A x \in Executions \ {e} : outcome'[x] = outcome[x]
        /\ \/ pc[e] = "sync" /\ pc' = [pc EXCEPT ![e] = "store"]
           \/ pc[e] = "pauseMark" /\ pc' = [pc EXCEPT ![e] = "pauseFull"]
           \/ pc[e] = "pauseFull" /\ pc' = [pc EXCEPT ![e] = "release"]
    BY <1>0, <1>8 DEF SyncPending, MarkPaused, Pause, EndAs, Goto
  <2> QED BY <1>2, <2>1 DEF Ended, Pausing
<1>9. CASE SyncFails(e) \/ PersistPendingFails(e) \/ PutToWaitFails(e) \/ ResultRejected(e)
           \/ PersistFails(e) \/ MarkFails(e) \/ DurableFails(e)
  <2>1. /\ UNCHANGED <<asked, record, waiting>>
        /\ \A x \in Executions \ {e} : outcome'[x] = outcome[x]
        /\ pc' = [pc EXCEPT ![e] = "failMark"]
    BY <1>0, <1>9 DEF SyncFails, PersistPendingFails, PutToWaitFails, ResultRejected, PersistFails,
                      MarkFails, DurableFails, Throw, Goto
  <2> QED BY <1>2, <2>1 DEF Ended, Pausing
<1>10. CASE MarkCompleted(e) \/ PersistMetadata(e) \/ Complete(e) \/ MarkFailed(e)
  <2>1. /\ UNCHANGED <<asked, record, waiting>>
        /\ \A x \in Executions \ {e} : outcome'[x] = outcome[x]
        /\ \/ /\ pc[e] \in {"mark", "persist"}
              /\ \E l \in {"persist", "full"} : pc' = [pc EXCEPT ![e] = l]
           \/ pc' = [pc EXCEPT ![e] = "release"] /\ outcome'[e] \in {"done", "failed"}
    BY <1>0, <1>10 DEF MarkCompleted, PersistMetadata, Complete, MarkFailed, EndAs, Goto
  <2> QED BY <1>2, <2>1 DEF Ended, Pausing
<1>11. CASE ReleaseLock(e) \/ UnlockFails(e)
  <2>1. /\ UNCHANGED <<asked, record, waiting, outcome>>
        /\ pc[e] = "release" /\ pc' = [pc EXCEPT ![e] = outcome[e]]
    BY <1>11 DEF ReleaseLock, UnlockFails, Goto
  <2> QED BY <1>0, <1>2, <2>1 DEF Ended, Pausing, Paused
<1>12. CASE CloseMemory(e)
  BY <1>12 DEF CloseMemory, WaitInv, WaitOk, Paused
<1>13. CASE Answer(e)
  <2>1. /\ pc' = [pc EXCEPT ![e] = "idle"] /\ asked' = [asked EXCEPT ![e] = None]
        /\ record' = [record EXCEPT ![e] = FALSE] /\ waiting' = [waiting EXCEPT ![e] = FALSE]
        /\ UNCHANGED outcome
    BY <1>13 DEF Answer, Goto
  <2>2. WaitOk(e)'
    BY <1>0, <2>1 DEF WaitOk, Paused, Pausing
  <2> QED BY <1>0, <1>1, <2>1, <2>2
<1> QED BY <1>3, <1>4, <1>5, <1>6, <1>7, <1>8, <1>9, <1>10, <1>11, <1>12, <1>13
        DEF Step, Query, PauseBranch, CompleteBranch, Finish

(***************************************************************************)
(* Whoever returned its question or was put to wait can be answered: the   *)
(* question is pending and its record stored, whichever awaited call of    *)
(* the pausing branch failed; and with the managed agent whoever returned  *)
(* its question waits (waitForPendingInteractions, finalizeExecution).     *)
(***************************************************************************)
THEOREM PausesAreAnswerable == Spec => []PausedIsAnswerable
<1>1. Init => WaitInv
  BY DEF Init, WaitInv, WaitOk, Paused, Pausing, Ended
<1>2. LockInv /\ RunInv /\ TypeOK /\ WaitInv /\ [Next]_vars => WaitInv'
  <2> SUFFICES ASSUME LockInv, RunInv, TypeOK, WaitInv, [Next]_vars PROVE WaitInv'
    OBVIOUS
  <2>1. ASSUME NEW e \in Executions, Step(e) \/ Query(e) \/ CloseMemory(e) \/ Answer(e)
        PROVE  WaitInv'
    BY <2>1, WaitSteps DEF RunInv
  <2>2. CASE Expire \/ LoseTranscript \/ UNCHANGED vars
    BY <2>2 DEF Expire, LoseTranscript, vars, hitlVars, WaitInv, WaitOk, Paused
  <2> QED BY <2>1, <2>2 DEF Next
<1>3. WaitInv => PausedIsAnswerable
  BY DEF WaitInv, WaitOk, PausedIsAnswerable
<1> QED BY <1>1, <1>2, <1>3, LockCorrect, RunCorrect, TaskTypeCorrect, PTL DEF Spec
-----------------------------------------------------------------------------
(***************************************************************************)
(* From the marking of the stream row to the end of the execution, the row *)
(* says what the execution is about to end as.                             *)
(***************************************************************************)
StatusOf(o) == CASE o = "done" -> "completed" [] o = "paused" -> "paused_hitl" [] OTHER -> "failed"
StatusOk(e) ==
    handle[e] /\ ~lost[e] =>
        /\ pc[e] \in {"persist", "full"} => stream[e] = "completed"
        /\ pc[e] = "pauseFull" => stream[e] = "paused_hitl"
        /\ pc[e] \in {"release"} \cup Ended => stream[e] = StatusOf(outcome[e])
StatusInv == \A e \in Executions : StatusOk(e)

LEMMA StatusSteps ==
    ASSUME LockInv, TypeOK, StatusInv, NEW e \in Executions,
           Step(e) \/ Query(e) \/ CloseMemory(e) \/ Answer(e)
    PROVE  StatusInv'
<1> USE DEF lockVars, runVars, hitlVars, streamVars
<1>0. /\ pc \in [Executions -> Places] /\ outcome \in [Executions -> Ended]
      /\ handle \in [Executions -> BOOLEAN] /\ lost \in [Executions -> BOOLEAN]
      /\ stream \in [Executions -> {"none", "live", "completed", "paused_hitl", "failed"}]
      /\ StatusOk(e)
  BY DEF LockInv, LockTypes, TypeOK, StatusInv
<1>1. ASSUME StatusOk(e)',
             \A x \in Executions \ {e} : /\ pc'[x] = pc[x] /\ outcome'[x] = outcome[x]
                                         /\ handle'[x] = handle[x] /\ lost'[x] = lost[x]
                                         /\ stream'[x] = stream[x]
      PROVE  StatusInv'
  BY <1>1 DEF StatusInv, StatusOk
(* A step that ends where nothing is claimed.                               *)
<1>2. ASSUME \E l : /\ pc' = [pc EXCEPT ![e] = l]
                    /\ l \notin {"persist", "full", "pauseFull", "release"} \cup Ended,
             \A x \in Executions \ {e} : /\ outcome'[x] = outcome[x]
                                         /\ handle'[x] = handle[x] /\ lost'[x] = lost[x]
                                         /\ stream'[x] = stream[x]
      PROVE  StatusInv'
  <2>1. PICK l : /\ pc' = [pc EXCEPT ![e] = l]
                 /\ l \notin {"persist", "full", "pauseFull", "release"} \cup Ended
    BY <1>2
  <2>2. StatusOk(e)'
    BY <1>0, <2>1 DEF StatusOk
  <2> QED BY <1>0, <1>1, <1>2, <2>1, <2>2
<1>3. CASE Acquire(e) \/ Resolve(e) \/ StartQuery(e) \/ QueryFails(e) \/ QueryReturns(e)
           \/ QueryEmpty(e) \/ SyncPending(e) \/ SyncFails(e)
            \/ PersistPending(e) \/ PersistPendingFails(e) \/ PutToWait(e)
            \/ PutToWaitFails(e)
  <2>1. UNCHANGED <<handle, lost, stream>> /\ \A x \in Executions \ {e} : outcome'[x] = outcome[x]
    BY <1>0, <1>3, AttemptGoes
       DEF Acquire, Begin, ConnectFails, TryLock, GiveUpLock, Resolve, Has, ReadMetadata,
           ForgetStale, ResolveFails, StartQuery, QueryStarts, QueryRejected, QueryFails,
           QueryReturns, QueryEmpty, SyncPending, SyncFails, PersistPending,
                 PersistPendingFails, PutToWait,
                 PutToWaitFails, Throw
  <2>2. \E l \in {"poll", "has", "failMark", "meta", "forget", "setup", "start", "query", "sync",
                  "mark", "store", "wait", "pauseMark"} : pc' = [pc EXCEPT ![e] = l]
    BY <1>3, AttemptGoes
       DEF Acquire, Begin, ConnectFails, TryLock, GiveUpLock, Resolve, Has, ReadMetadata,
           ForgetStale, ResolveFails, Returned, StartQuery, QueryStarts, QueryRejected, QueryFails,
           QueryReturns, QueryEmpty, SyncPending, SyncFails, PersistPending,
                 PersistPendingFails, PutToWait,
                 PutToWaitFails, Throw, Goto
  <2> QED BY <1>2, <2>1, <2>2 DEF Ended
<1>4. CASE Setup(e) \/ SetupFails(e)
  <2>1. /\ UNCHANGED lost
        /\ \A x \in Executions \ {e} : /\ outcome'[x] = outcome[x] /\ handle'[x] = handle[x]
                                       /\ stream'[x] = stream[x]
        /\ \E l \in {"start", "failMark"} : pc' = [pc EXCEPT ![e] = l]
    BY <1>0, <1>4 DEF Setup, SetupFails, OpenStream, Throw, Goto
  <2> QED BY <1>2, <2>1 DEF Ended
<1>5. CASE Ask(e) \/ CloseMemory(e)
  BY <1>5 DEF Ask, CloseMemory, StatusInv, StatusOk
<1>6. CASE MarkPaused(e)
  <2>1. /\ pc[e] = "pauseMark" /\ pc' = [pc EXCEPT ![e] = "pauseFull"]
        /\ stream' = [stream EXCEPT ![e] = IF handle[e] THEN "paused_hitl" ELSE @]
        /\ UNCHANGED <<outcome, handle, lost>>
    BY <1>6 DEF MarkPaused, MarkStream, Goto
  <2>2. StatusOk(e)'
    BY <1>0, <2>1 DEF StatusOk, StatusOf, Ended
  <2> QED BY <1>0, <1>1, <2>1, <2>2
<1>13. CASE MarkCompleted(e)
  <2>1. /\ pc[e] = "mark" /\ pc' = [pc EXCEPT ![e] = "persist"]
        /\ stream' = [stream EXCEPT ![e] = IF handle[e] THEN "completed" ELSE @]
        /\ UNCHANGED <<outcome, handle, lost>>
    BY <1>13 DEF MarkCompleted, MarkStream, Goto
  <2>2. StatusOk(e)'
    BY <1>0, <2>1 DEF StatusOk, StatusOf, Ended
  <2> QED BY <1>0, <1>1, <2>1, <2>2
<1>7. CASE Pause(e)
  <2>1. /\ pc[e] = "pauseFull" /\ pc' = [pc EXCEPT ![e] = "release"]
        /\ outcome' = [outcome EXCEPT ![e] = "paused"]
        /\ UNCHANGED <<handle, lost, stream>>
    BY <1>7 DEF Pause, EndAs, Goto
  <2>2. StatusOk(e)'
    BY <1>0, <2>1 DEF StatusOk, StatusOf, Ended
  <2> QED BY <1>0, <1>1, <2>1, <2>2
<1>14. CASE Complete(e)
  <2>1. /\ pc[e] = "full" /\ pc' = [pc EXCEPT ![e] = "release"]
        /\ outcome' = [outcome EXCEPT ![e] = "done"]
        /\ UNCHANGED <<handle, lost, stream>>
    BY <1>14 DEF Complete, EndAs, Goto
  <2>2. StatusOk(e)'
    BY <1>0, <2>1 DEF StatusOk, StatusOf, Ended
  <2> QED BY <1>0, <1>1, <2>1, <2>2
<1>8. CASE PersistMetadata(e)
  <2>1. /\ pc[e] = "persist" /\ pc' = [pc EXCEPT ![e] = "full"]
        /\ UNCHANGED <<outcome, handle, lost, stream>>
    BY <1>8 DEF PersistMetadata, Goto
  <2>2. StatusOk(e)'
    BY <1>0, <2>1 DEF StatusOk, Ended
  <2> QED BY <1>0, <1>1, <2>1, <2>2
<1>9. CASE ResultRejected(e) \/ PersistFails(e) \/ MarkFails(e) \/ DurableFails(e)
  <2>1. /\ \E l \in {"failMark"} : pc' = [pc EXCEPT ![e] = l]
        /\ UNCHANGED <<handle, lost, stream>> /\ \A x \in Executions \ {e} : outcome'[x] = outcome[x]
    BY <1>0, <1>9 DEF ResultRejected, PersistFails, MarkFails, DurableFails, Throw, Goto
  <2> QED BY <1>2, <2>1 DEF Ended
<1>10. CASE MarkFailed(e)
  <2>1. /\ pc' = [pc EXCEPT ![e] = "release"] /\ outcome' = [outcome EXCEPT ![e] = "failed"]
        /\ UNCHANGED handle
        /\ \/ stream' = [stream EXCEPT ![e] = IF handle[e] THEN "failed" ELSE @] /\ UNCHANGED lost
           \/ lost' = [lost EXCEPT ![e] = TRUE] /\ UNCHANGED stream
    BY <1>10 DEF MarkFailed, MarkStream, EndAs, Goto
  <2>2. StatusOk(e)'
    BY <1>0, <2>1 DEF StatusOk, StatusOf
  <2> QED BY <1>0, <1>1, <2>1, <2>2
<1>11. CASE ReleaseLock(e) \/ UnlockFails(e)
  <2>1. /\ pc[e] = "release" /\ pc' = [pc EXCEPT ![e] = outcome[e]]
        /\ UNCHANGED <<outcome, handle, lost, stream>>
    BY <1>11 DEF ReleaseLock, UnlockFails, Goto
  <2>2. StatusOk(e)'
    BY <1>0, <2>1 DEF StatusOk, Ended
  <2> QED BY <1>0, <1>1, <2>1, <2>2
<1>12. CASE Answer(e)
  <2>1. /\ pc' = [pc EXCEPT ![e] = "idle"] /\ handle' = [handle EXCEPT ![e] = FALSE]
        /\ UNCHANGED <<outcome, lost, stream>>
    BY <1>12 DEF Answer, Goto
  <2>2. StatusOk(e)'
    BY <1>0, <2>1 DEF StatusOk
  <2> QED BY <1>0, <1>1, <2>1, <2>2
<1> QED BY <1>3, <1>4, <1>5, <1>6, <1>7, <1>8, <1>9, <1>10, <1>11, <1>12, <1>13, <1>14
        DEF Step, Prepare, Query, PauseBranch, CompleteBranch, Finish

(***************************************************************************)
(* The status of a stream row is that of the execution that wrote it, also *)
(* when a step after the marking failed and the catch block marks it once  *)
(* more (finalizeExecution.ts, index.ts).                                  *)
(***************************************************************************)
THEOREM StreamsTellTheOutcome == Spec => []StreamTellsOutcome
<1>1. Init => StatusInv
  BY DEF Init, StatusInv, StatusOk
<1>2. LockInv /\ TypeOK /\ StatusInv /\ [Next]_vars => StatusInv'
  <2> SUFFICES ASSUME LockInv, TypeOK, StatusInv, [Next]_vars PROVE StatusInv'
    OBVIOUS
  <2>1. ASSUME NEW e \in Executions, Step(e) \/ Query(e) \/ CloseMemory(e) \/ Answer(e)
        PROVE  StatusInv'
    BY <2>1, StatusSteps
  <2>2. CASE Expire \/ LoseTranscript \/ UNCHANGED vars
    BY <2>2 DEF Expire, LoseTranscript, vars, streamVars, StatusInv, StatusOk
  <2> QED BY <2>1, <2>2 DEF Next
<1>3. LockInv /\ StatusInv => StreamTellsOutcome
  BY DEF LockInv, LockOk, StatusInv, StatusOk, StatusOf, StreamTellsOutcome, Ended
<1> QED BY <1>1, <1>2, <1>3, LockCorrect, TaskTypeCorrect, PTL DEF Spec

=============================================================================
