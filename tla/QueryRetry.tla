------------------------------ MODULE QueryRetry ------------------------------
(***************************************************************************)
(* The options of one agent query that choose its session, and how         *)
(* runAgentExecution changes them between two queries of one execution.    *)
(***************************************************************************)
EXTENDS SessionMemory

(***************************************************************************)
(* resume continues a session, sessionId asks for a new one with that id,  *)
(* at names the message to resume at (here: the session that holds it),    *)
(* managed is the session the managed-agent adapter is given.              *)
(***************************************************************************)
Options == [resume : OrNone, sessionId : OrNone, at : OrNone, managed : OrNone]
NoOptions == [resume |-> None, sessionId |-> None, at |-> None, managed |-> None]

(***************************************************************************)
(* What a query can fail with, as far as the code tells errors apart:      *)
(* "lookup" (no message with the uuid to resume at), "collision" (the      *)
(* session id is already in use), "retryable" (another failure taken for a *)
(* failed resume: exit code 1, an invalid thinking signature), "hard".     *)
(***************************************************************************)
ErrorKinds == {"lookup", "collision", "retryable", "hard"}
FreshRetryable(kind) == kind \in {"collision", "retryable"}

\* A query that resumes never carries the options of a new session.
ResumeOptions(o, s) == [o EXCEPT !.resume = s, !.sessionId = None]
SessionOptions(resume, chat) ==
    IF resume # None THEN ResumeOptions(NoOptions, resume)
    ELSE [NoOptions EXCEPT !.sessionId = chat]

\* The bootstrap of the deterministic session met an existing one.
BootstrapCollided(o, kind) ==
    o.resume = None /\ o.sessionId # None /\ kind = "collision"
BootstrapResume(o) ==
    [o EXCEPT !.resume = o.sessionId, !.sessionId = None, !.at = None]

\* A missing resume point is retried without it; fresh is not for a resume from an answer.
RecoveryAction(o, kind, approvalResume) ==
    IF o.resume # None /\ o.at # None /\ kind = "lookup" THEN "retry_plain_resume"
    ELSE IF o.resume # None /\ ~approvalResume /\ FreshRetryable(kind) THEN "retry_fresh"
    ELSE "rethrow"
PlainResume(o) == [o EXCEPT !.at = None]
Fresh(o) == [o EXCEPT !.resume = None, !.sessionId = None, !.at = None]

\* Mutant: so may a resume from an answer whose stream was empty.
EmptyRetryFresh(o, approvalResume) == [o EXCEPT !.resume = None, !.at = None]
\* After an empty stream: fresh if it was a resume of the task itself, else the same query.
EmptyRetry(o, approvalResume) ==
    IF o.resume # None /\ ~approvalResume
    THEN [o EXCEPT !.resume = None, !.at = None] ELSE o
=============================================================================
