--------------------------- MODULE MCTaskExecution ---------------------------
(***************************************************************************)
(* Small instances of TaskExecution; executions are interchangeable, and   *)
(* so are the session ids other than the chat session's own.               *)
(***************************************************************************)
EXTENDS TaskExecution, TLC

MCSymmetry == Permutations(Executions) \cup Permutations(Sessions \ {Chat})
=============================================================================
