---------------------------- MODULE SessionMemory ----------------------------
(***************************************************************************)
(* What a Session Memory node keeps for one chat session: whether there is *)
(* an entry, and the managed-agent session it names.  The working          *)
(* directory of an entry is left out: nothing is decided by it.  Postgres  *)
(* memory alone can forget an entry and offers the execution lock; Redis   *)
(* and Simple memory let entries expire.                                   *)
(***************************************************************************)
CONSTANTS Sessions,  \* ids of Claude sessions, local or managed
          None

ASSUME NoneAssumption == None \notin Sessions

OrNone == Sessions \cup {None}
Entries == [there : BOOLEAN, managed : OrNone]
NoEntry == [there |-> FALSE, managed |-> None]

MemoryKinds == {"postgres", "redis", "simple"}
HasLock(memory) == memory = "postgres"
HasForget(memory) == memory = "postgres"
HasExpiry(memory) == memory # "postgres"
\* Mutant: a touch replaces the whole entry.
TouchReplaces(entry, managed) == [there |-> TRUE]
\* A touch without a managed session keeps the one of the entry.
Touch(entry, managed) ==
    [there |-> TRUE, managed |-> IF managed = None THEN entry.managed ELSE managed]
\* forget is optional: without it the caller leaves the entry as it is.
Forget(memory, entry) == IF HasForget(memory) THEN NoEntry ELSE entry
=============================================================================
