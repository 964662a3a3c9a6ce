--------------------------- MODULE DurableRecord ---------------------------
(***************************************************************************)
(* What Postgres keeps of one chat session for the Postgres Session Memory *)
(* node: the row of claude_full_sessions holding the session's content,    *)
(* the rows of claude_session_events holding its lines, and the rows of    *)
(* the invocation observability table.  The operators are the statements   *)
(* of fullSessionPersistence.ts and observabilityPostgres.ts, each sent    *)
(* by `pool.query`.  A writer awaits every statement and its pool hands    *)
(* out the connection returned last, so that BEGIN, the statements after   *)
(* it and COMMIT meet on one connection; a statement that fails destroys   *)
(* its connection and the transaction with it.  Writes of a transaction    *)
(* become visible at COMMIT; the writer of the session's row holds its     *)
(* lock until then.                                                        *)
(***************************************************************************)
EXTENDS Naturals, Sequences

CONSTANTS
    Writer,     \* the n8n processes that write
    NoRow       \* no row, or rows not touched by this transaction

VARIABLES
    schema,     \* the tables created so far
    db,         \* what is committed: the content, the event rows, the summaries
    txn         \* the transaction each writer's query connection has open

recordVars == <<schema, db, txn>>

Tables == {"sessions", "full", "events", "observability"}

NoTxn == [open |-> FALSE, full |-> NoRow, events |-> NoRow, deleted |-> 0, obs |-> {}]

RecordInit ==
    /\ schema = {}
    /\ db = [full |-> NoRow, events |-> <<>>, obs |-> {}]
    /\ txn = [w \in Writer |-> NoTxn]

(* ensureFullSessionSchema, ensureSessionEventsSchema, ensureSchema: a     *)
(* table that is there is validated, a missing one created with its        *)
(* indexes, outside any transaction.                                       *)
EnsureTables(tables) ==
    /\ schema' = schema \cup tables
    /\ UNCHANGED <<db, txn>>

Begin(w) ==
    /\ txn' = [txn EXCEPT ![w] = [NoTxn EXCEPT !.open = TRUE]]
    /\ UNCHANGED <<schema, db>>

(* Another writer's uncommitted UPDATE or INSERT holds the row's lock.     *)
RowLocked(w) == \E o \in Writer \ {w} : txn[o].full # NoRow

(* A statement belongs to the open transaction; without one it is          *)
(* committed on its own.                                                   *)
Write(w, field, value) ==
    /\ IF txn[w].open
       THEN txn' = [txn EXCEPT ![w] = [@ EXCEPT ![field] = value]] /\ UNCHANGED db
       ELSE db' = [db EXCEPT ![field] = value] /\ UNCHANGED txn
    /\ UNCHANGED schema

Seen(w, field) ==
    IF txn[w].open /\ txn[w][field] # NoRow THEN txn[w][field] ELSE db[field]

(* upsertFullSession: UPDATE waits for the row's lock; without a committed *)
(* row it changes nothing.  The INSERT after it waits for an uncommitted   *)
(* row and conflicts with a committed one.                                 *)
UpdateRow(w, content) ==
    /\ db.full # NoRow
    /\ ~RowLocked(w)
    /\ Write(w, "full", content)

UpdateMisses == db.full = NoRow /\ UNCHANGED recordVars

InsertRow(w, content) ==
    /\ db.full = NoRow
    /\ ~RowLocked(w)
    /\ Write(w, "full", content)

InsertConflicts(w) == db.full # NoRow /\ ~RowLocked(w)

(* replaceSessionEvents: the rows of the session that are committed by now *)
(* are deleted and one row is inserted per line; a row with the same       *)
(* number is overwritten.                                                  *)
DeleteEvents(w) ==
    /\ IF txn[w].open
       THEN /\ txn' = [txn EXCEPT ![w].events = <<>>, ![w].deleted = Len(db.events)]
            /\ UNCHANGED db
       ELSE /\ db' = [db EXCEPT !.events = <<>>]
            /\ UNCHANGED txn
    /\ UNCHANGED schema

PutRow(rows, seq, line) ==
    IF seq <= Len(rows) THEN [rows EXCEPT ![seq] = line] ELSE Append(rows, line)

InsertEvent(w, seq, line) == Write(w, "events", PutRow(Seen(w, "events"), seq, line))

(* buildEventRows: the rows of one invocation, all with its terminal       *)
(* status; the invocation id is new at every call, so nothing conflicts.   *)
EventRows(item, status) == {<<item, status>>}

InsertObservability(w, item, status) ==
    Write(w, "obs", (IF txn[w].open THEN txn[w].obs ELSE db.obs) \cup EventRows(item, status))

(* Rows that another writer committed after the DELETE stay.               *)
CommittedEvents(w) ==
    IF txn[w].events = NoRow THEN db.events
    ELSE txn[w].events \o SubSeq(db.events, txn[w].deleted + 1, Len(db.events))

Commit(w) ==
    /\ db' = [full   |-> IF txn[w].full # NoRow THEN txn[w].full ELSE db.full,
              events |-> CommittedEvents(w),
              obs    |-> db.obs \cup txn[w].obs]
    /\ txn' = [txn EXCEPT ![w] = NoTxn]
    /\ UNCHANGED schema

(* The connection is destroyed, by a failed statement or by the end of its *)
(* process, or ROLLBACK is sent.                                           *)
Abort(w) ==
    /\ txn' = [txn EXCEPT ![w] = NoTxn]
    /\ UNCHANGED <<schema, db>>

=============================================================================
