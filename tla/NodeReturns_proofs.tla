------------------------- MODULE NodeReturns_proofs -------------------------
(***************************************************************************)
(* An item that returned over a connected session memory is on record: its *)
(* observability rows with its status, and the turn it added to the chat   *)
(* session in the archive, where it stays whoever writes the session next. *)
(* The first half follows the item's own flush; the second rests on the    *)
(* execution lock, under which one writer at a time reads the transcript   *)
(* and files it, and on the row lock, which holds back the COMMIT of a     *)
(* process that stopped.                                                   *)
(***************************************************************************)
EXTENDS NodeItems_proofs

(* What a step leaves alone: the other workers, the rows that are there,   *)
(* and the archive, unless it commits the content of its transaction.      *)
Frame(w) ==
    /\ Apart(w)
    /\ \A v \in Writer \ {w} : txn'[v] = txn[v]
    /\ db.obs \subseteq db'.obs
    /\ db'.full = db.full \/ (txn[w].full # NoRow /\ db'.full = txn[w].full)

LEMMA QuietFrame ==
    ASSUME RecordInv, NEW w \in Writer,
           \/ PassThrough(w) \/ BeginItem(w) \/ FinishNode(w) \/ CloseNode(w)
           \/ EnsureReady(w) \/ SupplyMemory(w) \/ MissMemory(w) \/ AcquireLock(w)
           \/ ResolveSession(w) \/ RecordStarted(w) \/ RunAgent(w) \/ PersistMetadata(w)
           \/ ReadContent(w) \/ CreateTables(w) \/ Flush(w) \/ CreateObservabilityTable(w)
           \/ ReleaseLock(w) \/ RecordCompleted(w) \/ RecordFailed(w) \/ ReturnItem(w)
           \/ CatchItem(w) \/ Crash(w) \/ ReapLock(w)
    PROVE  Frame(w) /\ txn' = txn /\ db' = db
BY QuietActions DEF Frame, Apart

LEMMA OpenFrame ==
    ASSUME RecordInv, NEW w \in Writer,
           \/ BeginRecord(w) \/ UpdateFull(w) \/ InsertFull(w) \/ DeleteLines(w)
           \/ InsertLine(w) \/ BeginObservability(w) \/ WriteObservability(w)
    PROVE  Frame(w) /\ db' = db
<1>0. /\ TypeOK /\ run \in [Writer -> Runs] /\ node \in [Writer -> Nodes]
      /\ txn \in [Writer -> Txns] /\ ShapeOf(w)
  BY DEF RecordInv, TypeOK
<1>1. CASE BeginRecord(w) \/ BeginObservability(w)
  BY <1>0, <1>1, GotoStep DEF BeginRecord, BeginObservability, Begin, Frame, Apart
<1>2. CASE WriteObservability(w)
  <2>1. run' = run BY <1>2 DEF WriteObservability
  <2> QED BY <1>2, <2>1, ObservabilityStep DEF Frame, Apart
<1>3. CASE UpdateFull(w) \/ InsertFull(w) \/ DeleteLines(w) \/ InsertLine(w)
  <2>1. /\ node[w].up /\ txn[w].open /\ node[w].pc \in {"update", "insert", "delete", "lines"}
    BY <1>0, <1>3 DEF UpdateFull, InsertFull, DeleteLines, InsertLine, At, ShapeOf, InTxn
  <2>2. db' = db /\ \A v \in Writer \ {w} : txn'[v] = txn[v]
    <3>1. CASE \E v : Write(w, "full", v) \/ Write(w, "events", v)
      BY <1>0, <2>1, <3>1, OpenWrites DEF Txns
    <3>2. CASE UNCHANGED recordVars BY <3>2 DEF recordVars
    <3>3. CASE Abort(w) BY <1>0, <3>3 DEF Abort
    <3>4. CASE DeleteEvents(w) BY <1>0, <2>1, <3>4 DEF DeleteEvents, Txns
    <3> QED BY <1>3, <3>1, <3>2, <3>3, <3>4
            DEF UpdateFull, InsertFull, DeleteLines, InsertLine, UpdateRow, InsertRow,
                UpdateMisses, InsertEvent
  <2>3. \A v \in Writer \ {w} : node'[v] = node[v]
    BY <1>0, <1>3, GotoStep DEF UpdateFull, InsertFull, DeleteLines, InsertLine, Throw
  <2>4. \A v \in Writer \ {w} : run'[v] = run[v]
    BY <1>0, <1>3 DEF UpdateFull, InsertFull, DeleteLines, InsertLine, Throw
  <2> QED BY <2>2, <2>3, <2>4 DEF Frame, Apart
<1> QED BY <1>1, <1>2, <1>3

LEMMA EndFrame ==
    ASSUME RecordInv, NEW w \in Writer,
           \/ CommitRecord(w) \/ CommitObservability(w) \/ RecordFails(w)
           \/ ObservabilityFails(w) \/ ReapTransaction(w)
    PROVE  Frame(w) /\ txn'[w] = NoTxn
<1>0. TypeOK /\ run \in [Writer -> Runs] /\ txn \in [Writer -> Txns]
  BY DEF RecordInv, TypeOK
<1>1. Apart(w)
  BY <1>0, GotoStep
     DEF CommitRecord, CommitObservability, RecordFails, ObservabilityFails, ReapTransaction,
         Throw, Apart
<1>2. Commit(w) \/ Abort(w)
  BY DEF CommitRecord, CommitObservability, RecordFails, ObservabilityFails, ReapTransaction
<1> QED BY <1>0, <1>1, <1>2 DEF Commit, Abort, Frame

LEMMA FrameStep ==
    ASSUME RecordInv, NEW w \in Writer, Step(w) \/ Stop(w)
    PROVE  Frame(w)
BY QuietFrame, OpenFrame, EndFrame DEF Step, Stop
----------------------------------------------------------------------------
(* The rows of an item on the way to its return.                           *)
RowOf(w) ==
    /\ node[w].pc = "flush" /\ run[w].error = "none" => ~run[w].flushed
    /\ node[w].pc = "obsCommit" /\ txn[w].open =>
          <<Current(w), TerminalStatus(w)>> \in txn[w].obs
    /\ node[w].pc \in {"release", "tell", "return"} /\ run[w].error = "none" /\ run[w].memory =>
          <<Current(w), TerminalStatus(w)>> \in db.obs

RowsReturned ==
    \A i \in AllItems :
        ended[i].how \in {"completed", "paused"} /\ ended[i].durable =>
            <<i, IF ended[i].how = "paused" THEN "paused_hitl" ELSE "completed">> \in db.obs

RowsInv == RowsReturned /\ \A w \in Writer : RowOf(w)

LEMMA RowsStay ==
    ASSUME RowsInv, NEW w \in Writer, Frame(w), RowsReturned', RowOf(w)'
    PROVE  RowsInv'
<1>1. ASSUME NEW v \in Writer \ {w} PROVE RowOf(v)'
  <2>1. RowOf(v) BY DEF RowsInv
  <2> QED BY <2>1 DEF RowOf, Frame, Apart, Current, TerminalStatus
<1> QED BY <1>1 DEF RowsInv

(* Every step but the item's end.                                          *)
LEMMA ReturnedStay ==
    ASSUME RowsInv, NEW w \in Writer, Frame(w), UNCHANGED ended
    PROVE  RowsReturned'
<1>1. AllItems' = AllItems BY DEF AllItems
<1> QED BY <1>1 DEF RowsInv, RowsReturned, Frame

LEMMA EndedStays ==
    ASSUME NEW w \in Writer, Step(w) \/ Stop(w), ~(ReturnItem(w) \/ CatchItem(w) \/ PassThrough(w))
    PROVE  ended' = ended
BY DEF Step, Stop, BeginItem, FinishNode, CloseNode, EnsureReady, SupplyMemory, MissMemory,
       AcquireLock, ResolveSession, RecordStarted, RunAgent, PersistMetadata, ReadContent,
       CreateTables, BeginRecord, UpdateFull, InsertFull, DeleteLines, InsertLine, CommitRecord,
       RecordFails, Flush, CreateObservabilityTable, BeginObservability, WriteObservability,
       CommitObservability, ObservabilityFails, ReleaseLock, RecordCompleted, RecordFailed,
       Crash, ReapLock, ReapTransaction

(* The places after an item's session was committed or was not to be.      *)
After == {"flush", "release", "tell", "return"} \cup Observing

LEMMA LeadsBefore ==
    ASSUME TypeOK, NEW w \in Writer,
           \/ PassThrough(w) \/ BeginItem(w) \/ FinishNode(w) \/ CloseNode(w)
           \/ EnsureReady(w) \/ SupplyMemory(w) \/ MissMemory(w) \/ AcquireLock(w)
           \/ ResolveSession(w) \/ RecordStarted(w) \/ PersistMetadata(w) \/ ReadContent(w)
           \/ CreateTables(w) \/ BeginRecord(w) \/ UpdateFull(w) \/ InsertFull(w)
           \/ DeleteLines(w) \/ InsertLine(w) \/ RecordFails(w) \/ ReturnItem(w)
           \/ CatchItem(w)
    PROVE  node'[w].pc \notin After
<1>0. node \in [Writer -> Nodes] BY DEF TypeOK
<1>1. ASSUME NEW pc, pc \notin After, Goto(w, pc) PROVE node'[w].pc \notin After
  BY <1>1, GotoStep
<1>2. ASSUME NEW kind, Throw(w, kind) PROVE node'[w].pc \notin After
  BY <1>2, ThrowStep DEF After, Observing
<1>3. ASSUME ThrowOutside(w) PROVE node'[w].pc \notin After
  BY <1>3, GotoStep DEF After, Observing, ThrowOutside
<1>4. ASSUME NEW how, NEW pc \in {"next", "end"}, EndItem(w, how, pc)
      PROVE  node'[w].pc \notin After
  <2>1. node'[w].pc = pc BY <1>4, PlaceStep DEF EndItem
  <2> QED BY <2>1 DEF After, Observing
<1>5. CASE PassThrough(w)
  BY <1>0, <1>5 DEF PassThrough, At, Nodes, After, Observing
<1>6. CASE InsertLine(w)
  BY <1>6 DEF InsertLine, At, After, Observing
<1>7. CASE \/ BeginItem(w) \/ FinishNode(w) \/ CloseNode(w) \/ EnsureReady(w)
           \/ SupplyMemory(w) \/ MissMemory(w) \/ AcquireLock(w) \/ ResolveSession(w)
           \/ RecordStarted(w) \/ PersistMetadata(w) \/ ReadContent(w)
  BY <1>1, <1>2, <1>3, <1>7
     DEF BeginItem, FinishNode, CloseNode, EnsureReady, SupplyMemory, MissMemory, AcquireLock,
         ResolveSession, RecordStarted, PersistMetadata, ReadContent, After, Observing
<1>8. CASE \/ CreateTables(w) \/ BeginRecord(w) \/ UpdateFull(w) \/ InsertFull(w)
           \/ DeleteLines(w) \/ RecordFails(w)
  BY <1>1, <1>2, <1>8
     DEF CreateTables, BeginRecord, UpdateFull, InsertFull, DeleteLines, RecordFails, After,
         Observing
<1>9. CASE ReturnItem(w) \/ CatchItem(w)
  <2>1. \E how, pc : pc \in {"next", "end"} /\ EndItem(w, how, pc)
    BY <1>9 DEF ReturnItem, CatchItem
  <2> QED BY <1>4, <2>1
<1> QED BY <1>5, <1>6, <1>7, <1>8, <1>9

LEMMA RowsQuiet ==
    ASSUME TypeOK, NEW w \in Writer,
           \/ node'[w].pc \notin After
           \/ CreateObservabilityTable(w) \/ BeginObservability(w)
    PROVE  RowOf(w)'
<1>1. node'[w].pc \notin {"flush", "obsCommit", "release", "tell", "return"}
  BY GotoStep DEF CreateObservabilityTable, BeginObservability, After, Observing
<1> QED BY <1>1 DEF RowOf

(* The flush and what follows it.                                          *)
LEMMA RowsSettle ==
    ASSUME RecordInv, OutcomeInv, PlaneInv, RowsInv, NEW w \in Writer,
           \/ RunAgent(w) \/ CommitRecord(w) \/ RecordFailed(w) \/ Flush(w)
           \/ WriteObservability(w) \/ CommitObservability(w) \/ ObservabilityFails(w)
           \/ ReleaseLock(w) \/ RecordCompleted(w) \/ Stop(w)
    PROVE  RowOf(w)'
<1>0. /\ TypeOK /\ node \in [Writer -> Nodes] /\ run \in [Writer -> Runs]
      /\ txn \in [Writer -> Txns] /\ db \in Dbs
      /\ RowOf(w) /\ OutcomeOf(w) /\ ErrorOf(w) /\ ShapeOf(w)
  BY DEF RecordInv, TypeOK, RowsInv, OutcomeInv, PlaneInv
<1>1. CASE RunAgent(w)
  <2>1. /\ node[w].pc = "agent" /\ ~run[w].flushed
    BY <1>0, <1>1 DEF RunAgent, At, OutcomeOf, Early
  <2>2. CASE \E kind : Throw(w, kind)
    <3>1. node'[w].pc = "catch" BY <1>0, <2>2, ThrowStep
    <3> QED BY <3>1 DEF RowOf
  <2>3. CASE \E pc, x, y : /\ pc \in {"flush", "content", "metadata"} /\ Goto(w, pc)
                           /\ run' = [run EXCEPT ![w].inChat = x, ![w].result = y]
    <3>1. node'[w].pc \in {"flush", "content", "metadata"} BY <1>0, <2>3, GotoStep
    <3>2. ~run'[w].flushed BY <1>0, <2>1, <2>3 DEF Runs
    <3> QED BY <3>1, <3>2 DEF RowOf
  <2> QED BY <1>1, <2>2, <2>3 DEF RunAgent
<1>2. CASE CommitRecord(w)
  <2>1. ~run[w].flushed BY <1>0, <1>2 DEF CommitRecord, At, OutcomeOf, Early
  <2>2. node'[w].pc = "flush" BY <1>0, <1>2, GotoStep DEF CommitRecord
  <2>3. ~run'[w].flushed BY <1>0, <1>2, <2>1 DEF CommitRecord, Runs
  <2> QED BY <2>2, <2>3 DEF RowOf
<1>3. CASE RecordFailed(w)
  <2>1. run[w].error # "none" /\ run' = run BY <1>0, <1>3 DEF RecordFailed, At, ErrorOf
  <2>2. node'[w].pc = "flush" BY <1>0, <1>3, GotoStep DEF RecordFailed
  <2> QED BY <2>1, <2>2 DEF RowOf
<1>4. CASE Flush(w)
  <2>1. /\ node[w].pc = "flush"
        /\ run'[w].error = run[w].error /\ run'[w].memory = run[w].memory
    BY <1>0, <1>4 DEF Flush, At, Runs
  <2>2. \/ node'[w].pc = "obsTables"
        \/ node'[w].pc = "release" /\ ~(run[w].memory /\ ~run[w].flushed)
    BY <1>0, <1>4, GotoStep DEF Flush
  <2>3. run[w].error = "none" /\ node'[w].pc = "release" => ~run[w].memory
    BY <1>0, <2>1, <2>2 DEF RowOf
  <2> QED BY <2>1, <2>2, <2>3 DEF RowOf
<1>5. CASE WriteObservability(w)
  <2>1. /\ txn'[w].obs = txn[w].obs \cup {<<Current(w), TerminalStatus(w)>>}
        /\ node'[w].pc = "obsCommit" /\ node'[w].item = node[w].item /\ run' = run
    BY <1>5, ObservabilityStep DEF WriteObservability
  <2>2. Current(w)' = Current(w) /\ TerminalStatus(w)' = TerminalStatus(w)
    BY <2>1 DEF Current, TerminalStatus
  <2> QED BY <2>1, <2>2 DEF RowOf
<1>6. CASE CommitObservability(w)
  <2>1. /\ node[w].pc = "obsCommit" /\ run' = run /\ txn[w].open
        /\ db'.obs = db.obs \cup txn[w].obs
    BY <1>0, <1>6 DEF CommitObservability, Commit, At, ShapeOf, InTxn
  <2>2. node'[w].pc = "release" /\ node'[w].item = node[w].item
    BY <1>0, <1>6, GotoStep DEF CommitObservability
  <2>3. Current(w)' = Current(w) /\ TerminalStatus(w)' = TerminalStatus(w)
    BY <2>1, <2>2 DEF Current, TerminalStatus
  <2>4. <<Current(w), TerminalStatus(w)>> \in db'.obs BY <1>0, <2>1 DEF RowOf
  <2> QED BY <2>2, <2>3, <2>4 DEF RowOf
<1>7. CASE ObservabilityFails(w)
  <2>1. CASE Throw(w, "other")
    <3>1. node'[w].pc = "catch" BY <1>0, <2>1, ThrowStep
    <3> QED BY <3>1 DEF RowOf
  <2>2. CASE run[w].error # "none" /\ Goto(w, "release") /\ run' = run
    <3>1. node'[w].pc = "release" BY <1>0, <2>2, GotoStep
    <3> QED BY <2>2, <3>1 DEF RowOf
  <2> QED BY <1>7, <2>1, <2>2 DEF ObservabilityFails
<1>8. CASE ReleaseLock(w)
  <2>1. /\ node[w].pc = "release" /\ db' = db /\ txn' = txn
        /\ run'[w].error = run[w].error /\ run'[w].memory = run[w].memory
        /\ run'[w].result = run[w].result
    BY <1>0, <1>8 DEF ReleaseLock, At, Runs, recordVars
  <2>2. node'[w].pc \in {"thrown", "tell"} /\ node'[w].item = node[w].item
    BY <1>0, <1>8, GotoStep DEF ReleaseLock
  <2>3. Current(w)' = Current(w) /\ TerminalStatus(w)' = TerminalStatus(w)
    BY <2>1, <2>2 DEF Current, TerminalStatus
  <2> QED BY <1>0, <2>1, <2>2, <2>3 DEF RowOf
<1>9. CASE RecordCompleted(w)
  <2>1. node[w].pc = "tell" /\ db' = db /\ txn' = txn /\ run' = run
    BY <1>9 DEF RecordCompleted, At, recordVars
  <2>2. node'[w].pc = "return" /\ node'[w].item = node[w].item
    BY <1>0, <1>9, GotoStep DEF RecordCompleted
  <2>3. Current(w)' = Current(w) /\ TerminalStatus(w)' = TerminalStatus(w)
    BY <2>1, <2>2 DEF Current, TerminalStatus
  <2> QED BY <1>0, <2>1, <2>2, <2>3 DEF RowOf
<1>10. CASE Stop(w)
  <2>1. /\ run' = run /\ db.obs \subseteq db'.obs
        /\ node' = node \/ node' = [node EXCEPT ![w].up = FALSE]
        /\ txn'[w] = txn[w] \/ txn'[w] = NoTxn
    BY <1>0, <1>10, FrameStep
       DEF Stop, Crash, ReapLock, ReapTransaction, Commit, Abort, recordVars, Frame
  <2>2. node'[w].item = node[w].item /\ node'[w].pc = node[w].pc
    BY <1>0, <2>1 DEF Nodes
  <2>3. Current(w)' = Current(w) /\ TerminalStatus(w)' = TerminalStatus(w)
    BY <2>1, <2>2 DEF Current, TerminalStatus
  <2> QED BY <1>0, <2>1, <2>2, <2>3 DEF RowOf, NoTxn
<1> QED BY <1>1, <1>2, <1>3, <1>4, <1>5, <1>6, <1>7, <1>8, <1>9, <1>10

(* An item's end: its row is there.                                        *)
LEMMA RowsEnd ==
    ASSUME RecordInv, PlaneInv, RowsInv, NEW w \in Writer,
           ReturnItem(w) \/ CatchItem(w) \/ PassThrough(w)
    PROVE  RowsReturned'
<1>0. /\ TypeOK /\ ended \in [AllItems -> Ends] /\ RowOf(w) /\ ErrorOf(w)
  BY DEF RecordInv, TypeOK, RowsInv, PlaneInv
<1>1. AllItems' = AllItems BY DEF AllItems
<1>2. db' = db /\ \A i \in AllItems : i # Current(w) => ended'[i] = ended[i]
  BY <1>0 DEF ReturnItem, CatchItem, PassThrough, EndItem, recordVars
<1>3. SUFFICES ASSUME Current(w) \in AllItems,
                      ended'[Current(w)].how \in {"completed", "paused"},
                      ended'[Current(w)].durable
               PROVE  <<Current(w), IF ended'[Current(w)].how = "paused"
                                    THEN "paused_hitl" ELSE "completed">> \in db.obs
  BY <1>1, <1>2 DEF RowsInv, RowsReturned
<1>4. CASE CatchItem(w)
  <2>1. ended'[Current(w)].how = "failed" BY <1>0, <1>3, <1>4 DEF CatchItem, EndItem
  <2> QED BY <1>3, <2>1
<1>5. CASE PassThrough(w)
  <2>1. ended'[Current(w)].how = "passed" BY <1>0, <1>3, <1>5 DEF PassThrough, Ends
  <2> QED BY <1>3, <2>1
<1>6. CASE ReturnItem(w)
  <2>1. node[w].pc = "return" /\ run[w].error = "none"
    BY <1>0, <1>6 DEF ReturnItem, At, ErrorOf
  <2>2. PICK how, pc : /\ EndItem(w, how, pc)
                       /\ how = "paused" <=> run[w].result = "paused"
    BY <1>6 DEF ReturnItem
  <2>3. ended'[Current(w)].how = how /\ ended'[Current(w)].durable = run[w].memory
    BY <1>0, <1>3, <2>2 DEF EndItem
  <2>4. TerminalStatus(w) = IF how = "paused" THEN "paused_hitl" ELSE "completed"
    BY <2>1, <2>2 DEF TerminalStatus
  <2> QED BY <1>0, <1>3, <2>1, <2>3, <2>4 DEF RowOf
<1> QED BY <1>4, <1>5, <1>6

LEMMA RowsInitially == Init => RowsInv
<1> SUFFICES ASSUME Init PROVE RowsInv OBVIOUS
<1>1. RowsReturned BY DEF Init, RowsReturned
<1>2. ASSUME NEW w \in Writer PROVE RowOf(w)
  BY DEF Init, RowOf
<1> QED BY <1>1, <1>2 DEF RowsInv

LEMMA RowsPreserved == RecordInv /\ OutcomeInv /\ PlaneInv /\ RowsInv /\ [Next]_vars => RowsInv'
<1> SUFFICES ASSUME RecordInv, OutcomeInv, PlaneInv, RowsInv, [Next]_vars PROVE RowsInv'
  OBVIOUS
<1>1. ASSUME NEW w \in Writer, Step(w) \/ Stop(w) PROVE RowsInv'
  <2>1. Frame(w) BY <1>1, FrameStep
  <2>2. RowOf(w)' BY <1>1, LeadsBefore, RowsQuiet, RowsSettle DEF Step, RecordInv
  <2>3. RowsReturned'
    <3>1. CASE ReturnItem(w) \/ CatchItem(w) \/ PassThrough(w) BY <3>1, RowsEnd
    <3>2. CASE ended' = ended BY <2>1, <3>2, ReturnedStay
    <3> QED BY <1>1, <3>1, <3>2, EndedStays
  <2> QED BY <2>1, <2>2, <2>3, RowsStay
<1>2. CASE UNCHANGED vars
  BY <1>2 DEF RowsInv, RowsReturned, RowOf, AllItems, Current, TerminalStatus, vars, recordVars
<1> QED BY <1>1, <1>2 DEF Next

----------------------------------------------------------------------------
(* Whose turn the archive owes: an item that returned, and one that is on  *)
(* its way to return after its session was committed.                      *)
Has(rows, i) == rows # NoRow /\ \E n \in 1 .. Len(rows) : rows[n] = i

Owed(w) == node[w].pc \in After /\ run[w].error = "none" /\ run[w].memory /\ run[w].inChat

Returned(i) == ended[i].how \in {"completed", "paused"} /\ ended[i].durable /\ ended[i].inChat
Kept(i) == Returned(i) \/ \E w \in Writer : i = Current(w) /\ Owed(w)

(* The places at which a worker has read what it files, and those before,  *)
(* at which it holds the execution lock already.                           *)
Filing == {"tables", "begin", "update", "insert", "delete", "lines"}

(* Who holds the lock, and where an item's turn is.                        *)
HeldBy(w) ==
    /\ node[w].pc \in {"next", "end"} => run[w] = NoRun
    /\ node[w].pc \in {"ready", "memory"} => ~run[w].memory
    /\ node[w].up /\ node[w].pc \in {"start", "agent"} /\ run[w].memory => lock = w
    /\ node[w].up /\ node[w].pc \in {"resolve", "metadata", "content"} \cup Filing => lock = w
    /\ node[w].up /\ run[w].locked => lock = w
    /\ run[w].inChat => Has(transcript, Current(w))

(* What a worker is about to write contains everything owed, also when the *)
(* worker stopped and only its COMMIT is still on its way.                 *)
FileOf(w) ==
    /\ node[w].up /\ node[w].pc \in Filing =>
          \A i \in AllItems :
             Kept(i) \/ (i = Current(w) /\ run[w].inChat) => Has(run[w].content, i)
    /\ txn[w].full # NoRow => \A i \in AllItems : Kept(i) => Has(txn[w].full, i)

Archived == \A i \in AllItems : Kept(i) => Has(transcript, i) /\ Has(db.full, i)

KeptInv == Archived /\ \A w \in Writer : HeldBy(w) /\ FileOf(w)

(* A worker takes the lock from nobody but itself.                         *)
LEMMA HeldStays ==
    ASSUME KeptInv, NEW w \in Writer, Apart(w), HeldBy(w)',
           lock' = lock \/ lock \in {Free, w},
           \A i : Has(transcript, i) => Has(transcript', i)
    PROVE  \A v \in Writer : HeldBy(v)'
<1>1. ASSUME NEW v \in Writer \ {w} PROVE HeldBy(v)'
  <2>1. HeldBy(v) /\ Free \notin Writer BY ItemsAssumption DEF KeptInv, ItemsAssumption
  <2>2. node[v].up /\ lock = v => lock' = v BY <2>1
  <2> QED BY <2>1, <2>2 DEF HeldBy, Apart, Current
<1> QED BY <1>1

LEMMA HasAppended ==
    ASSUME NEW rows \in Seq(Line), NEW line \in Line
    PROVE  /\ \A i : Has(rows, i) => Has(Append(rows, line), i)
           /\ Has(Append(rows, line), line)
<1>1. /\ Append(rows, line) \in Seq(Line) /\ Len(Append(rows, line)) = Len(rows) + 1
      /\ \A n \in 1 .. Len(rows) : Append(rows, line)[n] = rows[n]
      /\ Append(rows, line)[Len(rows) + 1] = line
  BY AppendProperties
<1>2. Append(rows, line) # NoRow BY <1>1, ItemsAssumption DEF ItemsAssumption, Line
<1>3. ASSUME NEW i, Has(rows, i) PROVE Has(Append(rows, line), i)
  <2>1. PICK n \in 1 .. Len(rows) : rows[n] = i BY <1>3 DEF Has
  <2>2. n \in 1 .. Len(rows) + 1 BY LenProperties
  <2> QED BY <1>1, <1>2, <2>1, <2>2 DEF Has
<1>4. Len(rows) + 1 \in 1 .. Len(rows) + 1 BY LenProperties
<1> QED BY <1>1, <1>2, <1>3, <1>4 DEF Has

(* The turns in the transcript stay there.                                 *)
LEMMA TranscriptGrows ==
    ASSUME TypeOK, NEW w \in Writer, Step(w) \/ Stop(w)
    PROVE  \A i : Has(transcript, i) => Has(transcript', i)
<1>1. transcript \in Seq(Line) /\ Current(w) \in Line BY CurrentType DEF TypeOK
<1>2. transcript' = transcript \/ transcript' = Append(transcript, Current(w))
  <2>1. CASE RunAgent(w) BY <2>1 DEF RunAgent
  <2>2. CASE ~RunAgent(w)
    BY <2>2
       DEF Step, Stop, PassThrough, BeginItem, FinishNode, CloseNode, EnsureReady, SupplyMemory,
           MissMemory, AcquireLock, ResolveSession, RecordStarted, PersistMetadata, ReadContent,
           CreateTables, BeginRecord, UpdateFull, InsertFull, DeleteLines, InsertLine,
           CommitRecord, RecordFails, Flush, CreateObservabilityTable, BeginObservability,
           WriteObservability, CommitObservability, ObservabilityFails, ReleaseLock,
           RecordCompleted, RecordFailed, ReturnItem, CatchItem, Crash, ReapLock, ReapTransaction
  <2> QED BY <2>1, <2>2
<1> QED BY <1>1, <1>2, HasAppended

(* A step that leads past the critical section, or inside it.              *)
Guarded == {"next", "end", "ready", "memory", "resolve", "start", "agent", "metadata", "content"}
              \cup Filing

LEMMA HeldGoes ==
    ASSUME KeptInv, NEW w \in Writer, lock' = lock, node'[w].item = node[w].item,
           node'[w].up => node[w].up,
           run'[w].inChat = run[w].inChat, run'[w].locked => run[w].locked,
           \/ node'[w].pc \notin Guarded
           \/ /\ node[w].pc \in {"metadata", "content"} \cup Filing
              /\ node'[w].pc \in {"metadata", "content"} \cup Filing
           \/ node'[w].pc = node[w].pc /\ run' = run,
           \A i : Has(transcript, i) => Has(transcript', i)
    PROVE  HeldBy(w)'
<1>1. HeldBy(w) /\ Current(w)' = Current(w) BY DEF KeptInv, Current
<1>2. CASE node'[w].pc \notin Guarded BY <1>1, <1>2 DEF HeldBy, Guarded
<1>3. CASE /\ node[w].pc \in {"metadata", "content"} \cup Filing
           /\ node'[w].pc \in {"metadata", "content"} \cup Filing
  BY <1>1, <1>3 DEF HeldBy, Filing
<1>4. CASE node'[w].pc = node[w].pc /\ run' = run
  BY <1>1, <1>4 DEF HeldBy
<1> QED BY <1>2, <1>3, <1>4

LEMMA HeldGoesOn ==
    ASSUME RecordInv, KeptInv, NEW w \in Writer,
           \/ PersistMetadata(w) \/ ReadContent(w) \/ CreateTables(w)
           \/ BeginRecord(w) \/ UpdateFull(w) \/ InsertFull(w) \/ DeleteLines(w)
           \/ InsertLine(w) \/ CommitRecord(w) \/ RecordFails(w) \/ Flush(w)
           \/ CreateObservabilityTable(w) \/ BeginObservability(w) \/ WriteObservability(w)
           \/ CommitObservability(w) \/ ObservabilityFails(w) \/ RecordCompleted(w)
           \/ RecordFailed(w) \/ Crash(w) \/ ReapTransaction(w)
    PROVE  HeldBy(w)' /\ lock' = lock
<1>0. TypeOK /\ node \in [Writer -> Nodes] /\ run \in [Writer -> Runs]
  BY DEF RecordInv, TypeOK
<1>1. lock' = lock /\ transcript' = transcript
  BY DEF PersistMetadata, ReadContent, CreateTables, BeginRecord, UpdateFull, InsertFull,
         DeleteLines, InsertLine, CommitRecord, RecordFails, Flush, CreateObservabilityTable,
         BeginObservability, WriteObservability, CommitObservability, ObservabilityFails,
         RecordCompleted, RecordFailed, Crash, ReapTransaction
<1>2. ASSUME NEW kind, Throw(w, kind) PROVE HeldBy(w)'
  <2>1. node'[w].pc = "catch" /\ node'[w].item = node[w].item /\ node'[w].up = node[w].up
    BY <1>0, <1>2, ThrowStep, GotoStep DEF Throw
  <2>2. run'[w].inChat = run[w].inChat /\ run'[w].locked = run[w].locked
    BY <1>0, <1>2 DEF Throw, Runs
  <2> QED BY <1>1, <2>1, <2>2, HeldGoes DEF Guarded, Filing
<1>3. ASSUME NEW pc, Goto(w, pc),
             \/ pc \notin Guarded
             \/ /\ node[w].pc \in {"metadata", "content"} \cup Filing
                /\ pc \in {"metadata", "content"} \cup Filing,
             run'[w].inChat = run[w].inChat /\ run'[w].locked = run[w].locked
      PROVE  HeldBy(w)'
  <2>1. node'[w].pc = pc /\ node'[w].item = node[w].item /\ node'[w].up = node[w].up
    BY <1>0, <1>3, GotoStep
  <2> QED BY <1>1, <1>3, <2>1, HeldGoes
<1>4. CASE PersistMetadata(w) \/ CreateTables(w) \/ BeginRecord(w) \/ UpdateFull(w) \/ InsertFull(w)
  <2>1. \/ \E kind : Throw(w, kind)
        \/ /\ run' = run /\ node[w].pc \in {"metadata", "content"} \cup Filing
           /\ \E pc \in {"metadata", "content"} \cup Filing : Goto(w, pc)
    BY <1>4 DEF PersistMetadata, CreateTables, BeginRecord, UpdateFull, InsertFull, At, Filing
  <2> QED BY <1>1, <1>2, <1>3, <2>1
<1>5. CASE ReadContent(w) \/ DeleteLines(w) \/ CommitRecord(w)
  <2>1. /\ node[w].pc \in {"metadata", "content"} \cup Filing
        /\ \E pc \in {"flush"} \cup Filing : Goto(w, pc)
    BY <1>5 DEF ReadContent, DeleteLines, CommitRecord, At, Filing
  <2>2. run'[w].inChat = run[w].inChat /\ run'[w].locked = run[w].locked
    BY <1>0, <1>5 DEF ReadContent, DeleteLines, CommitRecord, Runs
  <2> QED BY <1>1, <1>3, <2>1, <2>2 DEF Guarded, Filing
<1>6. CASE InsertLine(w)
  <2>1. node' = node /\ node[w].pc = "lines" BY <1>6 DEF InsertLine, At
  <2>2. run'[w].inChat = run[w].inChat /\ run'[w].locked = run[w].locked
    BY <1>0, <1>6 DEF InsertLine, Runs
  <2> QED BY <1>1, <2>1, <2>2, HeldGoes DEF Filing
<1>7. CASE RecordFails(w) \/ ObservabilityFails(w)
  <2>1. \/ \E kind : Throw(w, kind)
        \/ run' = run /\ Goto(w, "release")
    BY <1>7 DEF RecordFails, ObservabilityFails
  <2> QED BY <1>1, <1>2, <1>3, <2>1 DEF Guarded, Filing
<1>8. CASE Flush(w)
  <2>1. run'[w].inChat = run[w].inChat /\ run'[w].locked = run[w].locked
    BY <1>0, <1>8 DEF Flush, Runs
  <2>2. Goto(w, "obsTables") \/ Goto(w, "release") BY <1>8 DEF Flush
  <2> QED BY <1>1, <1>3, <2>1, <2>2 DEF Guarded, Filing
<1>9. CASE \/ CreateObservabilityTable(w) \/ BeginObservability(w) \/ WriteObservability(w)
           \/ CommitObservability(w) \/ RecordCompleted(w) \/ RecordFailed(w)
  <2>1. /\ run' = run
        /\ \E pc \in {"obsBegin", "obsRows", "obsCommit", "release", "return", "flush"} : Goto(w, pc)
    BY <1>9 DEF CreateObservabilityTable, BeginObservability, WriteObservability,
                CommitObservability, RecordCompleted, RecordFailed
  <2> QED BY <1>1, <1>3, <2>1 DEF Guarded, Filing
<1>10. CASE Crash(w) \/ ReapTransaction(w)
  <2>1. run' = run /\ (node' = node \/ node' = [node EXCEPT ![w].up = FALSE])
    BY <1>10 DEF Crash, ReapTransaction
  <2>2. node'[w].pc = node[w].pc /\ node'[w].item = node[w].item /\ (node'[w].up => node[w].up)
    BY <1>0, <2>1 DEF Nodes
  <2> QED BY <1>1, <2>1, <2>2, HeldGoes
<1> QED BY <1>1, <1>4, <1>5, <1>6, <1>7, <1>8, <1>9, <1>10

(* Into the critical section, and out of it.                               *)
LEMMA HeldEnters ==
    ASSUME RecordInv, KeptInv, NEW w \in Writer,
           \/ PassThrough(w) \/ BeginItem(w) \/ EnsureReady(w) \/ SupplyMemory(w)
           \/ MissMemory(w) \/ AcquireLock(w) \/ ResolveSession(w) \/ RecordStarted(w)
    PROVE  HeldBy(w)' /\ (lock' = lock \/ lock \in {Free, w})
<1>0. /\ TypeOK /\ node \in [Writer -> Nodes] /\ run \in [Writer -> Runs] /\ HeldBy(w)
  BY DEF RecordInv, TypeOK, KeptInv
<1>1. transcript' = transcript
  BY DEF PassThrough, BeginItem, EnsureReady, SupplyMemory, MissMemory, AcquireLock,
         ResolveSession, RecordStarted
<1>2. ASSUME NEW kind, Throw(w, kind), lock' = lock PROVE HeldBy(w)'
  <2>1. node'[w].pc = "catch" /\ node'[w].item = node[w].item /\ node'[w].up = node[w].up
    BY <1>0, <1>2, ThrowStep, GotoStep DEF Throw
  <2>2. run'[w].inChat = run[w].inChat /\ run'[w].locked = run[w].locked
    BY <1>0, <1>2 DEF Throw, Runs
  <2> QED BY <1>1, <1>2, <2>1, <2>2, HeldGoes DEF Guarded, Filing
<1>3. ASSUME ThrowOutside(w), lock' = lock PROVE HeldBy(w)'
  <2>1. node'[w].pc = "thrown" /\ node'[w].item = node[w].item /\ node'[w].up = node[w].up
    BY <1>0, <1>3, GotoStep DEF ThrowOutside
  <2>2. run'[w].inChat = run[w].inChat /\ run'[w].locked = run[w].locked
    BY <1>0, <1>3 DEF ThrowOutside, Runs
  <2> QED BY <1>1, <1>3, <2>1, <2>2, HeldGoes DEF Guarded, Filing
<1>4. CASE PassThrough(w)
  <2>1. node'[w].pc = "next" /\ run' = run /\ lock' = lock /\ node[w].pc = "next"
    BY <1>0, <1>4 DEF PassThrough, At, Nodes
  <2>2. run[w] = NoRun BY <1>0, <2>1 DEF HeldBy
  <2> QED BY <2>1, <2>2 DEF HeldBy, NoRun, Filing
<1>5. CASE BeginItem(w) \/ EnsureReady(w)
  <2>1. lock' = lock BY <1>5 DEF BeginItem, EnsureReady
  <2>2. ~run[w].memory
    BY <1>0, <1>5 DEF BeginItem, EnsureReady, At, HeldBy, NoRun
  <2>3. ASSUME NEW pc \in {"ready", "memory"}, Goto(w, pc), run' = run PROVE HeldBy(w)'
    <3>1. node'[w].pc = pc /\ node'[w].item = node[w].item /\ node'[w].up = node[w].up
      BY <1>0, <2>3, GotoStep
    <3>2. Current(w)' = Current(w) BY <3>1 DEF Current
    <3> QED BY <1>0, <1>1, <2>1, <2>2, <2>3, <3>1, <3>2 DEF HeldBy, Filing
  <2> QED BY <1>3, <1>5, <2>1, <2>3 DEF BeginItem, EnsureReady
<1>6. CASE SupplyMemory(w)
  <2>1. lock' = lock BY <1>6 DEF SupplyMemory
  <2>2. node'[w].pc = "lock" /\ node'[w].item = node[w].item /\ node'[w].up = node[w].up
    BY <1>0, <1>6, GotoStep DEF SupplyMemory
  <2>3. run'[w].inChat = run[w].inChat /\ run'[w].locked = run[w].locked
    BY <1>0, <1>6 DEF SupplyMemory, Runs
  <2> QED BY <1>1, <2>1, <2>2, <2>3, HeldGoes DEF Guarded, Filing
<1>7. CASE MissMemory(w)
  <2>1. lock' = lock /\ run' = run /\ ~run[w].memory
    BY <1>0, <1>7 DEF MissMemory, At, HeldBy
  <2>2. node'[w].pc = "start" /\ node'[w].item = node[w].item /\ node'[w].up = node[w].up
    BY <1>0, <1>7, GotoStep DEF MissMemory
  <2>3. Current(w)' = Current(w) BY <2>2 DEF Current
  <2> QED BY <1>0, <1>1, <2>1, <2>2, <2>3 DEF HeldBy, Filing
<1>8. CASE AcquireLock(w)
  <2>1. CASE lock = Free /\ lock' = w /\ Goto(w, "resolve") /\ run' = run
    <3>1. node'[w].pc = "resolve" /\ node'[w].item = node[w].item /\ node'[w].up = node[w].up
      BY <1>0, <2>1, GotoStep
    <3>2. Current(w)' = Current(w) BY <3>1 DEF Current
    <3> QED BY <1>0, <1>1, <2>1, <3>1, <3>2 DEF HeldBy
  <2>2. CASE lock' = lock /\ \E kind : Throw(w, kind) BY <1>2, <2>2
  <2> QED BY <1>8, <2>1, <2>2 DEF AcquireLock
<1>9. CASE ResolveSession(w)
  <2>1. lock' = lock /\ lock = w BY <1>0, <1>9 DEF ResolveSession, At, HeldBy
  <2>2. CASE \E kind : Throw(w, kind) BY <1>2, <2>1, <2>2
  <2>3. CASE run' = [run EXCEPT ![w].locked = TRUE] /\ Goto(w, "start")
    <3>1. node'[w].pc = "start" /\ node'[w].item = node[w].item
      BY <1>0, <2>3, GotoStep
    <3>2. run'[w].inChat = run[w].inChat BY <1>0, <2>3 DEF Runs
    <3>3. Current(w)' = Current(w) BY <3>1 DEF Current
    <3> QED BY <1>0, <1>1, <2>1, <3>1, <3>2, <3>3 DEF HeldBy
  <2> QED BY <1>9, <2>1, <2>2, <2>3 DEF ResolveSession
<1>10. CASE RecordStarted(w)
  <2>1. lock' = lock /\ node[w].up /\ node[w].pc = "start" BY <1>10 DEF RecordStarted, At
  <2>2. CASE \E kind : Throw(w, kind) BY <1>2, <2>1, <2>2
  <2>3. CASE (run' = run \/ run' = [run EXCEPT ![w].reported = TRUE]) /\ Goto(w, "agent")
    <3>1. node'[w].pc = "agent" /\ node'[w].item = node[w].item
      BY <1>0, <2>3, GotoStep
    <3>2. /\ run'[w].inChat = run[w].inChat /\ run'[w].memory = run[w].memory
          /\ run'[w].locked = run[w].locked
      BY <1>0, <2>3 DEF Runs
    <3>3. Current(w)' = Current(w) BY <3>1 DEF Current
    <3> QED BY <1>0, <1>1, <2>1, <3>1, <3>2, <3>3 DEF HeldBy, Filing
  <2> QED BY <1>10, <2>1, <2>2, <2>3 DEF RecordStarted
<1> QED BY <1>4, <1>5, <1>6, <1>7, <1>8, <1>9, <1>10

LEMMA HeldLeaves ==
    ASSUME RecordInv, KeptInv, NEW w \in Writer,
           \/ RunAgent(w) \/ ReleaseLock(w) \/ ReturnItem(w) \/ CatchItem(w) \/ FinishNode(w)
           \/ CloseNode(w) \/ ReapLock(w)
    PROVE  HeldBy(w)' /\ (lock' = lock \/ lock \in {Free, w})
<1>0. /\ TypeOK /\ node \in [Writer -> Nodes] /\ run \in [Writer -> Runs] /\ HeldBy(w)
      /\ transcript \in Seq(Line) /\ Current(w) \in Line
  BY CurrentType DEF RecordInv, TypeOK, KeptInv
<1>1. CASE RunAgent(w)
  <2>1. lock' = lock /\ node[w].pc = "agent" /\ node[w].up BY <1>1 DEF RunAgent, At
  <2>2. \A i : Has(transcript, i) => Has(transcript', i) BY <1>0, <1>1, TranscriptGrows DEF Step
  <2>3. CASE \E kind : Throw(w, kind)
    <3>1. node'[w].pc = "catch" /\ node'[w].item = node[w].item /\ node'[w].up = node[w].up
      BY <1>0, <2>3, ThrowStep, GotoStep DEF Throw
    <3>2. run'[w].inChat = run[w].inChat /\ run'[w].locked = run[w].locked
      BY <1>0, <2>3 DEF Throw, Runs
    <3> QED BY <2>1, <2>2, <3>1, <3>2, HeldGoes DEF Guarded, Filing
  <2>4. ASSUME NEW inChat \in BOOLEAN, NEW result,
               transcript' = IF inChat THEN Append(transcript, Current(w)) ELSE transcript,
               run' = [run EXCEPT ![w].inChat = inChat, ![w].result = result],
               Goto(w, IF ~run[w].memory
                       THEN "flush"
                       ELSE IF result = "paused" THEN "content" ELSE "metadata")
        PROVE  HeldBy(w)'
    <3>1. /\ node'[w].pc \in {"flush", "content", "metadata"} /\ node'[w].item = node[w].item
          /\ ~run[w].memory => node'[w].pc = "flush"
      BY <1>0, <2>4, GotoStep
    <3>2. run'[w].inChat = inChat /\ run'[w].locked = run[w].locked
      BY <1>0, <2>4 DEF Runs
    <3>3. Current(w)' = Current(w) BY <3>1 DEF Current
    <3>4. inChat => Has(transcript', Current(w)) BY <1>0, <2>4, HasAppended
    <3> QED BY <1>0, <2>1, <3>1, <3>2, <3>3, <3>4 DEF HeldBy, Filing
  <2> QED BY <1>1, <2>1, <2>3, <2>4 DEF RunAgent
<1>2. CASE ReleaseLock(w)
  <2>1. /\ transcript' = transcript /\ (lock' = lock \/ lock = w)
        /\ ~run'[w].locked /\ run'[w].inChat = run[w].inChat
    BY <1>0, <1>2 DEF ReleaseLock, At, HeldBy, Runs
  <2>2. node'[w].pc \in {"thrown", "tell"} /\ node'[w].item = node[w].item
    BY <1>0, <1>2, GotoStep DEF ReleaseLock
  <2>3. Current(w)' = Current(w) BY <2>2 DEF Current
  <2> QED BY <1>0, <2>1, <2>2, <2>3 DEF HeldBy, Filing
<1>3. CASE ReturnItem(w) \/ CatchItem(w)
  <2>1. PICK how, pc : pc \in {"next", "end"} /\ EndItem(w, how, pc)
    BY <1>3 DEF ReturnItem, CatchItem
  <2>2. run'[w] = NoRun /\ node'[w].pc \in {"next", "end"}
    BY <1>0, <2>1, PlaceStep DEF EndItem
  <2> QED BY <1>3, <2>2 DEF HeldBy, NoRun, Filing, ReturnItem, CatchItem
<1>4. CASE FinishNode(w) \/ CloseNode(w)
  <2>1. node[w].pc \in {"next", "end"} /\ run[w] = NoRun /\ run' = run
    BY <1>0, <1>4 DEF FinishNode, CloseNode, At, HeldBy
  <2>2. node'[w].pc \in {"end", "closed"} BY <1>0, <1>4, GotoStep DEF FinishNode, CloseNode
  <2> QED BY <1>4, <2>1, <2>2 DEF HeldBy, NoRun, Filing, FinishNode, CloseNode
<1>5. CASE ReapLock(w)
  <2>1. ~node[w].up /\ lock = w /\ node' = node /\ run' = run /\ transcript' = transcript
    BY <1>5 DEF ReapLock
  <2> QED BY <1>0, <2>1 DEF HeldBy, Current
<1> QED BY <1>1, <1>2, <1>3, <1>4, <1>5

LEMMA HeldStep ==
    ASSUME RecordInv, KeptInv, NEW w \in Writer, Step(w) \/ Stop(w)
    PROVE  \A v \in Writer : HeldBy(v)'
<1>1. HeldBy(w)' /\ (lock' = lock \/ lock \in {Free, w})
  BY HeldGoesOn, HeldEnters, HeldLeaves DEF Step, Stop
<1>2. Apart(w) BY FrameStep DEF Frame
<1>3. \A i : Has(transcript, i) => Has(transcript', i) BY TranscriptGrows DEF RecordInv
<1> QED BY <1>1, <1>2, <1>3, HeldStays

(* Only the COMMIT of a session adds to what is owed, its own item.        *)
LEMMA OwedStep ==
    ASSUME TypeOK, PlaneInv, NEW w \in Writer, Step(w) \/ Stop(w), Owed(w)'
    PROVE  /\ node'[w].item = node[w].item
           /\ Owed(w) \/ (CommitRecord(w) /\ run[w].inChat)
<1>0. /\ node \in [Writer -> Nodes] /\ run \in [Writer -> Runs] /\ ErrorOf(w)
      /\ node'[w].pc \in After
  BY DEF TypeOK, PlaneInv, Owed
<1>1. CASE RunAgent(w)
  <2>1. CASE \E kind : Throw(w, kind)
    BY <1>0, <2>1, ThrowStep DEF After, Observing
  <2>2. ASSUME NEW inChat, NEW result,
               run' = [run EXCEPT ![w].inChat = inChat, ![w].result = result],
               Goto(w, IF ~run[w].memory
                       THEN "flush"
                       ELSE IF result = "paused" THEN "content" ELSE "metadata")
        PROVE  FALSE
    <3>1. run[w].memory BY <1>0, <2>2 DEF Owed, Runs
    <3>2. node'[w].pc \in {"content", "metadata"} BY <2>2, <3>1, GotoStep
    <3> QED BY <1>0, <3>2 DEF After, Observing
  <2> QED BY <1>1, <2>1, <2>2 DEF RunAgent
<1>2. CASE CommitRecord(w)
  BY <1>0, <1>2, GotoStep DEF CommitRecord, Owed, Runs
<1>3. CASE RecordFailed(w)
  BY <1>0, <1>3 DEF RecordFailed, At, ErrorOf, Owed
<1>4. CASE \/ Flush(w) \/ CreateObservabilityTable(w) \/ BeginObservability(w)
           \/ WriteObservability(w) \/ CommitObservability(w) \/ ObservabilityFails(w)
           \/ ReleaseLock(w) \/ RecordCompleted(w)
  <2>1. node[w].pc \in After
    BY <1>4 DEF Flush, CreateObservabilityTable, BeginObservability, WriteObservability,
                CommitObservability, ObservabilityFails, ReleaseLock, RecordCompleted, At,
                After, Observing
  <2>2. CASE \E kind : Throw(w, kind)
    BY <1>0, <2>2, ThrowStep DEF After, Observing
  <2>3. CASE /\ \E pc : Goto(w, pc)
             /\ \/ run' = run \/ run' = [run EXCEPT ![w].flushed = TRUE]
                \/ run' = [run EXCEPT ![w].locked = FALSE]
    <3>1. node'[w].item = node[w].item BY <2>3, GotoStep
    <3>2. /\ run'[w].error = run[w].error /\ run'[w].memory = run[w].memory
          /\ run'[w].inChat = run[w].inChat
      BY <1>0, <2>3 DEF Runs
    <3> QED BY <2>1, <3>1, <3>2 DEF Owed
  <2> QED BY <1>4, <2>2, <2>3
          DEF Flush, CreateObservabilityTable, BeginObservability, WriteObservability,
              CommitObservability, ObservabilityFails, ReleaseLock, RecordCompleted
<1>5. CASE Stop(w)
  <2>1. run' = run /\ (node' = node \/ node' = [node EXCEPT ![w].up = FALSE])
    BY <1>5 DEF Stop, Crash, ReapLock, ReapTransaction
  <2>2. node'[w].pc = node[w].pc /\ node'[w].item = node[w].item
    BY <1>0, <2>1 DEF Nodes
  <2> QED BY <2>1, <2>2 DEF Owed
<1> QED BY <1>0, <1>1, <1>2, <1>3, <1>4, <1>5, LeadsBefore DEF Step

LEMMA KeptGrows ==
    ASSUME RecordInv, PlaneInv, NEW w \in Writer, Step(w) \/ Stop(w), NEW i \in AllItems,
           Kept(i)', ~Kept(i)
    PROVE  CommitRecord(w) /\ i = Current(w) /\ run[w].inChat
<1>0. TypeOK /\ ended \in [AllItems -> Ends] /\ ErrorOf(w)
  BY DEF RecordInv, TypeOK, PlaneInv
<1>1. CASE Returned(i)'
  <2>1. ended' # ended BY <1>1 DEF Kept, Returned
  <2>2. ReturnItem(w) \/ CatchItem(w) \/ PassThrough(w) BY <2>1, EndedStays
  <2>3. i = Current(w)
    <3>1. i # Current(w) => ended'[i] = ended[i]
      BY <1>0, <2>2 DEF ReturnItem, CatchItem, PassThrough, EndItem
    <3> QED BY <1>1, <3>1 DEF Kept, Returned
  <2>4. ~PassThrough(w)
    <3>1. PassThrough(w) => ended'[i].how = "passed" BY <1>0, <2>3 DEF PassThrough, Ends
    <3> QED BY <1>1, <3>1 DEF Returned
  <2>5. PICK how, pc : EndItem(w, how, pc) /\ (CatchItem(w) => how = "failed")
    <3>1. CASE ReturnItem(w)
      <4>1. node[w].pc = "return" BY <3>1 DEF ReturnItem, At
      <4>2. ~CatchItem(w) BY <4>1 DEF CatchItem, At
      <4> QED BY <3>1, <4>2 DEF ReturnItem
    <3>2. CASE CatchItem(w) BY <3>2 DEF CatchItem
    <3> QED BY <2>2, <2>4, <3>1, <3>2
  <2>6. ended'[i] = [how |-> how, durable |-> run[w].memory, inChat |-> run[w].inChat]
    BY <1>0, <2>3, <2>5 DEF EndItem
  <2>7. ReturnItem(w) /\ run[w].memory /\ run[w].inChat
    BY <1>1, <2>2, <2>4, <2>5, <2>6 DEF Returned
  <2>8. node[w].pc = "return" BY <2>7 DEF ReturnItem, At
  <2>9. Owed(w) BY <1>0, <2>7, <2>8 DEF Owed, ErrorOf, After
  <2> QED BY <2>3, <2>9 DEF Kept
<1>2. CASE ~Returned(i)'
  <2>1. PICK v \in Writer : i = Current(v)' /\ Owed(v)' BY <1>2 DEF Kept
  <2>2. CASE v # w
    <3>1. node'[v] = node[v] /\ run'[v] = run[v] BY <2>2, FrameStep DEF Frame, Apart
    <3>2. i = Current(v) /\ Owed(v) BY <2>1, <3>1 DEF Current, Owed
    <3> QED BY <3>2 DEF Kept
  <2>3. CASE v = w
    <3>1. /\ node'[w].item = node[w].item
          /\ Owed(w) \/ (CommitRecord(w) /\ run[w].inChat)
      BY <1>0, <2>1, <2>3, OwedStep
    <3>2. i = Current(w) BY <2>1, <2>3, <3>1 DEF Current
    <3> QED BY <3>1, <3>2 DEF Kept
  <2> QED BY <2>2, <2>3
<1> QED BY <1>1, <1>2

(* What a worker files, between the reading of the transcript and the      *)
(* COMMIT.                                                                 *)
LEMMA FilingStep ==
    ASSUME TypeOK, NEW w \in Writer, Step(w) \/ Stop(w),
           node'[w].up, node'[w].pc \in Filing
    PROVE  \/ ReadContent(w)
           \/ /\ node[w].up /\ node[w].pc \in Filing
              /\ node'[w].item = node[w].item
              /\ run'[w].content = run[w].content /\ run'[w].inChat = run[w].inChat
<1>0. node \in [Writer -> Nodes] /\ run \in [Writer -> Runs] BY DEF TypeOK
<1>1. ASSUME NEW pc, Goto(w, pc) PROVE node'[w].pc = pc
  BY <1>1, GotoStep
<1>2. ASSUME NEW kind, Throw(w, kind) PROVE FALSE
  BY <1>2, ThrowStep DEF Filing
<1>3. ASSUME ThrowOutside(w) PROVE FALSE
  BY <1>1, <1>3 DEF Filing, ThrowOutside
<1>4. CASE CreateTables(w) \/ BeginRecord(w) \/ UpdateFull(w) \/ InsertFull(w)
  <2>1. /\ run' = run /\ node[w].up /\ node[w].pc \in Filing /\ \E pc : Goto(w, pc)
    BY <1>2, <1>4 DEF CreateTables, BeginRecord, UpdateFull, InsertFull, At, Filing
  <2> QED BY <2>1, GotoStep
<1>5. CASE DeleteLines(w)
  <2>1. node[w].up /\ node[w].pc \in Filing /\ node'[w].item = node[w].item
    BY <1>5, GotoStep DEF DeleteLines, At, Filing
  <2>2. run'[w].content = run[w].content /\ run'[w].inChat = run[w].inChat
    BY <1>0, <1>5 DEF DeleteLines, Runs
  <2> QED BY <2>1, <2>2
<1>6. CASE InsertLine(w)
  <2>1. node[w].up /\ node[w].pc \in Filing /\ node' = node
    BY <1>6 DEF InsertLine, At, Filing
  <2>2. run'[w].content = run[w].content /\ run'[w].inChat = run[w].inChat
    BY <1>0, <1>6 DEF InsertLine, Runs
  <2> QED BY <2>1, <2>2
<1>7. CASE Stop(w)
  <2>1. run' = run /\ (node' = node \/ node' = [node EXCEPT ![w].up = FALSE])
    BY <1>7 DEF Stop, Crash, ReapLock, ReapTransaction
  <2>2. node' = node BY <1>0, <2>1 DEF Nodes
  <2> QED BY <2>1, <2>2
<1>8. CASE PassThrough(w)
  <2>1. node'[w].pc = "next" BY <1>0, <1>8 DEF PassThrough, At, Nodes
  <2> QED BY <2>1 DEF Filing
<1>9. CASE \/ BeginItem(w) \/ EnsureReady(w) \/ SupplyMemory(w) \/ MissMemory(w)
           \/ AcquireLock(w) \/ ResolveSession(w) \/ RecordStarted(w) \/ RunAgent(w)
           \/ PersistMetadata(w) \/ FinishNode(w) \/ CloseNode(w)
  <2>1. \E pc : pc \notin Filing /\ Goto(w, pc)
    BY <1>2, <1>3, <1>9
       DEF BeginItem, EnsureReady, SupplyMemory, MissMemory, AcquireLock, ResolveSession,
           RecordStarted, RunAgent, PersistMetadata, FinishNode, CloseNode, Filing
  <2> QED BY <1>1, <2>1
<1>10. CASE \/ CommitRecord(w) \/ RecordFails(w) \/ Flush(w) \/ CreateObservabilityTable(w)
            \/ BeginObservability(w) \/ WriteObservability(w) \/ CommitObservability(w)
            \/ ObservabilityFails(w) \/ ReleaseLock(w) \/ RecordCompleted(w) \/ RecordFailed(w)
  <2>1. \E pc : pc \notin Filing /\ Goto(w, pc)
    BY <1>2, <1>10
       DEF CommitRecord, RecordFails, Flush, CreateObservabilityTable, BeginObservability,
           WriteObservability, CommitObservability, ObservabilityFails, ReleaseLock,
           RecordCompleted, RecordFailed, Filing
  <2> QED BY <1>1, <2>1
<1>11. CASE ReturnItem(w) \/ CatchItem(w)
  <2>1. PICK how, pc : pc \in {"next", "end"} /\ EndItem(w, how, pc)
    BY <1>11 DEF ReturnItem, CatchItem
  <2>2. node'[w].pc = pc BY <2>1, PlaceStep DEF EndItem
  <2> QED BY <2>1, <2>2 DEF Filing
<1> QED BY <1>4, <1>5, <1>6, <1>7, <1>8, <1>9, <1>10, <1>11 DEF Step

(* The content of a transaction comes from what its worker filed.          *)
LEMMA ContentStep ==
    ASSUME RecordInv, NEW w \in Writer, Step(w) \/ Stop(w), txn'[w].full # NoRow
    PROVE  \/ txn'[w].full = txn[w].full
           \/ /\ txn'[w].full = run[w].content
              /\ node[w].up /\ node[w].pc \in Filing
<1>0. TypeOK /\ txn \in [Writer -> Txns] /\ ShapeOf(w) BY DEF RecordInv, TypeOK
<1>1. CASE UpdateFull(w) \/ InsertFull(w)
  <2>1. /\ node[w].up /\ node[w].pc \in Filing /\ txn[w].open
    BY <1>0, <1>1 DEF UpdateFull, InsertFull, At, Filing, ShapeOf, InTxn
  <2>2. CASE Write(w, "full", run[w].content)
    <3>1. txn' = [txn EXCEPT ![w].full = run[w].content] BY <1>0, <2>1, <2>2, OpenWrites
    <3>2. txn'[w].full = run[w].content BY <1>0, <3>1 DEF Txns
    <3> QED BY <2>1, <3>2
  <2>3. CASE UNCHANGED recordVars BY <2>3 DEF recordVars
  <2>4. CASE Abort(w) BY <1>0, <2>4 DEF Abort, NoTxn
  <2> QED BY <1>1, <2>2, <2>3, <2>4 DEF UpdateFull, InsertFull, UpdateRow, InsertRow, UpdateMisses
<1>2. CASE BeginRecord(w) \/ BeginObservability(w)
  BY <1>0, <1>2 DEF BeginRecord, BeginObservability, Begin, NoTxn
<1>3. CASE DeleteLines(w)
  BY <1>0, <1>3 DEF DeleteLines, DeleteEvents, Txns
<1>4. CASE InsertLine(w)
  <2>1. txn[w].open BY <1>0, <1>4 DEF InsertLine, At, ShapeOf, InTxn
  <2>2. \E v : txn' = [txn EXCEPT ![w].events = v]
    BY <1>0, <1>4, <2>1, OpenWrites DEF InsertLine, InsertEvent
  <2> QED BY <1>0, <2>2 DEF Txns
<1>5. CASE WriteObservability(w)
  <2>1. txn[w].open BY <1>5, ObservabilityStep
  <2>2. \E v : txn' = [txn EXCEPT ![w].obs = v]
    BY <1>0, <1>5, <2>1, OpenWrites DEF WriteObservability, InsertObservability
  <2> QED BY <1>0, <2>2 DEF Txns
<1>6. CASE \/ CommitRecord(w) \/ CommitObservability(w) \/ RecordFails(w)
           \/ ObservabilityFails(w) \/ ReapTransaction(w)
  BY <1>6, EndFrame DEF NoTxn
<1> QED BY <1>1, <1>2, <1>3, <1>4, <1>5, <1>6, QuietFrame DEF Step, Stop

LEMMA CommitKeeps ==
    ASSUME RecordInv, KeptInv, NEW w \in Writer, CommitRecord(w)
    PROVE  /\ node[w].up /\ node[w].pc \in Filing /\ lock = w
           /\ txn[w].full = run[w].content /\ txn[w].full # NoRow
           /\ txn'[w] = NoTxn /\ db'.full = run[w].content
           /\ node'[w].pc \notin Filing
<1>1. /\ TypeOK /\ ShapeOf(w) /\ HeldBy(w) /\ run[w].content \in Seq(Line)
      /\ txn \in [Writer -> Txns]
  BY DEF RecordInv, KeptInv, TypeOK, Runs
<1>2. node[w].up /\ node[w].pc = "lines" /\ Commit(w) BY DEF CommitRecord, At
<1>3. txn[w].full = run[w].content BY <1>1, <1>2 DEF ShapeOf, InTxn
<1>4. txn[w].full # NoRow BY <1>1, <1>3, ItemsAssumption DEF ItemsAssumption, Line
<1>5. txn'[w] = NoTxn /\ db'.full = run[w].content BY <1>1, <1>2, <1>3, <1>4 DEF Commit
<1>6. node'[w].pc = "flush" BY <1>1, GotoStep DEF CommitRecord
<1> QED BY <1>1, <1>2, <1>3, <1>4, <1>5, <1>6 DEF HeldBy, Filing

(* What was kept, after any step that commits no session.                  *)
LEMMA KeptPlain ==
    ASSUME RecordInv, PlaneInv, NEW w \in Writer, Step(w) \/ Stop(w), ~CommitRecord(w),
           NEW i \in AllItems, Kept(i)'
    PROVE  Kept(i)
BY KeptGrows

LEMMA FileStep ==
    ASSUME RecordInv, PlaneInv, KeptInv, NEW w \in Writer, Step(w) \/ Stop(w), NEW v \in Writer
    PROVE  FileOf(v)'
<1>0. /\ TypeOK /\ FileOf(v) /\ FileOf(w) /\ HeldBy(v) /\ HeldBy(w) /\ Archived
      /\ AllItems' = AllItems /\ run \in [Writer -> Runs] /\ transcript \in Seq(Line)
  BY DEF RecordInv, KeptInv, TypeOK, AllItems
<1>1. CASE v # w
  <2>1. node'[v] = node[v] /\ run'[v] = run[v] /\ txn'[v] = txn[v]
    BY <1>1, FrameStep DEF Frame, Apart
  <2>2. CASE CommitRecord(w)
    <3>1. lock = w /\ txn[w].full # NoRow BY <2>2, CommitKeeps
    <3>2. ~(node[v].up /\ node[v].pc \in Filing) BY <1>0, <1>1, <3>1 DEF HeldBy
    <3>3. txn[v].full = NoRow BY <1>1, <3>1 DEF RecordInv, OneRow
    <3> QED BY <2>1, <3>2, <3>3 DEF FileOf
  <2>3. CASE ~CommitRecord(w)
    <3>1. \A i \in AllItems : Kept(i)' => Kept(i) BY <2>3, KeptPlain
    <3>2. Current(v)' = Current(v) BY <2>1 DEF Current
    <3> QED BY <1>0, <2>1, <3>1, <3>2 DEF FileOf
  <2> QED BY <2>2, <2>3
<1>2. CASE v = w
  <2>1. CASE CommitRecord(w)
    <3>1. node'[w].pc \notin Filing /\ txn'[w].full = NoRow BY <2>1, CommitKeeps DEF NoTxn
    <3> QED BY <1>2, <3>1 DEF FileOf
  <2>2. CASE ~CommitRecord(w)
    <3>1. \A i \in AllItems : Kept(i)' => Kept(i) BY <2>2, KeptPlain
    <3>2. ASSUME node'[w].up, node'[w].pc \in Filing, NEW i \in AllItems,
                 Kept(i)' \/ (i = Current(w)' /\ run'[w].inChat)
          PROVE  Has(run'[w].content, i)
      <4>1. CASE ReadContent(w)
        <5>1. /\ run'[w].content = IF transcript # <<>> THEN transcript ELSE <<Current(w)>>
              /\ run'[w].inChat = run[w].inChat
          BY <1>0, <4>1 DEF ReadContent, Runs
        <5>2. node'[w].item = node[w].item BY <1>0, <4>1, GotoStep DEF ReadContent
        <5>3. Current(w)' = Current(w) BY <5>2 DEF Current
        <5>4. Has(transcript, i)
          BY <1>0, <3>1, <3>2, <5>1, <5>3 DEF Archived, HeldBy
        <5>5. transcript # <<>> BY <5>4 DEF Has
        <5> QED BY <5>1, <5>4, <5>5
      <4>2. CASE /\ node[w].up /\ node[w].pc \in Filing
                 /\ node'[w].item = node[w].item
                 /\ run'[w].content = run[w].content /\ run'[w].inChat = run[w].inChat
        <5>1. Current(w)' = Current(w) BY <4>2 DEF Current
        <5> QED BY <1>0, <3>1, <3>2, <4>2, <5>1 DEF FileOf
      <4> QED BY <1>0, <3>2, <4>1, <4>2, FilingStep
    <3>3. ASSUME txn'[w].full # NoRow, NEW i \in AllItems, Kept(i)'
          PROVE  Has(txn'[w].full, i)
      <4>1. Kept(i) BY <3>1, <3>3
      <4>2. CASE txn'[w].full = txn[w].full BY <1>0, <3>3, <4>1, <4>2 DEF FileOf
      <4>3. CASE txn'[w].full = run[w].content /\ node[w].up /\ node[w].pc \in Filing
        BY <1>0, <4>1, <4>3 DEF FileOf
      <4> QED BY <3>3, <4>2, <4>3, ContentStep
    <3> QED BY <1>0, <1>2, <3>2, <3>3 DEF FileOf
  <2> QED BY <2>1, <2>2
<1> QED BY <1>1, <1>2

LEMMA ArchiveStep ==
    ASSUME RecordInv, PlaneInv, KeptInv, NEW w \in Writer, Step(w) \/ Stop(w)
    PROVE  Archived'
<1>0. TypeOK /\ FileOf(w) /\ HeldBy(w) /\ Archived /\ AllItems' = AllItems
  BY DEF RecordInv, KeptInv, AllItems
<1>1. SUFFICES ASSUME NEW i \in AllItems, Kept(i)'
               PROVE  Has(transcript, i) /\ Has(db'.full, i)
  BY <1>0, TranscriptGrows DEF Archived
<1>2. CASE Kept(i)
  <2>1. Has(transcript, i) /\ Has(db.full, i) BY <1>0, <1>2 DEF Archived
  <2>2. db'.full = db.full \/ (txn[w].full # NoRow /\ db'.full = txn[w].full)
    BY FrameStep DEF Frame
  <2> QED BY <1>0, <1>2, <2>1, <2>2 DEF FileOf
<1>3. CASE ~Kept(i)
  <2>1. CommitRecord(w) /\ i = Current(w) /\ run[w].inChat BY <1>1, <1>3, KeptGrows
  <2>2. node[w].up /\ node[w].pc \in Filing /\ db'.full = run[w].content BY <2>1, CommitKeeps
  <2> QED BY <1>0, <2>1, <2>2 DEF FileOf, HeldBy
<1> QED BY <1>2, <1>3

LEMMA KeptInitially == Init => KeptInv
<1> SUFFICES ASSUME Init PROVE KeptInv OBVIOUS
<1>1. /\ \A w \in Writer : node[w].pc = "next" /\ run[w] = NoRun /\ txn[w] = NoTxn
      /\ \A i \in AllItems : ended[i].how = "pending"
  BY DEF Init, RecordInit
<1>2. \A i \in AllItems : ~Kept(i)
  BY <1>1 DEF Kept, Returned, Owed, After, Observing
<1>3. ASSUME NEW w \in Writer PROVE HeldBy(w) /\ FileOf(w)
  BY <1>1 DEF HeldBy, FileOf, Filing, NoRun, NoTxn
<1> QED BY <1>2, <1>3 DEF KeptInv, Archived

LEMMA KeptPreserved == RecordInv /\ PlaneInv /\ KeptInv /\ [Next]_vars => KeptInv'
<1> SUFFICES ASSUME RecordInv, PlaneInv, KeptInv, [Next]_vars PROVE KeptInv' OBVIOUS
<1>1. ASSUME NEW w \in Writer, Step(w) \/ Stop(w) PROVE KeptInv'
  BY <1>1, HeldStep, FileStep, ArchiveStep DEF KeptInv
<1>2. CASE UNCHANGED vars
  BY <1>2 DEF KeptInv, Archived, HeldBy, FileOf, Kept, Returned, Owed, AllItems, Current, vars,
              recordVars
<1> QED BY <1>1, <1>2 DEF Next
----------------------------------------------------------------------------
(* An item that returned over a connected Postgres memory has its rows     *)
(* with its status, and its turn, if it went into the transcript of the    *)
(* chat session, is in the archive and stays there, for any number of      *)
(* workers and wherever they fail or stop, while the transcript is not     *)
(* lost: a worker writes the rows before it releases the lock and returns, *)
(* and whoever writes the archive next read, under the lock, a transcript  *)
(* that has every turn the archive owes.                                   *)
THEOREM ReturnedIsOnRecord == Spec => []ReturnsAreDurable
<1> DEFINE Inv == RecordInv /\ OutcomeInv /\ PlaneInv /\ RowsInv /\ KeptInv
<1>1. Init => Inv
  BY RecordInitially, OutcomeInitially, PlaneInitially, RowsInitially, KeptInitially
<1>2. Inv /\ [Next]_vars => Inv'
  BY RecordPreserved, OutcomePreserved, PlanePreserved, RowsPreserved, KeptPreserved
     DEF RecordInv
<1>3. Inv => ReturnsAreDurable
  <2> SUFFICES ASSUME RowsInv, KeptInv, NEW i \in AllItems,
                      ended[i].how \in {"completed", "paused"}, ended[i].durable
               PROVE  /\ <<i, IF ended[i].how = "paused" THEN "paused_hitl" ELSE "completed">>
                            \in db.obs
                      /\ ended[i].inChat =>
                            db.full # NoRow /\ \E n \in 1 .. Len(db.full) : db.full[n] = i
    BY DEF ReturnsAreDurable
  <2> QED BY DEF RowsInv, RowsReturned, KeptInv, Archived, Kept, Returned, Has
<1> QED BY <1>1, <1>2, <1>3, PTL DEF Spec

=============================================================================
