-------------------------- MODULE NodeItems_proofs --------------------------
(***************************************************************************)
(* For any number of workers and items, whatever fails or stops: the types *)
(* of NodeItems; that the archive row and the event rows of the durable    *)
(* record never tell different sessions; that the observability rows of an *)
(* item tell one outcome; and that the Agent Plane is never told that a    *)
(* run failed whose item returned or of which it was told the opposite.    *)
(***************************************************************************)
EXTENDS NodeItems, SequenceTheorems, TLAPS

LEMMA OpenWrites ==
    ASSUME TypeOK, NEW w \in Writer, txn[w].open, NEW v
    PROVE  /\ Write(w, "full", v) => db' = db /\ txn' = [txn EXCEPT ![w].full = v]
           /\ Write(w, "events", v) => db' = db /\ txn' = [txn EXCEPT ![w].events = v]
           /\ Write(w, "obs", v) => db' = db /\ txn' = [txn EXCEPT ![w].obs = v]
<1> QED BY DEF TypeOK, Txns, Write

LEMMA NoTxnType == NoTxn \in Txns
BY DEF NoTxn, Rows, Txns

LEMMA NoRunType == NoRun \in Runs
BY EmptySeq DEF NoRun, Runs

LEMMA InitTypes == Init => TypeOK
<1> SUFFICES ASSUME Init PROVE TypeOK OBVIOUS
<1>1. schema \subseteq Tables BY DEF Init, RecordInit
<1>2. db \in Dbs
  BY EmptySeq DEF Init, RecordInit, Rows, Dbs
<1>3. txn \in [Writer -> Txns]
  BY NoTxnType DEF Init, RecordInit
<1> QED BY <1>1, <1>2, <1>3, NoRunType, EmptySeq, ItemsAssumption DEF Init, ItemsAssumption, TypeOK, Pcs, Nodes, Planes, Ends

(* The updates that actions make of a worker's place, of its locals and of  *)
(* the count of faults.                                                     *)
LEMMA PlaceUpdates ==
    ASSUME node \in [Writer -> Nodes], NEW w \in Writer
    PROVE  /\ \A pc \in Pcs : [node EXCEPT ![w].pc = pc] \in [Writer -> Nodes]
           /\ [node EXCEPT ![w].item = @ + 1] \in [Writer -> Nodes]
           /\ [node EXCEPT ![w].up = FALSE] \in [Writer -> Nodes]
           /\ \A pc \in Pcs, n \in Nat :
                 [node EXCEPT ![w].pc = pc, ![w].item = n] \in [Writer -> Nodes]
<1>1. ASSUME NEW pc \in Pcs PROVE [node EXCEPT ![w].pc = pc] \in [Writer -> Nodes]
  BY DEF Nodes
<1>2. [node EXCEPT ![w].item = @ + 1] \in [Writer -> Nodes]
  BY DEF Nodes
<1>3. [node EXCEPT ![w].up = FALSE] \in [Writer -> Nodes]
  BY DEF Nodes
<1>4. ASSUME NEW pc \in Pcs, NEW n \in Nat
      PROVE  [node EXCEPT ![w].pc = pc, ![w].item = n] \in [Writer -> Nodes]
  BY DEF Nodes
<1> QED BY <1>1, <1>2, <1>3, <1>4

LEMMA GotoTypes ==
    ASSUME TypeOK
    PROVE  \A w \in Writer, pc \in Pcs : Goto(w, pc) => node' \in [Writer -> Nodes]
<1> SUFFICES ASSUME NEW w \in Writer, NEW pc \in Pcs, Goto(w, pc)
             PROVE  node' \in [Writer -> Nodes]
  OBVIOUS
<1>1. node \in [Writer -> Nodes] BY DEF TypeOK
<1>2. [node EXCEPT ![w].pc = pc] \in [Writer -> Nodes] BY <1>1, PlaceUpdates
<1> QED BY <1>2 DEF Goto

LEMMA RunTypes ==
    ASSUME run \in [Writer -> Runs], NEW w \in Writer
    PROVE  /\ \A b \in BOOLEAN : /\ [run EXCEPT ![w].memory = b] \in [Writer -> Runs]
                                 /\ [run EXCEPT ![w].locked = b] \in [Writer -> Runs]
                                 /\ [run EXCEPT ![w].reported = b] \in [Writer -> Runs]
                                 /\ [run EXCEPT ![w].flushed = b] \in [Writer -> Runs]
           /\ \A n \in Nat : [run EXCEPT ![w].line = n] \in [Writer -> Runs]
           /\ \A c \in Seq(Line) : [run EXCEPT ![w].content = c] \in [Writer -> Runs]
           /\ \A b \in BOOLEAN, r \in {"ok", "agentError", "paused"} :
                 [run EXCEPT ![w].inChat = b, ![w].result = r] \in [Writer -> Runs]
           /\ \A k \in {"node", "other"} : [run EXCEPT ![w].error = k] \in [Writer -> Runs]
           /\ \A k \in {"node", "other"}, c \in Seq(Line) :
                 [run EXCEPT ![w].error = k, ![w].content = c, ![w].line = 0] \in [Writer -> Runs]
           /\ \A c \in Seq(Line) :
                 [run EXCEPT ![w].content = c, ![w].line = 0] \in [Writer -> Runs]
<1> DEFINE Kinds == {"node", "other"}
<1>0. run[w] \in Runs
  OBVIOUS
<1>1. ASSUME NEW b \in BOOLEAN
      PROVE  /\ [run EXCEPT ![w].memory = b] \in [Writer -> Runs]
             /\ [run EXCEPT ![w].locked = b] \in [Writer -> Runs]
             /\ [run EXCEPT ![w].reported = b] \in [Writer -> Runs]
             /\ [run EXCEPT ![w].flushed = b] \in [Writer -> Runs]
  <2>1. [run[w] EXCEPT !.memory = b] \in Runs BY <1>0 DEF Runs
  <2>2. [run[w] EXCEPT !.locked = b] \in Runs BY <1>0 DEF Runs
  <2>3. [run[w] EXCEPT !.reported = b] \in Runs BY <1>0 DEF Runs
  <2>4. [run[w] EXCEPT !.flushed = b] \in Runs BY <1>0 DEF Runs
  <2>5. [run EXCEPT ![w].memory = b] \in [Writer -> Runs] BY <2>1
  <2>6. [run EXCEPT ![w].locked = b] \in [Writer -> Runs] BY <2>2
  <2>7. [run EXCEPT ![w].reported = b] \in [Writer -> Runs] BY <2>3
  <2>8. [run EXCEPT ![w].flushed = b] \in [Writer -> Runs] BY <2>4
  <2> QED BY <2>5, <2>6, <2>7, <2>8
<1>2. ASSUME NEW n \in Nat PROVE [run EXCEPT ![w].line = n] \in [Writer -> Runs]
  <2>1. [run[w] EXCEPT !.line = n] \in Runs BY <1>0 DEF Runs
  <2> QED BY <2>1
<1>3. ASSUME NEW c \in Seq(Line) PROVE [run EXCEPT ![w].content = c] \in [Writer -> Runs]
  <2>1. [run[w] EXCEPT !.content = c] \in Runs BY <1>0 DEF Runs
  <2> QED BY <2>1
<1>4. ASSUME NEW b \in BOOLEAN, NEW r \in {"ok", "agentError", "paused"}
      PROVE  [run EXCEPT ![w].inChat = b, ![w].result = r] \in [Writer -> Runs]
  <2>1. [run[w] EXCEPT !.inChat = b, !.result = r] \in Runs BY <1>0 DEF Runs
  <2> QED BY <2>1
<1>5. ASSUME NEW k \in Kinds PROVE [run EXCEPT ![w].error = k] \in [Writer -> Runs]
  <2>1. [run[w] EXCEPT !.error = k] \in Runs BY <1>0 DEF Runs
  <2> QED BY <2>1
<1>6. ASSUME NEW k \in Kinds, NEW c \in Seq(Line)
      PROVE  [run EXCEPT ![w].error = k, ![w].content = c, ![w].line = 0] \in [Writer -> Runs]
  <2>1. [run[w] EXCEPT !.error = k, !.content = c, !.line = 0] \in Runs BY DEF Runs
  <2> QED BY <2>1
<1>7. ASSUME NEW c \in Seq(Line)
      PROVE  [run EXCEPT ![w].content = c, ![w].line = 0] \in [Writer -> Runs]
  <2>1. [run[w] EXCEPT !.content = c, !.line = 0] \in Runs BY <1>0 DEF Runs
  <2> QED BY <2>1
<1> QED BY <1>1, <1>2, <1>3, <1>4, <1>5, <1>6, <1>7

LEMMA ThrowTypes ==
    ASSUME TypeOK
    PROVE  \A w \in Writer, k \in {"node", "other"} :
              Throw(w, k) => node' \in [Writer -> Nodes] /\ run' \in [Writer -> Runs]
<1> SUFFICES ASSUME NEW w \in Writer, NEW k \in {"node", "other"}, Throw(w, k)
             PROVE  node' \in [Writer -> Nodes] /\ run' \in [Writer -> Runs]
  OBVIOUS
<1>1. node' \in [Writer -> Nodes] BY GotoTypes DEF Throw, Pcs
<1>2. run' \in [Writer -> Runs] BY EmptySeq, RunTypes DEF Throw, TypeOK
<1> QED BY <1>1, <1>2

LEMMA FaultTypes == faults \in 0 .. MaxFaults /\ (Fault \/ NoFault) => faults' \in 0 .. MaxFaults
BY ItemsAssumption DEF Fault, NoFault, ItemsAssumption

LEMMA OutsideTypes ==
    ASSUME TypeOK, NEW w \in Writer, ThrowOutside(w)
    PROVE  /\ node' \in [Writer -> Nodes] /\ run' \in [Writer -> Runs]
           /\ faults' \in 0 .. MaxFaults
<1>1. Goto(w, "thrown") /\ Fault BY DEF ThrowOutside
<1>2. PICK k \in {"node", "other"} : run' = [run EXCEPT ![w].error = k] BY DEF ThrowOutside
<1> QED BY <1>1, <1>2, GotoTypes, RunTypes, FaultTypes DEF TypeOK, Pcs

LEMMA CurrentType == ASSUME TypeOK, NEW w \in Writer PROVE Current(w) \in Line /\ node[w].item \in Nat
BY DEF TypeOK, Nodes, Current, Line

LEMMA CopyTypes == Answered \cup Unanswered \subseteq 0 .. 2
BY DEF Answered, Unanswered

LEMMA PlaneUpdates ==
    ASSUME plane \in [AllItems -> Planes], NEW i
    PROVE  /\ \A n \in 0 .. 2 : [plane EXCEPT ![i].started = n] \in [AllItems -> Planes]
           /\ \A e \in {"completed", "failed"} :
                 [plane EXCEPT ![i].told = @ \cup {e}] \in [AllItems -> Planes]
<1>1. ASSUME NEW n \in 0 .. 2
      PROVE  [plane EXCEPT ![i].started = n] \in [AllItems -> Planes]
  BY DEF Planes
<1>2. ASSUME NEW e \in {"completed", "failed"}
      PROVE  [plane EXCEPT ![i].told = @ \cup {e}] \in [AllItems -> Planes]
  BY DEF Planes
<1> QED BY <1>1, <1>2

LEMMA EndUpdates ==
    ASSUME ended \in [AllItems -> Ends], NEW i
    PROVE  /\ [ended EXCEPT ![i].how = "passed"] \in [AllItems -> Ends]
           /\ \A e \in Ends : [ended EXCEPT ![i] = e] \in [AllItems -> Ends]
BY DEF Ends

LEMMA LineSeqs ==
    ASSUME NEW l \in Line, NEW t \in Seq(Line)
    PROVE  <<l>> \in Seq(Line) /\ Append(t, l) \in Seq(Line)
OBVIOUS

LEMMA PlainTypes ==
    ASSUME TypeOK, NEW w \in Writer,
           \/ PassThrough(w) \/ BeginItem(w) \/ FinishNode(w) \/ CloseNode(w)
           \/ EnsureReady(w) \/ SupplyMemory(w) \/ MissMemory(w) \/ AcquireLock(w)
           \/ ResolveSession(w) \/ PersistMetadata(w) \/ CreateTables(w)
           \/ Flush(w) \/ CreateObservabilityTable(w) \/ ReleaseLock(w) \/ Crash(w) \/ ReapLock(w)
    PROVE  TypeOK'
<1> USE GotoTypes, ThrowTypes, RunTypes, FaultTypes DEF TypeOK, Pcs, recordVars
<1>1. ASSUME PassThrough(w) PROVE TypeOK'
  <2>1. node' \in [Writer -> Nodes] BY <1>1, PlaceUpdates DEF PassThrough
  <2>2. ended' \in [AllItems -> Ends]
    <3>1. ended \in [AllItems -> Ends] /\ ended' = [ended EXCEPT ![Current(w)].how = "passed"]
      BY <1>1 DEF PassThrough
    <3> QED BY <3>1, EndUpdates
  <2> QED BY <1>1, <2>1, <2>2 DEF PassThrough
<1>2. ASSUME BeginItem(w) PROVE TypeOK' BY <1>2, OutsideTypes DEF BeginItem
<1>3. ASSUME FinishNode(w) PROVE TypeOK' BY <1>3 DEF FinishNode
<1>4. ASSUME CloseNode(w) PROVE TypeOK' BY <1>4 DEF CloseNode
<1>5. ASSUME EnsureReady(w) PROVE TypeOK' BY <1>5, OutsideTypes DEF EnsureReady
<1>6. ASSUME SupplyMemory(w) PROVE TypeOK' BY <1>6 DEF SupplyMemory, EnsureTables, Tables
<1>7. ASSUME MissMemory(w) PROVE TypeOK' BY <1>7 DEF MissMemory
<1>8. ASSUME AcquireLock(w) PROVE TypeOK' BY <1>8 DEF AcquireLock
<1>9. ASSUME ResolveSession(w) PROVE TypeOK'
  <2>1. node' \in [Writer -> Nodes] BY <1>9 DEF ResolveSession
  <2>2. [run EXCEPT ![w].locked = TRUE] \in [Writer -> Runs] OBVIOUS
  <2>3. run' \in [Writer -> Runs] BY <1>9, <2>2 DEF ResolveSession
  <2> QED BY <1>9, <2>1, <2>3 DEF ResolveSession
<1>10. ASSUME PersistMetadata(w) PROVE TypeOK' BY <1>10 DEF PersistMetadata
<1>11. ASSUME CreateTables(w) PROVE TypeOK' BY <1>11 DEF CreateTables, EnsureTables, Tables
<1>12. ASSUME Flush(w) PROVE TypeOK' BY <1>12 DEF Flush
<1>13. ASSUME CreateObservabilityTable(w) PROVE TypeOK'
  BY <1>13 DEF CreateObservabilityTable, EnsureTables, Tables
<1>14. ASSUME ReleaseLock(w) PROVE TypeOK' BY <1>14 DEF ReleaseLock
<1>15. ASSUME Crash(w) PROVE TypeOK' 
  <2>1. node' \in [Writer -> Nodes] BY <1>15, PlaceUpdates DEF Crash
  <2> QED BY <1>15, <2>1 DEF Crash
<1>16. ASSUME ReapLock(w) PROVE TypeOK' BY <1>16 DEF ReapLock
<1> QED BY <1>1, <1>2, <1>3, <1>4, <1>5, <1>6, <1>7, <1>8, <1>9, <1>10, <1>11, <1>12, <1>13,
           <1>14, <1>15, <1>16

LEMMA EndTypes ==
    ASSUME TypeOK, NEW w \in Writer,
           NEW how \in {"completed", "paused", "failed"}, NEW pc \in {"next", "end"},
           EndItem(w, how, pc), UNCHANGED <<recordVars, lock, transcript, plane, faults>>
    PROVE  TypeOK'
<1>1. ended' \in [AllItems -> Ends]
  <2>1. [how |-> how, durable |-> run[w].memory, inChat |-> run[w].inChat] \in Ends
    BY DEF TypeOK, Ends, Runs
  <2> QED BY <2>1, EndUpdates DEF EndItem, TypeOK
<1>2. run' \in [Writer -> Runs] BY NoRunType DEF EndItem, TypeOK
<1>3. node' \in [Writer -> Nodes]
  <2> DEFINE n == IF pc = "next" THEN node[w].item + 1 ELSE node[w].item
  <2>1. n \in Nat
    <3>1. node[w].item \in Nat BY CurrentType
    <3> QED BY <3>1
  <2>2. pc \in Pcs BY DEF Pcs
  <2>3. [node EXCEPT ![w].pc = pc, ![w].item = n] \in [Writer -> Nodes]
    BY <2>1, <2>2, PlaceUpdates DEF TypeOK
  <2>4. node' = [node EXCEPT ![w].pc = pc, ![w].item = n] BY DEF EndItem
  <2> QED BY <2>3, <2>4
<1> QED BY <1>1, <1>2, <1>3 DEF TypeOK, recordVars

LEMMA ItemTypes ==
    ASSUME TypeOK, NEW w \in Writer,
           \/ RecordStarted(w) \/ RunAgent(w) \/ ReadContent(w) \/ RecordCompleted(w)
           \/ RecordFailed(w) \/ ReturnItem(w) \/ CatchItem(w)
    PROVE  TypeOK'
<1> USE GotoTypes, ThrowTypes, RunTypes, FaultTypes, CurrentType DEF TypeOK, Pcs, recordVars
<1>1. ASSUME RecordStarted(w) PROVE TypeOK'
  <2>1. plane' \in [AllItems -> Planes]
    <3>1. \A n \in 0 .. 2 : [plane EXCEPT ![Current(w)].started = n] \in [AllItems -> Planes]
      BY PlaneUpdates
    <3>2. CASE UNCHANGED plane BY <3>2
    <3>3. CASE \E n \in Answered \cup Unanswered : plane' = [plane EXCEPT ![Current(w)].started = n]
      <4>1. PICK n \in Answered \cup Unanswered : plane' = [plane EXCEPT ![Current(w)].started = n]
        BY <3>3
      <4>2. n \in 0 .. 2 BY <4>1, CopyTypes
      <4> QED BY <3>1, <4>1, <4>2
    <3> QED BY <1>1, <3>2, <3>3 DEF RecordStarted
  <2>2. faults' \in 0 .. MaxFaults BY <1>1 DEF RecordStarted
  <2>3. node' \in [Writer -> Nodes] /\ run' \in [Writer -> Runs]
    <3>1. \/ Goto(w, "agent") /\ UNCHANGED run
          \/ Goto(w, "agent") /\ run' = [run EXCEPT ![w].reported = TRUE]
          \/ \E kind \in {"node", "other"} : Throw(w, kind)
      BY <1>1 DEF RecordStarted
    <3>2. CASE Goto(w, "agent") /\ UNCHANGED run BY <3>2
    <3>3. CASE Goto(w, "agent") /\ run' = [run EXCEPT ![w].reported = TRUE]
      <4>1. [run EXCEPT ![w].reported = TRUE] \in [Writer -> Runs] OBVIOUS
      <4> QED BY <3>3, <4>1
    <3>4. CASE \E kind \in {"node", "other"} : Throw(w, kind)
      <4>1. Throw(w, "node") \/ Throw(w, "other") BY <3>4
      <4> QED BY <4>1
    <3> QED BY <3>1, <3>2, <3>3, <3>4
  <2> QED BY <1>1, <2>1, <2>2, <2>3 DEF RecordStarted
<1>2. ASSUME RunAgent(w) PROVE TypeOK'
  <2>1. Append(transcript, Current(w)) \in Seq(Line) BY LineSeqs
  <2>2. faults' \in 0 .. MaxFaults BY <1>2 DEF RunAgent
  <2>3. node' \in [Writer -> Nodes] BY <1>2 DEF RunAgent
  <2>4. run' \in [Writer -> Runs]
    <3>1. \/ \E b \in BOOLEAN, r \in {"ok", "agentError", "paused"} :
                run' = [run EXCEPT ![w].inChat = b, ![w].result = r]
          \/ Throw(w, "other")
      BY <1>2 DEF RunAgent
    <3>2. \A b \in BOOLEAN, r \in {"ok", "agentError", "paused"} :
             [run EXCEPT ![w].inChat = b, ![w].result = r] \in [Writer -> Runs]
      BY RunTypes
    <3>3. CASE \E b \in BOOLEAN, r \in {"ok", "agentError", "paused"} :
                  run' = [run EXCEPT ![w].inChat = b, ![w].result = r]
      <4>1. PICK b \in BOOLEAN, r \in {"ok", "agentError", "paused"} :
               run' = [run EXCEPT ![w].inChat = b, ![w].result = r]
        BY <3>3
      <4>2. [run EXCEPT ![w].inChat = b, ![w].result = r] \in [Writer -> Runs] BY <3>2
      <4> QED BY <4>1, <4>2
    <3>4. CASE Throw(w, "other") BY <3>4, ThrowTypes
    <3> QED BY <3>1, <3>3, <3>4
  <2> QED BY <1>2, <2>1, <2>2, <2>3, <2>4 DEF RunAgent
<1>3. ASSUME ReadContent(w) PROVE TypeOK'
  <2>1. <<Current(w)>> \in Seq(Line) BY LineSeqs
  <2>2. run' \in [Writer -> Runs] BY <1>3, <2>1 DEF ReadContent
  <2> QED BY <1>3, <2>2 DEF ReadContent
<1>4. \A e \in {"completed", "failed"} :
         Tell(w, e) => plane' \in [AllItems -> Planes] /\ faults' \in 0 .. MaxFaults
  <2>1. \A e \in {"completed", "failed"} :
           [plane EXCEPT ![Current(w)].told = @ \cup {e}] \in [AllItems -> Planes]
    BY PlaneUpdates
  <2> SUFFICES ASSUME NEW e \in {"completed", "failed"}, Tell(w, e)
               PROVE  plane' \in [AllItems -> Planes] /\ faults' \in 0 .. MaxFaults
    OBVIOUS
  <2>2. /\ UNCHANGED plane \/ plane' = [plane EXCEPT ![Current(w)].told = @ \cup {e}]
        /\ Fault \/ NoFault
    BY DEF Tell
  <2>3. [plane EXCEPT ![Current(w)].told = @ \cup {e}] \in [AllItems -> Planes] BY <2>1
  <2>4. plane' \in [AllItems -> Planes] BY <2>2, <2>3
  <2> QED BY <2>2, <2>4
<1>5. ASSUME RecordCompleted(w) PROVE TypeOK'
  BY <1>4, <1>5 DEF RecordCompleted
<1>6. ASSUME RecordFailed(w) PROVE TypeOK'
  BY <1>4, <1>6 DEF RecordFailed
<1>8. ASSUME ReturnItem(w) PROVE TypeOK'
  <2>1. \/ EndItem(w, "paused", "next") \/ EndItem(w, "completed", "next")
        \/ EndItem(w, "failed", "end")
    BY <1>8 DEF ReturnItem
  <2>2. UNCHANGED <<recordVars, lock, transcript, plane, faults>> BY <1>8 DEF ReturnItem
  <2> QED BY <2>1, <2>2, EndTypes
<1>9. ASSUME CatchItem(w) PROVE TypeOK'
  <2>1. EndItem(w, "failed", "next") \/ EndItem(w, "failed", "end") BY <1>9 DEF CatchItem
  <2>2. UNCHANGED <<recordVars, lock, transcript, plane, faults>> BY <1>9 DEF CatchItem
  <2> QED BY <2>1, <2>2, EndTypes
<1> QED BY <1>1, <1>2, <1>3, <1>5, <1>6, <1>8, <1>9----------------------------------------------------------------------------
(* The places inside a transaction, and those of the observability flush.   *)
InTxn == {"update", "insert", "delete", "lines", "obsRows", "obsCommit"}
Observing == {"obsTables", "obsBegin", "obsRows", "obsCommit"}

(* What a writer's connection and its place in the item tell of each other. *)
ShapeOf(w) ==
    /\ ~txn[w].open =>
          txn[w].full = NoRow /\ txn[w].events = NoRow /\ txn[w].obs = {}
    /\ txn[w].open => node[w].pc \in InTxn
    /\ node[w].up /\ node[w].pc \in InTxn => txn[w].open
    /\ node[w].pc \in {"update", "insert", "obsRows", "obsCommit"} =>
          txn[w].full = NoRow /\ txn[w].events = NoRow
    /\ txn[w].open /\ node[w].pc = "delete" =>
          txn[w].full = run[w].content /\ txn[w].events = NoRow
    /\ txn[w].open /\ node[w].pc = "lines" =>
          /\ txn[w].full = run[w].content
          /\ run[w].line <= Len(run[w].content)
          /\ txn[w].events = SubSeq(run[w].content, 1, run[w].line)
          /\ txn[w].deleted = Len(db.events)

(* One writer holds the lock of the session's row.                          *)
OneRow == \A v, w \in Writer : txn[v].full # NoRow /\ txn[w].full # NoRow => v = w

RecordInv == TypeOK /\ (\A w \in Writer : ShapeOf(w)) /\ OneRow /\ RecordMatches

(* A step that leaves the record alone, by a writer outside a transaction   *)
(* or one that stops.                                                       *)
LEMMA QuietStep ==
    ASSUME RecordInv, NEW w \in Writer, UNCHANGED <<db, txn>>,
           \A v \in Writer \ {w} : node'[v] = node[v] /\ run'[v] = run[v],
           \/ ~txn[w].open /\ node'[w].pc \notin InTxn
           \/ node'[w].pc = node[w].pc /\ run'[w] = run[w] /\ (node'[w].up => node[w].up)
    PROVE  /\ \A v \in Writer : ShapeOf(v)'
           /\ OneRow' /\ RecordMatches'
<1>1. ASSUME NEW v \in Writer \ {w} PROVE ShapeOf(v)'
  <2>1. ShapeOf(v) BY DEF RecordInv
  <2> QED BY <2>1 DEF ShapeOf
<1>2. ShapeOf(w)'
  <2>1. ShapeOf(w) BY DEF RecordInv
  <2>2. CASE ~txn[w].open /\ node'[w].pc \notin InTxn
    BY <2>1, <2>2 DEF ShapeOf, InTxn
  <2>3. CASE node'[w].pc = node[w].pc /\ run'[w] = run[w] /\ (node'[w].up => node[w].up)
    BY <2>1, <2>3 DEF ShapeOf
  <2> QED BY <2>2, <2>3
<1>3. OneRow' BY DEF RecordInv, OneRow
<1>4. RecordMatches' BY DEF RecordInv, RecordMatches
<1> QED BY <1>1, <1>2, <1>3, <1>4

(* The same in terms of the updates that actions make.                      *)
LEMMA PlaceStep ==
    ASSUME TypeOK, NEW w \in Writer, NEW pc, NEW item,
           node' = [node EXCEPT ![w].pc = pc, ![w].item = item]
    PROVE  /\ node'[w].pc = pc /\ node'[w].item = item /\ node'[w].up = node[w].up
           /\ \A v \in Writer \ {w} : node'[v] = node[v]
BY DEF TypeOK, Nodes

LEMMA GotoStep ==
    ASSUME TypeOK, NEW w \in Writer, NEW pc, Goto(w, pc)
    PROVE  /\ node'[w].pc = pc /\ node'[w].item = node[w].item /\ node'[w].up = node[w].up
           /\ \A v \in Writer \ {w} : node'[v] = node[v]
BY DEF TypeOK, Nodes, Goto

LEMMA Outside ==
    ASSUME RecordInv, NEW w \in Writer, NEW pc, At(w, pc), pc \notin InTxn
    PROVE  ~txn[w].open
BY DEF RecordInv, ShapeOf, At

(* The actions that neither write the record nor leave or enter a           *)
(* transaction.                                                             *)
LEMMA QuietActions ==
    ASSUME RecordInv, NEW w \in Writer,
           \/ PassThrough(w) \/ BeginItem(w) \/ FinishNode(w) \/ CloseNode(w)
           \/ EnsureReady(w) \/ SupplyMemory(w) \/ MissMemory(w) \/ AcquireLock(w)
           \/ ResolveSession(w) \/ RecordStarted(w) \/ RunAgent(w) \/ PersistMetadata(w)
           \/ ReadContent(w) \/ CreateTables(w) \/ Flush(w) \/ CreateObservabilityTable(w)
           \/ ReleaseLock(w) \/ RecordCompleted(w) \/ RecordFailed(w) \/ ReturnItem(w)
           \/ CatchItem(w) \/ Crash(w) \/ ReapLock(w)
    PROVE  /\ UNCHANGED <<db, txn>>
           /\ \A v \in Writer \ {w} : node'[v] = node[v] /\ run'[v] = run[v]
           /\ \/ ~txn[w].open /\ node'[w].pc \notin InTxn
              \/ node'[w].pc = node[w].pc /\ run'[w] = run[w] /\ (node'[w].up => node[w].up)
<1> DEFINE Quiet == /\ UNCHANGED <<db, txn>>
                    /\ \A v \in Writer \ {w} : node'[v] = node[v] /\ run'[v] = run[v]
                    /\ ~txn[w].open /\ node'[w].pc \notin InTxn
<1>0. TypeOK /\ node \in [Writer -> Nodes] /\ run \in [Writer -> Runs] BY DEF RecordInv, TypeOK
<1>1. ASSUME BeginItem(w) PROVE Quiet
  <2>1. ~txn[w].open BY <1>1, Outside DEF BeginItem, At, InTxn
  <2> QED BY <1>1, <1>0, <2>1, GotoStep DEF BeginItem, ThrowOutside, recordVars, InTxn
<1>2. ASSUME FinishNode(w) PROVE Quiet
  <2>1. ~txn[w].open BY <1>2, Outside DEF FinishNode, At, InTxn
  <2> QED BY <1>2, <1>0, <2>1, GotoStep DEF FinishNode, recordVars, InTxn
<1>3. ASSUME CloseNode(w) PROVE Quiet
  <2>1. ~txn[w].open BY <1>3, Outside DEF CloseNode, At, InTxn
  <2> QED BY <1>3, <1>0, <2>1, GotoStep DEF CloseNode, recordVars, InTxn
<1>4. ASSUME EnsureReady(w) PROVE Quiet
  <2>1. ~txn[w].open BY <1>4, Outside DEF EnsureReady, At, InTxn
  <2> QED BY <1>4, <1>0, <2>1, GotoStep DEF EnsureReady, ThrowOutside, recordVars, InTxn
<1>5. ASSUME SupplyMemory(w) PROVE Quiet
  <2>1. ~txn[w].open BY <1>5, Outside DEF SupplyMemory, At, InTxn
  <2> QED BY <1>5, <1>0, <2>1, GotoStep DEF SupplyMemory, EnsureTables, recordVars, InTxn
<1>6. ASSUME MissMemory(w) PROVE Quiet
  <2>1. ~txn[w].open BY <1>6, Outside DEF MissMemory, At, InTxn
  <2> QED BY <1>6, <1>0, <2>1, GotoStep DEF MissMemory, recordVars, InTxn
<1>7. ASSUME AcquireLock(w) PROVE Quiet
  <2>1. ~txn[w].open BY <1>7, Outside DEF AcquireLock, At, InTxn
  <2> QED BY <1>7, <1>0, <2>1, GotoStep DEF AcquireLock, Throw, recordVars, InTxn
<1>8. ASSUME ResolveSession(w) PROVE Quiet
  <2>1. ~txn[w].open BY <1>8, Outside DEF ResolveSession, At, InTxn
  <2> QED BY <1>8, <1>0, <2>1, GotoStep DEF ResolveSession, Throw, recordVars, InTxn
<1>9. ASSUME RecordStarted(w) PROVE Quiet
  <2>1. ~txn[w].open BY <1>9, Outside DEF RecordStarted, At, InTxn
  <2> QED BY <1>9, <1>0, <2>1, GotoStep DEF RecordStarted, Throw, recordVars, InTxn
<1>10. ASSUME RunAgent(w) PROVE Quiet
  <2>1. ~txn[w].open BY <1>10, Outside DEF RunAgent, At, InTxn
  <2> QED BY <1>10, <1>0, <2>1, GotoStep DEF RunAgent, Throw, recordVars, InTxn
<1>11. ASSUME PersistMetadata(w) PROVE Quiet
  <2>1. ~txn[w].open BY <1>11, Outside DEF PersistMetadata, At, InTxn
  <2> QED BY <1>11, <1>0, <2>1, GotoStep DEF PersistMetadata, Throw, recordVars, InTxn
<1>12. ASSUME ReadContent(w) PROVE Quiet
  <2>1. ~txn[w].open BY <1>12, Outside DEF ReadContent, At, InTxn
  <2> QED BY <1>12, <1>0, <2>1, GotoStep DEF ReadContent, recordVars, InTxn
<1>13. ASSUME CreateTables(w) PROVE Quiet
  <2>1. ~txn[w].open BY <1>13, Outside DEF CreateTables, At, InTxn
  <2> QED BY <1>13, <1>0, <2>1, GotoStep DEF CreateTables, EnsureTables, recordVars, InTxn
<1>14. ASSUME Flush(w) PROVE Quiet
  <2>1. ~txn[w].open BY <1>14, Outside DEF Flush, At, InTxn
  <2> QED BY <1>14, <1>0, <2>1, GotoStep DEF Flush, recordVars, InTxn
<1>15. ASSUME CreateObservabilityTable(w) PROVE Quiet
  <2>1. ~txn[w].open BY <1>15, Outside DEF CreateObservabilityTable, At, InTxn
  <2> QED BY <1>15, <1>0, <2>1, GotoStep DEF CreateObservabilityTable, EnsureTables, recordVars, InTxn
<1>16. ASSUME ReleaseLock(w) PROVE Quiet
  <2>1. ~txn[w].open BY <1>16, Outside DEF ReleaseLock, At, InTxn
  <2> QED BY <1>16, <1>0, <2>1, GotoStep DEF ReleaseLock, recordVars, InTxn
<1>17. ASSUME RecordCompleted(w) PROVE Quiet
  <2>1. ~txn[w].open BY <1>17, Outside DEF RecordCompleted, At, InTxn
  <2> QED BY <1>17, <1>0, <2>1, GotoStep DEF RecordCompleted, recordVars, InTxn
<1>18. ASSUME RecordFailed(w) PROVE Quiet
  <2>1. ~txn[w].open BY <1>18, Outside DEF RecordFailed, At, InTxn
  <2> QED BY <1>18, <1>0, <2>1, GotoStep DEF RecordFailed, recordVars, InTxn
<1>19. ASSUME PassThrough(w) PROVE Quiet
  <2>1. ~txn[w].open BY <1>19, Outside DEF PassThrough, At, InTxn
  <2>2. node[w].pc = "next" /\ node' = [node EXCEPT ![w].item = @ + 1] BY <1>19 DEF PassThrough, At
  <2>3. node'[w].pc = "next" /\ \A v \in Writer \ {w} : node'[v] = node[v]
    BY <1>0, <2>2 DEF Nodes
  <2> QED BY <1>19, <2>1, <2>3 DEF PassThrough, recordVars, InTxn
<1>20. \A how, pc : EndItem(w, how, pc) =>
          /\ node'[w].pc = pc
          /\ \A v \in Writer \ {w} : node'[v] = node[v] /\ run'[v] = run[v]
  <2> SUFFICES ASSUME NEW how, NEW pc, EndItem(w, how, pc)
               PROVE  /\ node'[w].pc = pc
                      /\ \A v \in Writer \ {w} : node'[v] = node[v] /\ run'[v] = run[v]
    OBVIOUS
  <2> QED BY <1>0, PlaceStep DEF EndItem
<1>21. ASSUME ReturnItem(w) PROVE Quiet
  <2>1. ~txn[w].open BY <1>21, Outside DEF ReturnItem, At, InTxn
  <2>2. \E how : EndItem(w, how, "next") \/ EndItem(w, how, "end") BY <1>21 DEF ReturnItem
  <2> QED BY <1>21, <1>20, <2>1, <2>2 DEF ReturnItem, recordVars, InTxn
<1>22. ASSUME CatchItem(w) PROVE Quiet
  <2>1. ~txn[w].open BY <1>22, Outside DEF CatchItem, At, InTxn
  <2>2. \E how : EndItem(w, how, "next") \/ EndItem(w, how, "end") BY <1>22 DEF CatchItem
  <2> QED BY <1>22, <1>20, <2>1, <2>2 DEF CatchItem, recordVars, InTxn
<1> DEFINE Still == /\ UNCHANGED <<db, txn>>
                    /\ \A v \in Writer \ {w} : node'[v] = node[v] /\ run'[v] = run[v]
                    /\ node'[w].pc = node[w].pc /\ run'[w] = run[w]
                    /\ (node'[w].up => node[w].up)
<1>23. ASSUME Crash(w) PROVE Still BY <1>23, <1>0 DEF Crash, recordVars, Nodes
<1>24. ASSUME ReapLock(w) PROVE Still BY <1>24 DEF ReapLock, recordVars
<1> QED BY <1>1, <1>2, <1>3, <1>4, <1>5, <1>6, <1>7, <1>8, <1>9, <1>10, <1>11, <1>12, <1>13,
           <1>14, <1>15, <1>16, <1>17, <1>18, <1>19, <1>21, <1>22, <1>23, <1>24

(* A step of one writer's transaction that commits nothing.                 *)
LEMMA OwnStep ==
    ASSUME RecordInv, TypeOK', NEW w \in Writer, db' = db, ShapeOf(w)',
           \A v \in Writer \ {w} : node'[v] = node[v] /\ run'[v] = run[v] /\ txn'[v] = txn[v],
           txn'[w].full = NoRow \/ txn[w].full # NoRow \/ ~RowLocked(w)
    PROVE  RecordInv'
<1>1. ASSUME NEW v \in Writer \ {w} PROVE ShapeOf(v)'
  <2>1. ShapeOf(v) BY DEF RecordInv
  <2> QED BY <2>1 DEF ShapeOf
<1>2. OneRow'
  <2> SUFFICES ASSUME NEW u \in Writer, NEW v \in Writer,
                      txn'[u].full # NoRow, txn'[v].full # NoRow
               PROVE  u = v
    BY DEF OneRow
  <2>1. CASE u # w /\ v # w BY <2>1 DEF RecordInv, OneRow
  <2>2. CASE u = w /\ v # w BY <2>2 DEF RecordInv, OneRow, RowLocked
  <2>3. CASE u # w /\ v = w BY <2>3 DEF RecordInv, OneRow, RowLocked
  <2> QED BY <2>1, <2>2, <2>3
<1>3. RecordMatches' BY DEF RecordInv, RecordMatches
<1> QED BY <1>1, <1>2, <1>3 DEF RecordInv

LEMMA CommitTypes ==
    ASSUME TypeOK, NEW w \in Writer, Commit(w)
    PROVE  db' \in Dbs /\ txn' \in [Writer -> Txns]
<1>1. txn' \in [Writer -> Txns] BY NoTxnType DEF Commit, TypeOK
<1>2. txn[w] \in Txns /\ db \in Dbs BY DEF TypeOK
<1>3. CommittedEvents(w) \in Seq(Line)
  <2>1. CASE txn[w].events = NoRow BY <1>2, <2>1 DEF CommittedEvents, Dbs
  <2>2. CASE txn[w].events # NoRow
    <3>1. txn[w].events \in Seq(Line) /\ txn[w].deleted \in Nat /\ db.events \in Seq(Line)
      BY <1>2, <2>2 DEF Txns, Rows, Dbs
    <3>2. SubSeq(db.events, txn[w].deleted + 1, Len(db.events)) \in Seq(Line)
      BY <3>1, ElementOfSeq, SubSeqProperties
    <3> QED BY <2>2, <3>1, <3>2, ConcatProperties DEF CommittedEvents
  <2> QED BY <2>1, <2>2
<1>4. (IF txn[w].full # NoRow THEN txn[w].full ELSE db.full) \in Rows
  BY <1>2 DEF Txns, Dbs
<1>5. db.obs \cup txn[w].obs \in SUBSET ObsRow BY <1>2 DEF Txns, Dbs
<1> QED BY <1>1, <1>3, <1>4, <1>5 DEF Commit, Dbs

(* What a COMMIT leaves on record.                                          *)
LEMMA CommitLeaves ==
    ASSUME RecordInv, NEW w \in Writer, Commit(w), txn[w].open,
           \/ node[w].pc = "lines" /\ run[w].line = Len(run[w].content)
           \/ node[w].pc = "obsCommit"
    PROVE  /\ RecordMatches'
           /\ db'.obs = db.obs \cup txn[w].obs
           /\ txn[w].full = NoRow => db'.events = db.events
<1>1. ShapeOf(w) BY DEF RecordInv
<1>2. txn[w] \in Txns /\ db \in Dbs /\ run[w].content \in Seq(Line) /\ Len(db.events) \in Nat
  <2>1. txn[w] \in Txns /\ db \in Dbs /\ run[w] \in Runs BY DEF RecordInv, TypeOK
  <2> QED BY <2>1 DEF Dbs, Runs
<1>3. db' = [full   |-> IF txn[w].full # NoRow THEN txn[w].full ELSE db.full,
             events |-> CommittedEvents(w),
             obs    |-> db.obs \cup txn[w].obs]
  BY DEF Commit
<1>4. CASE node[w].pc = "obsCommit"
  <2>1. txn[w].full = NoRow /\ txn[w].events = NoRow BY <1>1, <1>4 DEF ShapeOf
  <2>2. db'.full = db.full /\ db'.events = db.events BY <1>3, <2>1 DEF CommittedEvents
  <2> QED BY <1>3, <2>2 DEF RecordInv, RecordMatches
<1>5. CASE node[w].pc = "lines" /\ run[w].line = Len(run[w].content)
  <2> DEFINE content == run[w].content
  <2>1. /\ txn[w].full = content /\ txn[w].events = SubSeq(content, 1, Len(content))
        /\ txn[w].deleted = Len(db.events)
    BY <1>1, <1>5 DEF ShapeOf
  <2>2. SubSeq(content, 1, Len(content)) = content BY <1>2, SubSeqFull
  <2>3. content # NoRow BY <1>2, ItemsAssumption DEF ItemsAssumption, Line
  <2>4. SubSeq(db.events, txn[w].deleted + 1, Len(db.events)) = <<>>
    BY <1>2, <2>1, SubSeqEmpty
  <2>5. CommittedEvents(w) = content \o <<>>
    BY <2>1, <2>2, <2>3, <2>4 DEF CommittedEvents
  <2>6. db'.events = content BY <1>2, <1>3, <2>5, ConcatEmptySeq
  <2>7. db'.full = content BY <1>3, <2>1, <2>3
  <2> QED BY <1>3, <2>1, <2>3, <2>6, <2>7 DEF RecordMatches
<1> QED BY <1>4, <1>5

LEMMA CommitStep ==
    ASSUME RecordInv, TypeOK', NEW w \in Writer, Commit(w), txn[w].open,
           \/ node[w].pc = "lines" /\ run[w].line = Len(run[w].content)
           \/ node[w].pc = "obsCommit",
           \A v \in Writer \ {w} : node'[v] = node[v] /\ run'[v] = run[v],
           node'[w].pc \notin InTxn \/ ~node'[w].up
    PROVE  RecordInv'
<1>1. \A v \in Writer \ {w} : txn'[v] = txn[v] BY DEF Commit, RecordInv, TypeOK
<1>2. txn'[w] = NoTxn BY DEF Commit, RecordInv, TypeOK
<1>3. ASSUME NEW v \in Writer \ {w} PROVE ShapeOf(v)'
  <2>1. ShapeOf(v) /\ ShapeOf(w) BY DEF RecordInv
  <2>2. CASE txn[w].full = NoRow
    <3>1. db'.events = db.events BY <2>2, CommitLeaves
    <3> QED BY <1>1, <2>1, <3>1 DEF ShapeOf
  <2>3. CASE txn[w].full # NoRow
    <3>1. txn[v].full = NoRow BY <2>3 DEF RecordInv, OneRow
    <3>2. run[v].content # NoRow
      <4>1. run[v].content \in Seq(Line) BY DEF RecordInv, TypeOK, Runs
      <4> QED BY <4>1, ItemsAssumption DEF ItemsAssumption, Line
    <3>3. ~(txn[v].open /\ node[v].pc = "lines") BY <2>1, <3>1, <3>2 DEF ShapeOf
    <3> QED BY <1>1, <2>1, <3>3 DEF ShapeOf
  <2> QED BY <2>2, <2>3
<1>4. ShapeOf(w)' BY <1>2 DEF ShapeOf, NoTxn
<1>5. OneRow' BY <1>1, <1>2 DEF RecordInv, OneRow, NoTxn
<1> QED BY <1>3, <1>4, <1>5, CommitLeaves DEF RecordInv

(* A transaction that ends without a COMMIT.                                *)
LEMMA AbortStep ==
    ASSUME RecordInv, TypeOK', NEW w \in Writer, Abort(w),
           \A v \in Writer \ {w} : node'[v] = node[v] /\ run'[v] = run[v],
           node'[w].pc \notin InTxn \/ ~node'[w].up
    PROVE  RecordInv'
<1>1. \A v \in Writer \ {w} : txn'[v] = txn[v] BY DEF Abort, RecordInv, TypeOK
<1>2. txn'[w] = NoTxn BY DEF Abort, RecordInv, TypeOK
<1>3. db' = db BY DEF Abort
<1>4. ShapeOf(w)' BY <1>2 DEF ShapeOf, NoTxn
<1> QED BY <1>1, <1>2, <1>3, <1>4, OwnStep DEF NoTxn

LEMMA AbortTypes ==
    ASSUME TypeOK, NEW w \in Writer, Abort(w)
    PROVE  db' \in Dbs /\ txn' \in [Writer -> Txns]
BY NoTxnType DEF Abort, TypeOK

LEMMA TxnTypes ==
    ASSUME TypeOK, NEW w \in Writer
    PROVE  /\ [NoTxn EXCEPT !.open = TRUE] \in Txns
           /\ \A c \in Seq(Line) : /\ [txn EXCEPT ![w].full = c] \in [Writer -> Txns]
                                   /\ [txn EXCEPT ![w].events = c] \in [Writer -> Txns]
           /\ \A o \in SUBSET ObsRow : [txn EXCEPT ![w].obs = o] \in [Writer -> Txns]
           /\ \A n \in Nat : [txn EXCEPT ![w].events = <<>>, ![w].deleted = n]
                                 \in [Writer -> Txns]
<1>0. txn \in [Writer -> Txns] BY DEF TypeOK
<1>1. [NoTxn EXCEPT !.open = TRUE] \in Txns BY DEF NoTxn, Txns, Rows
<1>2. ASSUME NEW c \in Seq(Line)
      PROVE  /\ [txn EXCEPT ![w].full = c] \in [Writer -> Txns]
             /\ [txn EXCEPT ![w].events = c] \in [Writer -> Txns]
  <2>1. c \in Rows BY DEF Rows
  <2>2. [txn EXCEPT ![w].full = c] \in [Writer -> Txns] BY <1>0, <2>1 DEF Txns
  <2>3. [txn EXCEPT ![w].events = c] \in [Writer -> Txns] BY <1>0, <2>1 DEF Txns
  <2> QED BY <2>2, <2>3
<1>3. ASSUME NEW o \in SUBSET ObsRow PROVE [txn EXCEPT ![w].obs = o] \in [Writer -> Txns]
  BY <1>0 DEF Txns
<1>4. ASSUME NEW n \in Nat
      PROVE  [txn EXCEPT ![w].events = <<>>, ![w].deleted = n] \in [Writer -> Txns]
  <2>1. <<>> \in Rows BY EmptySeq DEF Rows
  <2>2. [txn[w] EXCEPT !.events = <<>>, !.deleted = n] \in Txns BY <1>0, <2>1 DEF Txns
  <2> QED BY <1>0, <2>2
<1> QED BY <1>1, <1>2, <1>3, <1>4

(* The rest of the state, for a step of the record.                         *)
LEMMA RecordTypes ==
    ASSUME TypeOK, db' \in Dbs, txn' \in [Writer -> Txns], node' \in [Writer -> Nodes],
           run' \in [Writer -> Runs], faults' \in 0 .. MaxFaults,
           UNCHANGED <<schema, lock, transcript, plane, ended>>
    PROVE  TypeOK'
BY DEF TypeOK

(* Of two writers, each step changes one.                                   *)
LEMMA OneWriterMoves ==
    ASSUME TypeOK, NEW w \in Writer
    PROVE  /\ \A pc : Goto(w, pc) => /\ node'[w].pc = pc /\ node'[w].item = node[w].item
                                     /\ node'[w].up = node[w].up
                                     /\ \A v \in Writer \ {w} : node'[v] = node[v]
           /\ \A k : Throw(w, k) => /\ node'[w].pc = "catch"
                                    /\ \A v \in Writer \ {w} : /\ node'[v] = node[v]
                                                               /\ run'[v] = run[v]
<1>1. \A pc : Goto(w, pc) => /\ node'[w].pc = pc /\ node'[w].item = node[w].item
                             /\ node'[w].up = node[w].up
                             /\ \A v \in Writer \ {w} : node'[v] = node[v]
  BY GotoStep
<1>2. run \in [Writer -> Runs] BY DEF TypeOK
<1> QED BY <1>1, <1>2 DEF Throw

LEMMA BeginSteps ==
    ASSUME RecordInv, NEW w \in Writer, BeginRecord(w) \/ BeginObservability(w)
    PROVE  RecordInv'
<1>1. TypeOK BY DEF RecordInv
<1>2. Begin(w) /\ UNCHANGED <<run, lock, transcript, plane, ended, faults>>
  BY DEF BeginRecord, BeginObservability
<1>3. PICK pc \in {"update", "obsRows"} : Goto(w, pc) BY DEF BeginRecord, BeginObservability
<1>4. TypeOK'
  <2>1. node' \in [Writer -> Nodes] BY <1>1, <1>3, GotoTypes DEF Pcs
  <2>2. txn' \in [Writer -> Txns] BY <1>1, <1>2, TxnTypes DEF Begin, TypeOK
  <2> QED BY <1>1, <1>2, <2>1, <2>2, RecordTypes DEF Begin, TypeOK
<1>5. txn'[w] = [NoTxn EXCEPT !.open = TRUE] /\ \A v \in Writer \ {w} : txn'[v] = txn[v]
  BY <1>1, <1>2 DEF Begin, TypeOK
<1>6. txn'[w].open /\ txn'[w].full = NoRow /\ txn'[w].events = NoRow
  BY <1>5 DEF NoTxn
<1>7. node'[w].pc = pc /\ \A v \in Writer \ {w} : node'[v] = node[v]
  BY <1>1, <1>3, GotoStep
<1>8. ShapeOf(w)' BY <1>6, <1>7 DEF ShapeOf, InTxn
<1> QED BY <1>2, <1>4, <1>5, <1>6, <1>7, <1>8, OwnStep DEF Begin

LEMMA UpdateSteps ==
    ASSUME RecordInv, NEW w \in Writer, UpdateFull(w) \/ InsertFull(w)
    PROVE  RecordInv'
<1>1. TypeOK /\ ShapeOf(w) /\ run[w].content \in Seq(Line)
  BY DEF RecordInv, TypeOK, Runs
<1>2. node[w].up /\ node[w].pc \in {"update", "insert"} /\ txn[w].open
  BY <1>1 DEF UpdateFull, InsertFull, At, ShapeOf, InTxn
<1>3. UNCHANGED <<lock, transcript, plane, ended, faults>> BY DEF UpdateFull, InsertFull
<1>4. CASE /\ Write(w, "full", run[w].content) /\ ~RowLocked(w)
           /\ Goto(w, "delete") /\ UNCHANGED run
  <2>1. db' = db /\ txn' = [txn EXCEPT ![w].full = run[w].content] /\ schema' = schema
    BY <1>1, <1>2, <1>4, OpenWrites DEF Write
  <2>2. node'[w].pc = "delete" /\ \A v \in Writer \ {w} : node'[v] = node[v]
    BY <1>1, <1>4, GotoStep
  <2>3. /\ txn'[w].full = run[w].content /\ txn'[w].events = txn[w].events /\ txn'[w].open
        /\ \A v \in Writer \ {w} : txn'[v] = txn[v]
    BY <1>1, <1>2, <2>1 DEF TypeOK, Txns
  <2>4. ShapeOf(w)' BY <1>1, <1>2, <1>4, <2>2, <2>3 DEF ShapeOf, InTxn
  <2>5. TypeOK'
    <3>1. node' \in [Writer -> Nodes] BY <1>1, <1>4, GotoTypes DEF Pcs
    <3>2. txn' \in [Writer -> Txns] BY <1>1, <2>1, TxnTypes
    <3> QED BY <1>1, <1>3, <1>4, <2>1, <3>1, <3>2, RecordTypes DEF TypeOK
  <2> QED BY <1>4, <2>1, <2>2, <2>3, <2>4, <2>5, OwnStep
<1>5. CASE UNCHANGED recordVars /\ node[w].pc = "update" /\ Goto(w, "insert") /\ UNCHANGED run
  <2>1. node'[w].pc = "insert" /\ \A v \in Writer \ {w} : node'[v] = node[v]
    BY <1>1, <1>5, GotoStep
  <2>2. ShapeOf(w)' BY <1>1, <1>2, <1>5, <2>1 DEF ShapeOf, InTxn, recordVars
  <2>3. TypeOK'
    <3>1. node' \in [Writer -> Nodes] BY <1>1, <1>5, GotoTypes DEF Pcs
    <3> QED BY <1>1, <1>3, <1>5, <3>1, RecordTypes DEF TypeOK, recordVars
  <2>4. txn'[w].full = NoRow BY <1>1, <1>2, <1>5 DEF ShapeOf, recordVars
  <2> QED BY <1>5, <2>1, <2>2, <2>3, <2>4, OwnStep DEF recordVars
<1>6. CASE Abort(w) /\ Throw(w, "other")
  <2>1. /\ node'[w].pc \notin InTxn
        /\ \A v \in Writer \ {w} : node'[v] = node[v] /\ run'[v] = run[v]
    BY <1>1, <1>6, OneWriterMoves DEF InTxn
  <2>2. TypeOK'
    <3>1. node' \in [Writer -> Nodes] /\ run' \in [Writer -> Runs] BY <1>1, <1>6, ThrowTypes
    <3> QED BY <1>1, <1>3, <1>6, <3>1, AbortTypes, RecordTypes DEF TypeOK, Abort
  <2> QED BY <1>6, <2>1, <2>2, AbortStep
<1> QED BY <1>4, <1>5, <1>6
        DEF UpdateFull, InsertFull, UpdateRow, InsertRow, UpdateMisses, At

LEMMA DeleteStep ==
    ASSUME RecordInv, NEW w \in Writer, DeleteLines(w)
    PROVE  RecordInv'
<1>1. TypeOK /\ ShapeOf(w) /\ run[w].content \in Seq(Line) /\ db.events \in Seq(Line)
  BY DEF RecordInv, TypeOK, Runs, Dbs
<1>2. node[w].up /\ node[w].pc = "delete" /\ txn[w].open
  BY <1>1 DEF DeleteLines, At, ShapeOf, InTxn
<1>3. /\ db' = db /\ schema' = schema
      /\ txn' = [txn EXCEPT ![w].events = <<>>, ![w].deleted = Len(db.events)]
      /\ run' = [run EXCEPT ![w].line = 0] /\ Goto(w, "lines")
      /\ UNCHANGED <<lock, transcript, plane, ended, faults>>
  BY <1>2 DEF DeleteLines, DeleteEvents
<1>4. node'[w].pc = "lines" /\ \A v \in Writer \ {w} : node'[v] = node[v]
  BY <1>1, <1>3, GotoStep
<1>5. /\ txn'[w].full = txn[w].full /\ txn'[w].events = <<>> /\ txn'[w].deleted = Len(db.events)
      /\ txn'[w].open /\ \A v \in Writer \ {w} : txn'[v] = txn[v]
  BY <1>1, <1>2, <1>3 DEF TypeOK, Txns
<1>6. /\ run'[w].content = run[w].content /\ run'[w].line = 0
      /\ \A v \in Writer \ {w} : run'[v] = run[v]
  BY <1>1, <1>3 DEF TypeOK, Runs
<1>7. ShapeOf(w)'
  <2>1. SubSeq(run[w].content, 1, 0) = <<>> BY SubSeqEmpty
  <2>2. 0 <= Len(run[w].content) BY <1>1
  <2>3. txn[w].full = run[w].content BY <1>1, <1>2 DEF ShapeOf
  <2> QED BY <1>2, <1>3, <1>4, <1>5, <1>6, <2>1, <2>2, <2>3 DEF ShapeOf, InTxn
<1>8. TypeOK'
  <2>1. node' \in [Writer -> Nodes] BY <1>1, <1>3, GotoTypes DEF Pcs
  <2>2. run' \in [Writer -> Runs] BY <1>1, <1>3, RunTypes DEF TypeOK
  <2>3. txn' \in [Writer -> Txns]
    <3>1. Len(db.events) \in Nat BY <1>1
    <3> QED BY <1>1, <1>3, <3>1, TxnTypes
  <2> QED BY <1>1, <1>3, <2>1, <2>2, <2>3, RecordTypes DEF TypeOK
<1>9. txn[w].full # NoRow
  <2>1. txn[w].full = run[w].content BY <1>1, <1>2 DEF ShapeOf
  <2> QED BY <1>1, <2>1, ItemsAssumption DEF ItemsAssumption, Line
<1> QED BY <1>3, <1>4, <1>5, <1>6, <1>7, <1>8, <1>9, OwnStep

LEMMA LineStep ==
    ASSUME RecordInv, NEW w \in Writer, InsertLine(w)
    PROVE  RecordInv'
<1> DEFINE content == run[w].content
           line == run[w].line
<1>1. TypeOK /\ ShapeOf(w) /\ content \in Seq(Line) /\ line \in Nat /\ Len(content) \in Nat
  <2>1. content \in Seq(Line) BY DEF RecordInv, TypeOK, Runs
  <2> QED BY <2>1 DEF RecordInv, TypeOK, Runs
<1>2. node[w].up /\ node[w].pc = "lines" /\ txn[w].open /\ line < Len(content)
  BY <1>1 DEF InsertLine, At, ShapeOf, InTxn
<1>3. /\ txn[w].full = content /\ txn[w].events = SubSeq(content, 1, line)
      /\ txn[w].deleted = Len(db.events)
  BY <1>1, <1>2 DEF ShapeOf
<1>4. SubSeq(content, 1, line) \in Seq(Line) /\ Len(SubSeq(content, 1, line)) = line
  <2>1. \A i \in 1 .. line : content[i] \in Line BY <1>1, <1>2, ElementOfSeq
  <2> QED BY <1>1, <2>1, SubSeqProperties
<1>5. txn[w].events # NoRow BY <1>3, <1>4, ItemsAssumption DEF ItemsAssumption, Line
<1>6. PutRow(Seen(w, "events"), line + 1, content[line + 1]) = SubSeq(content, 1, line + 1)
  <2>1. Seen(w, "events") = SubSeq(content, 1, line) BY <1>2, <1>3, <1>5 DEF Seen
  <2>2. PutRow(SubSeq(content, 1, line), line + 1, content[line + 1])
           = Append(SubSeq(content, 1, line), content[line + 1])
    BY <1>1, <1>4 DEF PutRow
  <2>3. content[line + 1] \in Line BY <1>1, <1>2, ElementOfSeq
  <2>4. Append(SubSeq(content, 1, line), content[line + 1])
           = SubSeq(content, 1, line) \o << content[line + 1] >>
    BY <1>4, <2>3, AppendIsConcat
  <2>5. SubSeq(content, 1, line + 1) = SubSeq(content, 1, line) \o << content[line + 1] >>
    <3>1. 1 \in 1 .. Len(content) /\ line + 1 \in 1 .. Len(content) BY <1>1, <1>2
    <3>2. SubSeq(content, 1, line + 1)
             = SubSeq(content, 1, (line + 1) - 1) \o << content[line + 1] >>
      BY <1>1, <3>1, SubSeqRecursiveSecond
    <3>3. (line + 1) - 1 = line BY <1>1
    <3> QED BY <3>2, <3>3
  <2> QED BY <2>1, <2>2, <2>4, <2>5
<1>7. /\ db' = db /\ schema' = schema
      /\ txn' = [txn EXCEPT ![w].events = SubSeq(content, 1, line + 1)]
      /\ run' = [run EXCEPT ![w].line = line + 1]
      /\ UNCHANGED <<node, lock, transcript, plane, ended, faults>>
  <2>1. Write(w, "events", SubSeq(content, 1, line + 1)) BY <1>6 DEF InsertLine, InsertEvent
  <2> QED BY <1>1, <1>2, <2>1, OpenWrites DEF InsertLine, InsertEvent, Write
<1>8. /\ txn'[w].full = txn[w].full /\ txn'[w].events = SubSeq(content, 1, line + 1)
      /\ txn'[w].deleted = txn[w].deleted
      /\ txn'[w].open /\ \A v \in Writer \ {w} : txn'[v] = txn[v]
  BY <1>1, <1>2, <1>7 DEF TypeOK, Txns
<1>9. /\ run'[w].content = content /\ run'[w].line = line + 1
      /\ \A v \in Writer \ {w} : run'[v] = run[v]
  BY <1>1, <1>7 DEF TypeOK, Runs
<1>10. ShapeOf(w)'
  <2>1. line + 1 <= Len(content) BY <1>1, <1>2
  <2> QED BY <1>2, <1>3, <1>7, <1>8, <1>9, <2>1 DEF ShapeOf, InTxn
<1>11. TypeOK'
  <2>1. run' \in [Writer -> Runs]
    <3>1. line + 1 \in Nat BY <1>1
    <3> QED BY <1>1, <1>7, <3>1, RunTypes DEF TypeOK
  <2>2. txn' \in [Writer -> Txns]
    <3>1. \A i \in 1 .. line + 1 : content[i] \in Line BY <1>1, <1>2, ElementOfSeq
    <3>2. SubSeq(content, 1, line + 1) \in Seq(Line) BY <1>1, <3>1, SubSeqProperties
    <3> QED BY <1>1, <1>7, <3>2, TxnTypes
  <2> QED BY <1>1, <1>7, <2>1, <2>2, RecordTypes DEF TypeOK
<1>12. txn[w].full # NoRow BY <1>1, <1>3, ItemsAssumption DEF ItemsAssumption, Line
<1> QED BY <1>7, <1>8, <1>9, <1>10, <1>11, <1>12, OwnStep

(* The steps that end a transaction.                                        *)
LEMMA EndSteps ==
    ASSUME RecordInv, NEW w \in Writer,
           \/ CommitRecord(w) \/ CommitObservability(w) \/ RecordFails(w)
           \/ ObservabilityFails(w) \/ ReapTransaction(w)
    PROVE  RecordInv'
<1>1. TypeOK /\ ShapeOf(w) BY DEF RecordInv
<1>2. UNCHANGED <<lock, transcript, plane, ended>>
  BY DEF CommitRecord, CommitObservability, RecordFails, ObservabilityFails, ReapTransaction
<1>3. faults' \in 0 .. MaxFaults
  BY <1>1, FaultTypes
     DEF TypeOK, CommitRecord, CommitObservability, RecordFails, ObservabilityFails,
         ReapTransaction
<1>4. node' \in [Writer -> Nodes] /\ run' \in [Writer -> Runs]
  <2>1. CASE CommitRecord(w)
    BY <1>1, <2>1, GotoTypes, RunTypes, EmptySeq DEF CommitRecord, TypeOK, Pcs
  <2>2. CASE CommitObservability(w)
    BY <1>1, <2>2, GotoTypes DEF CommitObservability, TypeOK, Pcs
  <2>3. CASE RecordFails(w) BY <1>1, <2>3, ThrowTypes DEF RecordFails
  <2>4. CASE ObservabilityFails(w)
    BY <1>1, <2>4, ThrowTypes, GotoTypes DEF ObservabilityFails, TypeOK, Pcs
  <2>5. CASE ReapTransaction(w) BY <1>1, <2>5 DEF ReapTransaction, TypeOK
  <2> QED BY <2>1, <2>2, <2>3, <2>4, <2>5
<1>5. /\ node'[w].pc \notin InTxn \/ ~node'[w].up
      /\ \A v \in Writer \ {w} : node'[v] = node[v] /\ run'[v] = run[v]
  <2>1. run \in [Writer -> Runs] BY <1>1 DEF TypeOK
  <2>2. CASE CommitRecord(w)
    BY <1>1, <2>1, <2>2, OneWriterMoves DEF CommitRecord, InTxn
  <2>3. CASE CommitObservability(w)
    BY <1>1, <2>3, OneWriterMoves DEF CommitObservability, InTxn
  <2>4. CASE RecordFails(w) BY <1>1, <2>4, OneWriterMoves DEF RecordFails, InTxn
  <2>5. CASE ObservabilityFails(w)
    BY <1>1, <2>5, OneWriterMoves DEF ObservabilityFails, InTxn
  <2>6. CASE ReapTransaction(w) BY <2>6 DEF ReapTransaction
  <2> QED BY <2>2, <2>3, <2>4, <2>5, <2>6
<1>6. CASE Abort(w)
  <2>1. TypeOK' BY <1>1, <1>2, <1>3, <1>4, <1>6, AbortTypes, RecordTypes DEF Abort
  <2> QED BY <1>5, <1>6, <2>1, AbortStep
<1>7. CASE /\ Commit(w) /\ txn[w].open
           /\ \/ node[w].pc = "lines" /\ run[w].line = Len(run[w].content)
              \/ node[w].pc = "obsCommit"
  <2>1. TypeOK' BY <1>1, <1>2, <1>3, <1>4, <1>7, CommitTypes, RecordTypes DEF Commit
  <2> QED BY <1>5, <1>7, <2>1, CommitStep
<1>8. node[w].up /\ node[w].pc \in {"lines", "obsCommit"} => txn[w].open
  BY <1>1 DEF ShapeOf, InTxn
<1> QED BY <1>6, <1>7, <1>8
        DEF CommitRecord, CommitObservability, RecordFails, ObservabilityFails, ReapTransaction, At

LEMMA ObservabilityStep ==
    ASSUME RecordInv, NEW w \in Writer, WriteObservability(w)
    PROVE  /\ RecordInv' /\ db' = db /\ txn[w].open
           /\ \A v \in Writer \ {w} : txn'[v] = txn[v] /\ node'[v] = node[v]
           /\ txn'[w].obs = txn[w].obs \cup {<<Current(w), TerminalStatus(w)>>}
           /\ node'[w].pc = "obsCommit" /\ node'[w].item = node[w].item
           /\ node'[w].up = node[w].up
           /\ txn'[w].open
<1> DEFINE rows == txn[w].obs \cup {<<Current(w), TerminalStatus(w)>>}
<1>1. TypeOK /\ ShapeOf(w) /\ txn[w] \in Txns
  BY DEF RecordInv, TypeOK
<1>2. node[w].up /\ node[w].pc = "obsRows" /\ txn[w].open
  BY <1>1 DEF WriteObservability, At, ShapeOf, InTxn
<1>3. /\ db' = db /\ schema' = schema /\ txn' = [txn EXCEPT ![w].obs = rows]
      /\ Goto(w, "obsCommit")
      /\ UNCHANGED <<run, lock, transcript, plane, ended, faults>>
  <2>1. Write(w, "obs", rows)
    BY <1>2 DEF WriteObservability, InsertObservability, EventRows
  <2> QED BY <1>1, <1>2, <2>1, OpenWrites DEF WriteObservability, Write
<1>4. /\ txn'[w].full = txn[w].full /\ txn'[w].events = txn[w].events /\ txn'[w].obs = rows
      /\ txn'[w].open /\ \A v \in Writer \ {w} : txn'[v] = txn[v]
  BY <1>1, <1>2, <1>3 DEF TypeOK, Txns
<1>5. /\ node'[w].pc = "obsCommit" /\ node'[w].item = node[w].item
      /\ node'[w].up = node[w].up /\ \A v \in Writer \ {w} : node'[v] = node[v]
  BY <1>1, <1>3, GotoStep
<1>6. txn[w].full = NoRow /\ txn[w].events = NoRow BY <1>1, <1>2 DEF ShapeOf
<1>7. ShapeOf(w)' BY <1>4, <1>5, <1>6 DEF ShapeOf, InTxn
<1>8. TypeOK'
  <2>1. node' \in [Writer -> Nodes] BY <1>1, <1>3, GotoTypes DEF Pcs
  <2>2. TerminalStatus(w) \in {"completed", "paused_hitl", "failed"} BY DEF TerminalStatus
  <2>3. Current(w) \in Line BY <1>1, CurrentType
  <2>4. rows \in SUBSET ObsRow BY <1>1, <2>2, <2>3 DEF Txns, ObsRow
  <2>5. txn' \in [Writer -> Txns] BY <1>1, <1>3, <2>4, TxnTypes
  <2> QED BY <1>1, <1>3, <2>1, <2>5, RecordTypes DEF TypeOK
<1>9. RecordInv' BY <1>3, <1>4, <1>5, <1>6, <1>7, <1>8, OwnStep
<1> QED BY <1>2, <1>3, <1>4, <1>5, <1>9

LEMMA QuietSteps ==
    ASSUME RecordInv, NEW w \in Writer,
           \/ PassThrough(w) \/ BeginItem(w) \/ FinishNode(w) \/ CloseNode(w)
           \/ EnsureReady(w) \/ SupplyMemory(w) \/ MissMemory(w) \/ AcquireLock(w)
           \/ ResolveSession(w) \/ RecordStarted(w) \/ RunAgent(w) \/ PersistMetadata(w)
           \/ ReadContent(w) \/ CreateTables(w) \/ Flush(w) \/ CreateObservabilityTable(w)
           \/ ReleaseLock(w) \/ RecordCompleted(w) \/ RecordFailed(w) \/ ReturnItem(w)
           \/ CatchItem(w) \/ Crash(w) \/ ReapLock(w)
    PROVE  RecordInv'
<1>1. TypeOK' BY PlainTypes, ItemTypes DEF RecordInv
<1>2. (\A v \in Writer : ShapeOf(v)') /\ OneRow' /\ RecordMatches' BY QuietActions, QuietStep
<1> QED BY <1>1, <1>2 DEF RecordInv

LEMMA RecordInitially == Init => RecordInv
<1> SUFFICES ASSUME Init PROVE RecordInv OBVIOUS
<1>1. TypeOK BY InitTypes
<1>2. ASSUME NEW w \in Writer PROVE ShapeOf(w)
  BY DEF ShapeOf, Init, RecordInit, NoTxn, InTxn
<1>3. OneRow BY DEF OneRow, Init, RecordInit, NoTxn
<1>4. RecordMatches BY DEF RecordMatches, Init, RecordInit
<1> QED BY <1>1, <1>2, <1>3, <1>4 DEF RecordInv

LEMMA RecordPreserved == RecordInv /\ [Next]_vars => RecordInv'
<1> SUFFICES ASSUME RecordInv, [Next]_vars PROVE RecordInv' OBVIOUS
<1>1. ASSUME NEW w \in Writer, Step(w) PROVE RecordInv'
  BY <1>1, QuietSteps, BeginSteps, UpdateSteps, DeleteStep, LineStep, EndSteps,
     ObservabilityStep DEF Step
<1>2. ASSUME NEW w \in Writer, Stop(w) PROVE RecordInv'
  BY <1>2, QuietSteps, EndSteps DEF Stop
<1>3. CASE UNCHANGED vars
  BY <1>3 DEF RecordInv, TypeOK, ShapeOf, OneRow, RecordMatches, vars, recordVars
<1> QED BY <1>1, <1>2, <1>3 DEF Next

(* The archive row and the event rows always tell the same session:        *)
(* persistFullSessionToPostgresPool writes both or neither, however many   *)
(* workers write, fail and stop.                                           *)
THEOREM RecordStaysWhole == Spec => []RecordMatches
<1>1. Init => RecordInv BY RecordInitially
<1>2. RecordInv /\ [Next]_vars => RecordInv' BY RecordPreserved
<1>3. RecordInv => RecordMatches BY DEF RecordInv
<1> QED BY <1>1, <1>2, <1>3, PTL DEF Spec

(* The variables of the item loop and of the record keep their types.       *)
THEOREM ItemsTypeCorrect == Spec => []TypeOK
<1>1. Init => RecordInv BY RecordInitially
<1>2. RecordInv /\ [Next]_vars => RecordInv' BY RecordPreserved
<1>3. RecordInv => TypeOK BY DEF RecordInv
<1> QED BY <1>1, <1>2, <1>3, PTL DEF Spec
----------------------------------------------------------------------------
(* The rows of an item are written by its own flush, once.                  *)
Early == {"next", "ready", "memory", "lock", "resolve", "start", "agent", "metadata", "content",
          "tables", "begin", "update", "insert", "delete", "lines"}

NotYetTold(w) ==
    \/ node[w].pc = "next"
    \/ node[w].pc \notin {"end", "closed"} /\ ~run[w].flushed
    \/ node[w].up /\ node[w].pc \in Observing
    \/ txn[w].open

OutcomeOf(w) ==
    /\ \A r \in txn[w].obs : r[1] = Current(w)
    /\ \A r, s \in txn[w].obs : r = s
    /\ node[w].pc # "obsCommit" => txn[w].obs = {}
    /\ node[w].pc \in Observing => run[w].flushed
    /\ node[w].pc \in Early => ~run[w].flushed
    /\ \A r \in db.obs :
          r[1][1] = w => r[1][2] <= node[w].item
    /\ NotYetTold(w) => \A r \in db.obs : r[1] # Current(w)

OutcomeInv == OneOutcome /\ \A w \in Writer : OutcomeOf(w)


(* A step of one worker that writes no row.                                 *)
LEMMA OutcomeStays ==
    ASSUME OutcomeInv, NEW w \in Writer, db'.obs = db.obs, OutcomeOf(w)',
           \A v \in Writer \ {w} : node'[v] = node[v] /\ run'[v] = run[v] /\ txn'[v] = txn[v]
    PROVE  OutcomeInv'
<1>1. ASSUME NEW v \in Writer \ {w} PROVE OutcomeOf(v)'
  <2>1. OutcomeOf(v) BY DEF OutcomeInv
  <2> QED BY <2>1 DEF OutcomeOf, NotYetTold, Current
<1>2. OneOutcome' BY DEF OutcomeInv, OneOutcome
<1> QED BY <1>1, <1>2 DEF OutcomeInv

(* One that stays with its item and is no nearer to its flush.              *)
LEMMA ItemStays ==
    ASSUME OutcomeInv, NEW w \in Writer, db'.obs = db.obs, txn'[w].obs = {},
           node'[w].item = node[w].item,
           node'[w].pc \in Observing => run'[w].flushed,
           node'[w].pc \in Early => ~run'[w].flushed,
           NotYetTold(w)' => NotYetTold(w),
           \A v \in Writer \ {w} : node'[v] = node[v] /\ run'[v] = run[v] /\ txn'[v] = txn[v]
    PROVE  OutcomeInv'
<1>1. OutcomeOf(w) BY DEF OutcomeInv
<1>2. OutcomeOf(w)' BY <1>1 DEF OutcomeOf, Current
<1> QED BY <1>2, OutcomeStays

(* One that goes on to the next item.                                       *)
LEMMA ItemAdvances ==
    ASSUME RecordInv, OutcomeInv, NEW w \in Writer, UNCHANGED <<db, txn>>, ~txn[w].open,
           node'[w].item = node[w].item + 1, node'[w].pc = "next", ~run'[w].flushed,
           \A v \in Writer \ {w} : node'[v] = node[v] /\ run'[v] = run[v]
    PROVE  OutcomeInv'
<1>1. OutcomeOf(w) /\ ShapeOf(w) BY DEF OutcomeInv, RecordInv
<1>2. node[w].item \in Nat BY DEF RecordInv, TypeOK, Nodes
<1>3. db.obs \subseteq (Writer \X Nat) \X {"completed", "paused_hitl", "failed"}
  BY DEF RecordInv, TypeOK, Dbs, ObsRow, Line
<1>4. \A r \in db.obs : r[1][1] = w => r[1][2] <= node[w].item /\ r[1][2] \in Nat
  BY <1>1, <1>3 DEF OutcomeOf
<1>5. \A r \in db.obs : r[1][1] = w => r[1][2] <= node[w].item + 1 /\ r[1][2] # node[w].item + 1
  BY <1>2, <1>4
<1>6. \A r \in db.obs : r[1] # Current(w)'
  BY <1>5 DEF Current
<1>7. txn'[w].obs = {} BY <1>1 DEF ShapeOf
<1>8. OutcomeOf(w)'
  BY <1>5, <1>6, <1>7 DEF OutcomeOf, Observing
<1> QED BY <1>8, OutcomeStays

(* A COMMIT publishes the rows of its own item only, of which none was      *)
(* there.                                                                   *)
LEMMA OutcomeCommit ==
    ASSUME RecordInv, OutcomeInv, NEW w \in Writer, Commit(w), txn[w].open,
           \/ node[w].pc = "lines" /\ run[w].line = Len(run[w].content)
           \/ node[w].pc = "obsCommit",
           node'[w].item = node[w].item,
           node'[w].pc \in Observing => run'[w].flushed,
           node'[w].pc \in Early => ~run'[w].flushed,
           node[w].pc = "obsCommit" => ~NotYetTold(w)',
           NotYetTold(w)' => NotYetTold(w),
           \A v \in Writer \ {w} : node'[v] = node[v] /\ run'[v] = run[v]
    PROVE  OutcomeInv'
<1>1. OutcomeOf(w) /\ OneOutcome BY DEF OutcomeInv
<1>2. db'.obs = db.obs \cup txn[w].obs BY CommitLeaves
<1>3. txn'[w] = NoTxn /\ \A v \in Writer \ {w} : txn'[v] = txn[v]
  BY DEF Commit, RecordInv, TypeOK
<1>4. CASE node[w].pc # "obsCommit"
  <2>1. txn[w].obs = {} BY <1>1, <1>4 DEF OutcomeOf
  <2>2. db'.obs = db.obs BY <1>2, <2>1
  <2> QED BY <1>3, <2>2, ItemStays DEF NoTxn
<1>5. CASE node[w].pc = "obsCommit"
  <2>1. /\ \A r \in txn[w].obs : r[1] = Current(w)
        /\ \A r, s \in txn[w].obs : r = s
        /\ \A r \in db.obs : r[1] # Current(w)
    BY <1>1 DEF OutcomeOf, NotYetTold
  <2>2. OneOutcome' BY <1>1, <1>2, <2>1 DEF OneOutcome
  <2>3. node[w].item \in Nat BY DEF RecordInv, TypeOK, Nodes
  <2>4. OutcomeOf(w)'
    <3>1. \A r \in db'.obs : r[1][1] = w => r[1][2] <= node[w].item
      BY <1>1, <1>2, <2>1, <2>3 DEF OutcomeOf, Current
    <3> QED BY <1>3, <1>5, <3>1 DEF OutcomeOf, NoTxn
  <2>5. ASSUME NEW v \in Writer \ {w} PROVE OutcomeOf(v)'
    <3>1. OutcomeOf(v) BY DEF OutcomeInv
    <3>2. \A r \in txn[w].obs : r[1][1] # v /\ r[1] # Current(v) BY <2>1 DEF Current
    <3>3. \A r \in db'.obs : r \in db.obs \/ (r[1][1] # v /\ r[1] # Current(v))
      BY <1>2, <3>2
    <3> QED BY <1>3, <3>1, <3>3 DEF OutcomeOf, NotYetTold, Current
  <2> QED BY <2>2, <2>4, <2>5 DEF OutcomeInv
<1> QED BY <1>4, <1>5

(* Steps inside an item that neither begin nor end its flush.               *)
LEMMA WithinItem ==
    ASSUME RecordInv, NEW w \in Writer,
           \/ EnsureReady(w) \/ SupplyMemory(w) \/ MissMemory(w) \/ AcquireLock(w)
           \/ ResolveSession(w) \/ RecordStarted(w) \/ RunAgent(w) \/ PersistMetadata(w)
           \/ ReadContent(w) \/ CreateTables(w) \/ ReleaseLock(w) \/ RecordCompleted(w)
           \/ RecordFailed(w)
    PROVE  /\ node'[w].item = node[w].item /\ run'[w].flushed = run[w].flushed
           /\ node[w].pc \notin {"next", "end", "closed"}
           /\ node'[w].pc \notin {"next", "end", "closed"} \cup Observing
           /\ node'[w].pc \in Early => node[w].pc \in Early
<1> DEFINE Within == /\ node'[w].item = node[w].item /\ run'[w].flushed = run[w].flushed
                     /\ node[w].pc \notin {"next", "end", "closed"}
                     /\ node'[w].pc \notin {"next", "end", "closed"} \cup Observing
                     /\ node'[w].pc \in Early => node[w].pc \in Early
<1>0. TypeOK /\ run \in [Writer -> Runs] BY DEF RecordInv, TypeOK
<1>1. ASSUME EnsureReady(w) PROVE Within
  BY <1>1, <1>0, GotoStep DEF EnsureReady, ThrowOutside, At, Runs, Observing, Early
<1>2. ASSUME SupplyMemory(w) PROVE Within
  BY <1>2, <1>0, GotoStep DEF SupplyMemory, EnsureTables, At, Runs, Observing, Early
<1>3. ASSUME MissMemory(w) PROVE Within
  BY <1>3, <1>0, GotoStep DEF MissMemory, At, Runs, Observing, Early
<1>4. ASSUME AcquireLock(w) PROVE Within
  BY <1>4, <1>0, GotoStep DEF AcquireLock, Throw, At, Runs, Observing, Early
<1>5. ASSUME ResolveSession(w) PROVE Within
  BY <1>5, <1>0, GotoStep DEF ResolveSession, Throw, At, Runs, Observing, Early
<1>6. ASSUME RecordStarted(w) PROVE Within
  BY <1>6, <1>0, GotoStep DEF RecordStarted, Throw, At, Runs, Observing, Early
<1>7. ASSUME RunAgent(w) PROVE Within
  BY <1>7, <1>0, GotoStep DEF RunAgent, Throw, At, Runs, Observing, Early
<1>8. ASSUME PersistMetadata(w) PROVE Within
  BY <1>8, <1>0, GotoStep DEF PersistMetadata, Throw, At, Runs, Observing, Early
<1>9. ASSUME ReadContent(w) PROVE Within
  BY <1>9, <1>0, GotoStep DEF ReadContent, At, Runs, Observing, Early
<1>10. ASSUME CreateTables(w) PROVE Within
  BY <1>10, <1>0, GotoStep DEF CreateTables, EnsureTables, At, Runs, Observing, Early
<1>11. ASSUME ReleaseLock(w) PROVE Within
  BY <1>11, <1>0, GotoStep DEF ReleaseLock, At, Runs, Observing, Early
<1>12. ASSUME RecordCompleted(w) PROVE Within
  BY <1>12, <1>0, GotoStep DEF RecordCompleted, At, Runs, Observing, Early
<1>13. ASSUME RecordFailed(w) PROVE Within
  BY <1>13, <1>0, GotoStep DEF RecordFailed, At, Runs, Observing, Early
<1> QED BY <1>1, <1>2, <1>3, <1>4, <1>5, <1>6, <1>7, <1>8, <1>9, <1>10, <1>11, <1>12, <1>13

LEMMA OutcomeQuiet ==
    ASSUME RecordInv, OutcomeInv, NEW w \in Writer,
           \/ PassThrough(w) \/ BeginItem(w) \/ FinishNode(w) \/ CloseNode(w)
           \/ EnsureReady(w) \/ SupplyMemory(w) \/ MissMemory(w) \/ AcquireLock(w)
           \/ ResolveSession(w) \/ RecordStarted(w) \/ RunAgent(w) \/ PersistMetadata(w)
           \/ ReadContent(w) \/ CreateTables(w) \/ Flush(w) \/ CreateObservabilityTable(w)
           \/ ReleaseLock(w) \/ RecordCompleted(w) \/ RecordFailed(w) \/ ReturnItem(w)
           \/ CatchItem(w) \/ Crash(w) \/ ReapLock(w)
    PROVE  OutcomeInv'
<1>0. TypeOK /\ run \in [Writer -> Runs] /\ node \in [Writer -> Nodes] /\ ShapeOf(w) /\ OutcomeOf(w)
  BY DEF RecordInv, TypeOK, OutcomeInv
<1>1. /\ UNCHANGED <<db, txn>>
      /\ \A v \in Writer \ {w} : node'[v] = node[v] /\ run'[v] = run[v]
      /\ \/ ~txn[w].open /\ node'[w].pc \notin InTxn
         \/ node'[w].pc = node[w].pc /\ run'[w] = run[w] /\ (node'[w].up => node[w].up)
  BY QuietActions
<1>2. CASE \/ EnsureReady(w) \/ SupplyMemory(w) \/ MissMemory(w) \/ AcquireLock(w)
           \/ ResolveSession(w) \/ RecordStarted(w) \/ RunAgent(w) \/ PersistMetadata(w)
           \/ ReadContent(w) \/ CreateTables(w) \/ ReleaseLock(w) \/ RecordCompleted(w)
           \/ RecordFailed(w)
  <2>1. /\ node'[w].item = node[w].item /\ run'[w].flushed = run[w].flushed
        /\ node[w].pc \notin {"next", "end", "closed"}
        /\ node'[w].pc \notin {"next", "end", "closed"} \cup Observing
        /\ node'[w].pc \in Early => ~run'[w].flushed
    BY <1>0, <1>2, WithinItem DEF OutcomeOf
  <2>2. node[w].up /\ node[w].pc \notin InTxn
    BY <1>2 DEF EnsureReady, SupplyMemory, MissMemory, AcquireLock, ResolveSession, RecordStarted,
                RunAgent, PersistMetadata, ReadContent, CreateTables, ReleaseLock,
                RecordCompleted, RecordFailed, At, InTxn
  <2>3. ~txn[w].open /\ txn[w].obs = {} BY <1>0, <2>2 DEF ShapeOf
  <2>4. NotYetTold(w)' => NotYetTold(w)
    BY <1>1, <2>1, <2>3 DEF NotYetTold
  <2> QED BY <1>1, <2>1, <2>3, <2>4, ItemStays
<1>3. ASSUME PassThrough(w) PROVE OutcomeInv'
  <2>1. node[w].pc = "next" /\ node' = [node EXCEPT ![w].item = @ + 1]
    BY <1>3 DEF PassThrough, At
  <2>2. node'[w].item = node[w].item + 1 /\ node'[w].pc = "next" BY <1>0, <2>1 DEF Nodes
  <2>3. ~txn[w].open BY <1>3, Outside DEF PassThrough, InTxn
  <2>4. ~run'[w].flushed BY <1>0, <1>3, <2>1 DEF PassThrough, OutcomeOf, Early
  <2> QED BY <1>1, <2>2, <2>3, <2>4, ItemAdvances
<1>4. ASSUME BeginItem(w) \/ FinishNode(w) \/ CloseNode(w) \/ Flush(w)
             \/ CreateObservabilityTable(w)
      PROVE  OutcomeInv'
  <2>1. ~txn[w].open /\ node[w].up
    BY <1>4, Outside
       DEF BeginItem, FinishNode, CloseNode, Flush, CreateObservabilityTable, At, InTxn
  <2>2. txn[w].obs = {} BY <1>0, <2>1 DEF ShapeOf
  <2>3. node'[w].item = node[w].item
    BY <1>0, <1>4, GotoStep
       DEF BeginItem, FinishNode, CloseNode, Flush, CreateObservabilityTable, ThrowOutside
  <2>4. CASE BeginItem(w)
    <3>1. /\ node[w].pc = "next" /\ node'[w].pc \notin Observing
          /\ run'[w].flushed = run[w].flushed
      BY <1>0, <2>4, GotoStep DEF BeginItem, ThrowOutside, At, Observing, Runs
    <3>2. ~run'[w].flushed BY <1>0, <3>1 DEF OutcomeOf, Early
    <3> QED BY <1>1, <2>2, <2>3, <3>1, <3>2, ItemStays DEF NotYetTold
  <2>5. CASE FinishNode(w) \/ CloseNode(w)
    <3>1. node'[w].pc \in {"end", "closed"}
      BY <1>0, <2>5, GotoStep DEF FinishNode, CloseNode
    <3>2. ~NotYetTold(w)' BY <1>1, <2>1, <3>1 DEF NotYetTold, Observing
    <3> QED BY <1>1, <2>2, <2>3, <3>1, <3>2, ItemStays DEF Observing, Early
  <2>6. CASE Flush(w)
    <3>1. /\ node[w].pc = "flush" /\ run'[w].flushed
          /\ node'[w].pc = "release" \/ (node'[w].pc = "obsTables" /\ ~run[w].flushed)
      BY <1>0, <2>6, GotoStep DEF Flush, At, Runs
    <3>2. NotYetTold(w)' => NotYetTold(w) BY <1>1, <2>1, <3>1 DEF NotYetTold, Observing
    <3> QED BY <1>1, <2>2, <2>3, <3>1, <3>2, ItemStays DEF Early
  <2>7. CASE CreateObservabilityTable(w)
    <3>1. /\ node[w].pc = "obsTables" /\ node'[w].pc = "obsBegin" /\ run' = run
      BY <1>0, <2>7, GotoStep DEF CreateObservabilityTable, At
    <3>2. NotYetTold(w) /\ run[w].flushed
      BY <1>0, <2>1, <3>1 DEF NotYetTold, OutcomeOf, Observing
    <3> QED BY <1>1, <2>2, <2>3, <3>1, <3>2, ItemStays DEF Early
  <2> QED BY <1>4, <2>4, <2>5, <2>6, <2>7
<1>5. ASSUME ReturnItem(w) \/ CatchItem(w) PROVE OutcomeInv'
  <2>1. ~txn[w].open /\ node[w].up
    BY <1>5, Outside DEF ReturnItem, CatchItem, At, InTxn
  <2>2. PICK how, pc : EndItem(w, how, pc) /\ pc \in {"next", "end"}
    BY <1>5 DEF ReturnItem, CatchItem
  <2>3. CASE pc = "next"
    <3>1. node' = [node EXCEPT ![w].pc = "next", ![w].item = node[w].item + 1]
      BY <2>2, <2>3 DEF EndItem
    <3>2. node'[w].pc = "next" /\ node'[w].item = node[w].item + 1 BY <1>0, <3>1 DEF Nodes
    <3>3. ~run'[w].flushed BY <1>0, <2>2 DEF EndItem, NoRun
    <3> QED BY <1>1, <2>1, <3>2, <3>3, ItemAdvances
  <2>4. CASE pc = "end"
    <3>1. node' = [node EXCEPT ![w].pc = "end", ![w].item = node[w].item]
      BY <2>2, <2>4 DEF EndItem
    <3>2. node'[w].pc = "end" /\ node'[w].item = node[w].item BY <1>0, <3>1 DEF Nodes
    <3>3. ~NotYetTold(w)' BY <1>1, <2>1, <3>2 DEF NotYetTold, Observing
    <3>4. txn[w].obs = {} BY <1>0, <2>1 DEF ShapeOf
    <3> QED BY <1>1, <3>2, <3>3, <3>4, ItemStays DEF Observing, Early
  <2> QED BY <2>2, <2>3, <2>4
<1>6. ASSUME Crash(w) \/ ReapLock(w) PROVE OutcomeInv'
  <2>1. /\ node'[w].pc = node[w].pc /\ node'[w].item = node[w].item
        /\ node'[w].up => node[w].up
        /\ run' = run
    BY <1>0, <1>6 DEF Crash, ReapLock, Nodes
  <2>2. NotYetTold(w)' => NotYetTold(w) BY <1>1, <2>1 DEF NotYetTold
  <2>3. OutcomeOf(w)' BY <1>0, <1>1, <2>1, <2>2 DEF OutcomeOf, Current
  <2> QED BY <1>1, <2>3, OutcomeStays
<1> QED BY <1>2, <1>3, <1>4, <1>5, <1>6

LEMMA OutcomeRecord ==
    ASSUME RecordInv, OutcomeInv, NEW w \in Writer,
           \/ BeginRecord(w) \/ UpdateFull(w) \/ InsertFull(w) \/ DeleteLines(w)
           \/ InsertLine(w) \/ BeginObservability(w) \/ WriteObservability(w)
    PROVE  OutcomeInv'
<1>0. /\ TypeOK /\ run \in [Writer -> Runs] /\ node \in [Writer -> Nodes]
      /\ txn \in [Writer -> Txns]
      /\ ShapeOf(w) /\ OutcomeOf(w)
  BY DEF RecordInv, TypeOK, OutcomeInv
<1>1. CASE BeginRecord(w) \/ BeginObservability(w)
  <2>1. /\ db' = db /\ run' = run /\ txn'[w].obs = {}
        /\ \A v \in Writer \ {w} : txn'[v] = txn[v]
    BY <1>0, <1>1 DEF BeginRecord, BeginObservability, Begin, NoTxn
  <2>2. \/ node[w].pc = "begin" /\ Goto(w, "update")
        \/ node[w].up /\ node[w].pc = "obsBegin" /\ Goto(w, "obsRows")
    BY <1>1 DEF BeginRecord, BeginObservability, At
  <2>3. /\ \A v \in Writer \ {w} : node'[v] = node[v]
        /\ node'[w].item = node[w].item /\ node'[w].up = node[w].up
        /\ \/ node[w].pc = "begin" /\ node'[w].pc = "update"
           \/ node[w].up /\ node[w].pc = "obsBegin" /\ node'[w].pc = "obsRows"
    BY <1>0, <2>2, GotoStep
  <2>4. /\ node'[w].pc \in Observing => run'[w].flushed
        /\ node'[w].pc \in Early => ~run'[w].flushed
    BY <1>0, <2>1, <2>3 DEF OutcomeOf, Observing, Early
  <2>5. NotYetTold(w) BY <1>0, <2>3 DEF NotYetTold, OutcomeOf, Observing, Early
  <2> QED BY <2>1, <2>3, <2>4, <2>5, ItemStays
<1>2. CASE UpdateFull(w) \/ InsertFull(w) \/ DeleteLines(w) \/ InsertLine(w)
  <2>1. /\ node[w].up /\ txn[w].open /\ node[w].pc \in {"update", "insert", "delete", "lines"}
    BY <1>0, <1>2 DEF UpdateFull, InsertFull, DeleteLines, InsertLine, At, ShapeOf, InTxn
  <2>2. txn[w].obs = {} /\ ~run[w].flushed /\ NotYetTold(w)
    BY <1>0, <2>1 DEF OutcomeOf, Early, NotYetTold
  <2>3. /\ node'[w].item = node[w].item /\ node'[w].pc \notin Observing
        /\ \A v \in Writer \ {w} : node'[v] = node[v]
    BY <1>0, <1>2, <2>1, GotoStep
       DEF UpdateFull, InsertFull, DeleteLines, InsertLine, Throw, Observing
  <2>4. ~run'[w].flushed /\ \A v \in Writer \ {w} : run'[v] = run[v]
    <3>1. CASE run' = run BY <2>2, <3>1
    <3>2. CASE \E kind : Throw(w, kind)
      BY <1>0, <2>2, <3>2 DEF Throw, Runs
    <3>3. CASE \E n : run' = [run EXCEPT ![w].line = n]
      BY <1>0, <2>2, <3>3 DEF Runs
    <3> QED BY <1>2, <3>1, <3>2, <3>3 DEF UpdateFull, InsertFull, DeleteLines, InsertLine
  <2>5. db' = db /\ txn'[w].obs = {} /\ \A v \in Writer \ {w} : txn'[v] = txn[v]
    <3>1. CASE \E v : Write(w, "full", v) \/ Write(w, "events", v)
      BY <1>0, <2>1, <2>2, <3>1, OpenWrites DEF Txns
    <3>2. CASE UNCHANGED recordVars BY <2>2, <3>2 DEF recordVars
    <3>3. CASE Abort(w) BY <1>0, <3>3 DEF Abort, NoTxn
    <3>4. CASE DeleteEvents(w) BY <1>0, <2>1, <2>2, <3>4 DEF DeleteEvents, Txns
    <3> QED BY <1>2, <3>1, <3>2, <3>3, <3>4
            DEF UpdateFull, InsertFull, DeleteLines, InsertLine, UpdateRow, InsertRow,
                UpdateMisses, InsertEvent
  <2> QED BY <2>2, <2>3, <2>4, <2>5, ItemStays
<1>3. CASE WriteObservability(w)
  <2>1. /\ db' = db /\ txn[w].open /\ run' = run
        /\ \A v \in Writer \ {w} : txn'[v] = txn[v] /\ node'[v] = node[v]
        /\ txn'[w].obs = txn[w].obs \cup {<<Current(w), TerminalStatus(w)>>}
        /\ node'[w].pc = "obsCommit" /\ node'[w].item = node[w].item
    BY <1>3, ObservabilityStep DEF WriteObservability
  <2>2. node[w].pc = "obsRows" BY <1>3 DEF WriteObservability, At
  <2>3. txn[w].obs = {} /\ run[w].flushed /\ NotYetTold(w)
    BY <1>0, <2>1, <2>2 DEF OutcomeOf, NotYetTold, Observing
  <2>4. txn'[w].obs = {<<Current(w), TerminalStatus(w)>>} /\ Current(w)' = Current(w)
    BY <2>1, <2>3 DEF Current
  <2>5. OutcomeOf(w)'
    <3>1. /\ \A r \in txn'[w].obs : r[1] = Current(w)'
          /\ \A r, s \in txn'[w].obs : r = s
      BY <2>4
    <3>2. \A r \in db.obs : r[1] # Current(w) BY <1>0, <2>3 DEF OutcomeOf
    <3> QED BY <1>0, <2>1, <2>3, <2>4, <3>1, <3>2 DEF OutcomeOf, Observing, Early
  <2> QED BY <2>1, <2>5, OutcomeStays
<1> QED BY <1>1, <1>2, <1>3

LEMMA OutcomeEnd ==
    ASSUME RecordInv, OutcomeInv, NEW w \in Writer,
           \/ CommitRecord(w) \/ CommitObservability(w) \/ RecordFails(w)
           \/ ObservabilityFails(w) \/ ReapTransaction(w)
    PROVE  OutcomeInv'
<1>0. /\ TypeOK /\ run \in [Writer -> Runs] /\ node \in [Writer -> Nodes]
      /\ txn \in [Writer -> Txns]
      /\ ShapeOf(w) /\ OutcomeOf(w)
  BY DEF RecordInv, TypeOK, OutcomeInv
<1>1. /\ node'[w].item = node[w].item /\ run'[w].flushed = run[w].flushed
      /\ \A v \in Writer \ {w} : node'[v] = node[v] /\ run'[v] = run[v]
  BY <1>0, GotoStep
     DEF CommitRecord, CommitObservability, RecordFails, ObservabilityFails, ReapTransaction,
         Throw, Runs
<1>2. \/ node[w].pc \in {"tables", "begin", "update", "insert", "delete", "lines"}
         /\ node'[w].pc \in {"flush", "catch"}
      \/ node[w].pc \in Observing /\ node'[w].pc \in {"release", "catch"}
      \/ ~node[w].up /\ txn[w].open /\ node' = node
  BY <1>0, GotoStep
     DEF CommitRecord, CommitObservability, RecordFails, ObservabilityFails, ReapTransaction,
         Throw, At, Observing
<1>3. Commit(w) \/ Abort(w)
  BY DEF CommitRecord, CommitObservability, RecordFails, ObservabilityFails, ReapTransaction
<1>4. ~txn'[w].open /\ txn'[w].obs = {} /\ \A v \in Writer \ {w} : txn'[v] = txn[v]
  BY <1>0, <1>3 DEF Commit, Abort, NoTxn
<1>5. /\ node'[w].pc \in Observing => run'[w].flushed
      /\ node'[w].pc \in Early => ~run'[w].flushed
  BY <1>0, <1>1, <1>2 DEF OutcomeOf, Observing, Early
<1>6. NotYetTold(w)' => NotYetTold(w)
  BY <1>0, <1>1, <1>2, <1>4 DEF NotYetTold, OutcomeOf, Observing, Early
<1>7. CASE Abort(w) BY <1>1, <1>4, <1>5, <1>6, <1>7, ItemStays DEF Abort
<1>8. CASE Commit(w) /\ ~Abort(w)
  <2>1. /\ txn[w].open
        /\ \/ node[w].pc = "lines" /\ run[w].line = Len(run[w].content)
           \/ node[w].pc = "obsCommit"
    BY <1>0, <1>8
       DEF CommitRecord, CommitObservability, RecordFails, ObservabilityFails, ReapTransaction,
           ShapeOf, InTxn, At
  <2>2. node[w].pc = "obsCommit" => ~NotYetTold(w)'
    BY <1>0, <1>1, <1>2, <1>4 DEF NotYetTold, OutcomeOf, Observing, Early
  <2> QED BY <1>1, <1>5, <1>6, <1>8, <2>1, <2>2, OutcomeCommit
<1> QED BY <1>3, <1>7, <1>8

LEMMA OutcomeInitially == Init => OutcomeInv
<1> SUFFICES ASSUME Init PROVE OutcomeInv OBVIOUS
<1>1. db.obs = {} BY DEF Init, RecordInit
<1>2. ASSUME NEW w \in Writer PROVE OutcomeOf(w)
  BY <1>1 DEF OutcomeOf, Init, RecordInit, NoTxn, NoRun, Observing, Early
<1> QED BY <1>1, <1>2 DEF OutcomeInv, OneOutcome

LEMMA OutcomePreserved == RecordInv /\ OutcomeInv /\ [Next]_vars => OutcomeInv'
<1> SUFFICES ASSUME RecordInv, OutcomeInv, [Next]_vars PROVE OutcomeInv' OBVIOUS
<1>1. ASSUME NEW w \in Writer, Step(w) PROVE OutcomeInv'
  BY <1>1, OutcomeQuiet, OutcomeRecord, OutcomeEnd DEF Step
<1>2. ASSUME NEW w \in Writer, Stop(w) PROVE OutcomeInv'
  BY <1>2, OutcomeQuiet, OutcomeEnd DEF Stop
<1>3. CASE UNCHANGED vars
  BY <1>3 DEF OutcomeInv, OneOutcome, OutcomeOf, NotYetTold, Current, vars, recordVars
<1> QED BY <1>1, <1>2, <1>3 DEF Next

(* The rows of an item tell one terminal status: an item flushes once, and  *)
(* what a COMMIT without an answer published is never written again.        *)
THEOREM OutcomeToldOnce == Spec => []OneOutcome
<1>1. Init => RecordInv /\ OutcomeInv BY RecordInitially, OutcomeInitially
<1>2. RecordInv /\ OutcomeInv /\ [Next]_vars => (RecordInv /\ OutcomeInv)'
  BY RecordPreserved, OutcomePreserved
<1>3. RecordInv /\ OutcomeInv => OneOutcome BY DEF OutcomeInv
<1> QED BY <1>1, <1>2, <1>3, PTL DEF Spec
----------------------------------------------------------------------------
(* Where the Agent Plane can have been told at most of a failure, and where *)
(* nothing is decided about an item.                                        *)
Telling == {"flush", "release", "thrown"} \cup Observing
Over == {"end", "closed"}

(* What the Agent Plane was told of an item of w: nothing before the item   *)
(* is over, except that it failed, on the way out of the catch block.       *)
ToldOf(w, i) ==
    /\ i[2] > node[w].item \/ (i = Current(w) /\ node[w].pc = "next") =>
          plane[i].told = {} /\ ended[i].how = "pending"
    /\ i = Current(w) /\ node[w].pc \notin Over =>
          /\ ended[i].how = "pending"
          /\ node[w].pc \notin Telling \cup {"return"} => plane[i].told = {}
          /\ node[w].pc \in Telling /\ run[w].error = "none" => plane[i].told = {}
          /\ node[w].pc \in Telling => plane[i].told \subseteq {"failed"}
          /\ node[w].pc = "return" => plane[i].told \subseteq {"completed"}
    /\ "failed" \in plane[i].told =>
          "completed" \notin plane[i].told /\ ended[i].how \notin {"completed", "paused"}

ErrorOf(w) ==
    /\ node[w].pc \in {"catch", "thrown"} => run[w].error # "none"
    /\ node[w].pc \in {"tell", "return"} => run[w].error = "none"

ItemsOf(w) == {i \in AllItems : i[1] = w}

PlaneInv == \A w \in Writer : ErrorOf(w) /\ \A i \in ItemsOf(w) : ToldOf(w, i)

(* A worker's step disturbs what is known of its own items only.            *)
LEMMA PlaneStays ==
    ASSUME PlaneInv, NEW w \in Writer,
           \A v \in Writer \ {w} : node'[v] = node[v] /\ run'[v] = run[v],
           \A i \in AllItems : i[1] # w =>
              plane'[i].told = plane[i].told /\ ended'[i].how = ended[i].how,
           ErrorOf(w)', \A i \in ItemsOf(w) : ToldOf(w, i)'
    PROVE  PlaneInv'
<1>1. ASSUME NEW v \in Writer \ {w} PROVE ErrorOf(v)' /\ \A i \in ItemsOf(v) : ToldOf(v, i)'
  <2>1. ErrorOf(v) /\ \A i \in ItemsOf(v) : ToldOf(v, i) BY DEF PlaneInv
  <2>2. \A i \in ItemsOf(v) : plane'[i].told = plane[i].told /\ ended'[i].how = ended[i].how
    BY DEF ItemsOf
  <2> QED BY <2>1, <2>2 DEF ErrorOf, ToldOf, Current
<1>2. ItemsOf(w)' = ItemsOf(w) /\ \A v \in Writer : ItemsOf(v)' = ItemsOf(v)
  BY DEF ItemsOf, AllItems
<1> QED BY <1>1, <1>2 DEF PlaneInv

(* A step within an item: what is told of it afterwards follows from what   *)
(* was told before and the two places.                                      *)
LEMMA PlaneWithin ==
    ASSUME TypeOK, PlaneInv, NEW w \in Writer, UNCHANGED ended,
           \A v \in Writer \ {w} : node'[v] = node[v] /\ run'[v] = run[v],
           \A i \in AllItems : i # Current(w) => plane'[i].told = plane[i].told,
           node'[w].item = node[w].item, ErrorOf(w)',
           ASSUME Current(w) \in AllItems PROVE ToldOf(w, Current(w))'
    PROVE  PlaneInv'
<1>1. ASSUME NEW i \in ItemsOf(w) PROVE ToldOf(w, i)'
  <2>1. ToldOf(w, i) BY DEF PlaneInv
  <2>2. i \in AllItems /\ Current(w)' = Current(w) BY DEF ItemsOf, Current
  <2>3. CASE i = Current(w)
    BY <2>2, <2>3 DEF ToldOf
  <2>4. CASE i # Current(w)
    BY <2>1, <2>2, <2>4 DEF ToldOf
  <2> QED BY <2>3, <2>4
<1>2. \A i \in AllItems : i[1] # w => i # Current(w) BY DEF Current
<1> QED BY <1>1, <1>2, PlaneStays

(* The steps that tell the Agent Plane nothing and end no item, by what     *)
(* they make of the worker's place and error.                               *)
Moves(w) ==
    \/ /\ node[w].pc \notin Telling \cup {"return"} \cup Over
       /\ node'[w].pc \notin {"next", "return"}
    \/ node[w].pc \in Telling /\ node'[w].pc \in Telling /\ run'[w].error = run[w].error
    \/ /\ node[w].pc \in Telling /\ run[w].error = "none"
       /\ node'[w].pc \notin {"next", "return"}
    \/ node[w].pc \in Over /\ node'[w].pc \in Over
    \/ node'[w].pc = node[w].pc /\ run'[w].error = run[w].error

Apart(w) == \A v \in Writer \ {w} : node'[v] = node[v] /\ run'[v] = run[v]

LEMMA PlaneMoves ==
    ASSUME TypeOK, PlaneInv, NEW w \in Writer, UNCHANGED ended,
           \A i \in AllItems : plane'[i].told = plane[i].told,
           Apart(w), node'[w].item = node[w].item, ErrorOf(w)', Moves(w)
    PROVE  PlaneInv'
<1>1. ASSUME Current(w) \in AllItems PROVE ToldOf(w, Current(w))'
  <2>0. PICK i \in AllItems : i = Current(w) BY <1>1
  <2>1. ToldOf(w, i) BY <2>0 DEF PlaneInv, ItemsOf, Current
  <2>2. i[2] = node[w].item /\ node[w].item \in Nat /\ Current(w)' = i
    BY <2>0 DEF TypeOK, Nodes, Current
  <2>3. plane'[i].told = plane[i].told /\ ended'[i].how = ended[i].how OBVIOUS
  <2>4. CASE node[w].pc \notin Telling \cup {"return"} \cup Over /\ node'[w].pc \notin {"next", "return"}
    BY <2>0, <2>1, <2>2, <2>3, <2>4 DEF ToldOf
  <2>5. CASE node[w].pc \in Telling /\ node'[w].pc \in Telling /\ run'[w].error = run[w].error
    BY <2>0, <2>1, <2>2, <2>3, <2>5 DEF ToldOf, Telling, Over, Observing
  <2>6. CASE /\ node[w].pc \in Telling /\ run[w].error = "none"
             /\ node'[w].pc \notin {"next", "return"}
    BY <2>0, <2>1, <2>2, <2>3, <2>6 DEF ToldOf, Telling, Over, Observing
  <2>7. CASE node[w].pc \in Over /\ node'[w].pc \in Over
    BY <2>0, <2>1, <2>2, <2>3, <2>7 DEF ToldOf, Over
  <2>8. CASE node'[w].pc = node[w].pc /\ run'[w].error = run[w].error
    BY <2>0, <2>1, <2>2, <2>3, <2>8 DEF ToldOf
  <2> QED BY <2>4, <2>5, <2>6, <2>7, <2>8 DEF Moves
<1> QED BY <1>1, PlaneWithin DEF Apart

LEMMA ThrowStep ==
    ASSUME TypeOK, NEW w \in Writer, NEW kind, Throw(w, kind)
    PROVE  /\ node'[w].pc = "catch" /\ node'[w].item = node[w].item /\ Apart(w)
           /\ run'[w].error = kind
<1>1. run \in [Writer -> Runs] BY DEF TypeOK
<1>2. run'[w].error = kind BY <1>1 DEF Throw, Runs
<1> QED BY <1>1, <1>2, GotoStep DEF Throw, Apart

(* Steps that go on to another place, or throw.                             *)
LEMMA PlaneGoes ==
    ASSUME TypeOK, PlaneInv, NEW w \in Writer, UNCHANGED ended,
           \A i \in AllItems : plane'[i].told = plane[i].told, NEW pc,
           Goto(w, pc), Apart(w), run'[w].error = run[w].error,
           pc \in {"catch", "thrown"} => run[w].error # "none",
           pc \in {"tell", "return"} => run[w].error = "none",
           \/ /\ node[w].pc \notin Telling \cup {"return"} \cup Over
              /\ pc \notin {"next", "return"}
           \/ node[w].pc \in Telling /\ pc \in Telling
           \/ node[w].pc \in Telling /\ run[w].error = "none" /\ pc \notin {"next", "return"}
           \/ node[w].pc \in Over /\ pc \in Over
    PROVE  PlaneInv'
<1>1. node'[w].pc = pc /\ node'[w].item = node[w].item BY GotoStep
<1>2. ErrorOf(w)' BY <1>1 DEF ErrorOf
<1>3. Moves(w) BY <1>1 DEF Moves
<1> QED BY <1>1, <1>2, <1>3, PlaneMoves

LEMMA PlaneThrows ==
    ASSUME TypeOK, PlaneInv, NEW w \in Writer, UNCHANGED ended,
           \A i \in AllItems : plane'[i].told = plane[i].told,
           NEW kind \in {"node", "other"}, Throw(w, kind),
           \/ node[w].pc \notin Telling \cup {"return"} \cup Over
           \/ node[w].pc \in Telling /\ run[w].error = "none"
    PROVE  PlaneInv'
<1>1. /\ node'[w].pc = "catch" /\ node'[w].item = node[w].item /\ Apart(w)
      /\ run'[w].error = kind
  BY ThrowStep
<1>2. ErrorOf(w)' BY <1>1 DEF ErrorOf
<1>3. Moves(w) BY <1>1 DEF Moves
<1> QED BY <1>1, <1>2, <1>3, PlaneMoves

(* The updates of a worker's locals that keep its error.                    *)
LEMMA ErrorStays ==
    ASSUME TypeOK, NEW w \in Writer,
           \/ run' = run
           \/ \E x : \/ run' = [run EXCEPT ![w].memory = x] \/ run' = [run EXCEPT ![w].locked = x]
                     \/ run' = [run EXCEPT ![w].reported = x] \/ run' = [run EXCEPT ![w].content = x]
                     \/ run' = [run EXCEPT ![w].line = x] \/ run' = [run EXCEPT ![w].flushed = x]
           \/ \E x, y : \/ run' = [run EXCEPT ![w].inChat = x, ![w].result = y]
                        \/ run' = [run EXCEPT ![w].content = x, ![w].line = y]
    PROVE  run'[w].error = run[w].error /\ \A v \in Writer \ {w} : run'[v] = run[v]
<1>1. run \in [Writer -> Runs] BY DEF TypeOK
<1>2. CASE \E x : \/ run' = [run EXCEPT ![w].memory = x] \/ run' = [run EXCEPT ![w].locked = x]
                  \/ run' = [run EXCEPT ![w].reported = x] \/ run' = [run EXCEPT ![w].content = x]
                  \/ run' = [run EXCEPT ![w].line = x] \/ run' = [run EXCEPT ![w].flushed = x]
  <2>1. PICK x : \/ run' = [run EXCEPT ![w].memory = x] \/ run' = [run EXCEPT ![w].locked = x]
                 \/ run' = [run EXCEPT ![w].reported = x] \/ run' = [run EXCEPT ![w].content = x]
                 \/ run' = [run EXCEPT ![w].line = x] \/ run' = [run EXCEPT ![w].flushed = x]
    BY <1>2
  <2>2. CASE \/ run' = [run EXCEPT ![w].memory = x] \/ run' = [run EXCEPT ![w].locked = x]
             \/ run' = [run EXCEPT ![w].reported = x]
    BY <1>1, <2>2 DEF Runs
  <2>3. CASE \/ run' = [run EXCEPT ![w].content = x] \/ run' = [run EXCEPT ![w].line = x]
             \/ run' = [run EXCEPT ![w].flushed = x]
    BY <1>1, <2>3 DEF Runs
  <2> QED BY <2>1, <2>2, <2>3
<1>3. CASE \E x, y : run' = [run EXCEPT ![w].inChat = x, ![w].result = y]
  <2>1. PICK x, y : run' = [run EXCEPT ![w].inChat = x, ![w].result = y]
    BY <1>3
  <2>2. run'[w] = [run[w] EXCEPT !.inChat = x, !.result = y] /\ \A v \in Writer \ {w} : run'[v] = run[v]
    BY <1>1, <2>1
  <2>3. run[w] \in Runs
    BY <1>1
  <2> QED BY <2>2, <2>3 DEF Runs
<1>4. CASE \E x, y : run' = [run EXCEPT ![w].content = x, ![w].line = y]
  BY <1>1, <1>4 DEF Runs
<1> QED BY <1>2, <1>3, <1>4

(* The same in terms of the actions: going on from a place where the Agent  *)
(* Plane was told nothing, and from one where it may have been.             *)
Untold == {"next", "ready", "memory", "lock", "resolve", "start", "agent", "metadata", "content",
           "tables", "begin", "update", "insert", "delete", "lines"}

LEMMA GoesUntold ==
    ASSUME TypeOK, PlaneInv, NEW w \in Writer, UNCHANGED ended,
           \A i \in AllItems : plane'[i].told = plane[i].told, node[w].pc \in Untold,
           \/ \E pc \in Untold \cup {"flush", "end"} :
                 /\ pc # "next" /\ Goto(w, pc)
                 /\ \/ run' = run
                    \/ \E x : \/ run' = [run EXCEPT ![w].memory = x]
                              \/ run' = [run EXCEPT ![w].locked = x]
                              \/ run' = [run EXCEPT ![w].reported = x]
                              \/ run' = [run EXCEPT ![w].content = x]
                              \/ run' = [run EXCEPT ![w].line = x]
                    \/ \E x, y : \/ run' = [run EXCEPT ![w].inChat = x, ![w].result = y]
                                 \/ run' = [run EXCEPT ![w].content = x, ![w].line = y]
           \/ \E kind \in {"node", "other"} : Throw(w, kind)
    PROVE  PlaneInv'
<1>1. node[w].pc \notin Telling \cup {"return"} \cup Over
  BY DEF Untold, Telling, Over, Observing
<1>2. CASE \E kind \in {"node", "other"} : Throw(w, kind)
  BY <1>1, <1>2, PlaneThrows
<1>3. ASSUME NEW pc \in Untold \cup {"flush", "end"}, pc # "next", Goto(w, pc),
             run'[w].error = run[w].error /\ \A v \in Writer \ {w} : run'[v] = run[v]
      PROVE  PlaneInv'
  <2>1. Apart(w) BY <1>3, GotoStep DEF Apart
  <2>2. pc \notin {"catch", "thrown", "tell", "return", "next"} BY <1>3 DEF Untold
  <2> QED BY <1>1, <1>3, <2>1, <2>2, PlaneGoes
<1> QED BY <1>2, <1>3, ErrorStays

LEMMA PlaneBefore ==
    ASSUME TypeOK, PlaneInv, NEW w \in Writer,
           \/ SupplyMemory(w) \/ MissMemory(w) \/ AcquireLock(w) \/ ResolveSession(w)
           \/ RecordStarted(w) \/ RunAgent(w) \/ PersistMetadata(w) \/ ReadContent(w)
           \/ CreateTables(w) \/ BeginRecord(w) \/ UpdateFull(w) \/ InsertFull(w)
           \/ DeleteLines(w) \/ CommitRecord(w) \/ RecordFails(w) \/ FinishNode(w)
    PROVE  PlaneInv'
<1>1. CASE SupplyMemory(w) \/ MissMemory(w) \/ AcquireLock(w) \/ ResolveSession(w)
  BY <1>1, GoesUntold DEF SupplyMemory, MissMemory, AcquireLock, ResolveSession, At, Untold
<1>2. CASE RecordStarted(w)
  <2>1. \A i \in AllItems : plane'[i].told = plane[i].told
    BY <1>2 DEF RecordStarted, TypeOK, Planes
  <2> QED BY <1>2, <2>1, GoesUntold DEF RecordStarted, At, Untold
<1>3. CASE RunAgent(w)
  <2>1. UNCHANGED <<plane, ended>> /\ node[w].pc = "agent" BY <1>3 DEF RunAgent, At
  <2>2. CASE Throw(w, "other") BY <2>1, <2>2, GoesUntold DEF Untold
  <2>3. ASSUME NEW inChat, NEW result, NEW pc \in {"flush", "content", "metadata"}, Goto(w, pc),
               run' = [run EXCEPT ![w].inChat = inChat, ![w].result = result]
        PROVE  PlaneInv'
    BY <2>1, <2>3, GoesUntold DEF Untold
  <2>4. \/ Throw(w, "other")
        \/ \E inChat, result, pc :
              /\ pc \in {"flush", "content", "metadata"} /\ Goto(w, pc)
              /\ run' = [run EXCEPT ![w].inChat = inChat, ![w].result = result]
    BY <1>3 DEF RunAgent
  <2> QED BY <2>2, <2>3, <2>4
<1>4. CASE PersistMetadata(w) \/ ReadContent(w) \/ CreateTables(w) \/ BeginRecord(w)
  BY <1>4, GoesUntold DEF PersistMetadata, ReadContent, CreateTables, BeginRecord, At, Untold
<1>5. CASE UpdateFull(w) \/ InsertFull(w) \/ DeleteLines(w) \/ CommitRecord(w)
  <2>1. CASE UpdateFull(w) BY <2>1, GoesUntold DEF UpdateFull, At, Untold
  <2>2. CASE InsertFull(w) BY <2>2, GoesUntold DEF InsertFull, At, Untold
  <2>3. CASE DeleteLines(w) BY <2>3, GoesUntold DEF DeleteLines, At, Untold
  <2>4. CASE CommitRecord(w) BY <2>4, GoesUntold DEF CommitRecord, At, Untold
  <2> QED BY <1>5, <2>1, <2>2, <2>3, <2>4
<1>6. CASE RecordFails(w) \/ FinishNode(w)
  BY <1>6, GoesUntold DEF RecordFails, FinishNode, At, Untold
<1> QED BY <1>1, <1>2, <1>3, <1>4, <1>5, <1>6

(* Steps that leave a worker where it is.                                   *)
LEMMA PlaneStands ==
    ASSUME TypeOK, PlaneInv, NEW w \in Writer, UNCHANGED <<plane, ended>>, Apart(w),
           node'[w].item = node[w].item, node'[w].pc = node[w].pc, run'[w].error = run[w].error
    PROVE  PlaneInv'
<1>1. ErrorOf(w)' BY DEF PlaneInv, ErrorOf
<1>2. Moves(w) BY DEF Moves
<1> QED BY <1>1, <1>2, PlaneMoves

(* An error before the catch block's reach.                                 *)
LEMMA PlaneOutside ==
    ASSUME TypeOK, PlaneInv, NEW w \in Writer, UNCHANGED <<plane, ended>>,
           node[w].pc \in Untold, ThrowOutside(w)
    PROVE  PlaneInv'
<1>1. run \in [Writer -> Runs] BY DEF TypeOK
<1>2. run'[w].error # "none" /\ \A v \in Writer \ {w} : run'[v] = run[v]
  BY <1>1 DEF ThrowOutside, Runs
<1>3. node'[w].pc = "thrown" /\ node'[w].item = node[w].item /\ Apart(w)
  BY <1>2, GotoStep DEF ThrowOutside, Apart
<1>4. ErrorOf(w)' BY <1>2, <1>3 DEF ErrorOf
<1>5. Moves(w) BY <1>3 DEF Moves, Untold, Telling, Over, Observing
<1> QED BY <1>3, <1>4, <1>5, PlaneMoves

LEMMA PlaneAround ==
    ASSUME TypeOK, PlaneInv, NEW w \in Writer,
           \/ BeginItem(w) \/ EnsureReady(w) \/ InsertLine(w) \/ CloseNode(w) \/ Stop(w)
    PROVE  PlaneInv'
<1>1. CASE BeginItem(w) \/ EnsureReady(w)
  <2>1. UNCHANGED <<plane, ended>> /\ node[w].pc \in Untold
    BY <1>1 DEF BeginItem, EnsureReady, At, Untold
  <2>2. CASE ThrowOutside(w) BY <2>1, <2>2, PlaneOutside
  <2>3. ASSUME NEW pc \in {"ready", "memory"}, Goto(w, pc), run' = run PROVE PlaneInv'
    BY <2>1, <2>3, GoesUntold DEF Untold
  <2> QED BY <1>1, <2>2, <2>3 DEF BeginItem, EnsureReady
<1>2. CASE InsertLine(w)
  <2>1. \E n : run' = [run EXCEPT ![w].line = n] BY <1>2 DEF InsertLine
  <2>2. run'[w].error = run[w].error /\ \A v \in Writer \ {w} : run'[v] = run[v]
    BY <2>1, ErrorStays
  <2> QED BY <1>2, <2>2, PlaneStands DEF InsertLine, Apart
<1>3. CASE CloseNode(w)
  <2>1. /\ UNCHANGED <<run, plane, ended>> /\ Goto(w, "closed") /\ node[w].pc = "end"
    BY <1>3 DEF CloseNode, At
  <2>2. Apart(w) BY <2>1, GotoStep DEF Apart
  <2> QED BY <2>1, <2>2, PlaneGoes DEF Over
<1>4. CASE Stop(w)
  <2>1. /\ UNCHANGED <<run, plane, ended>>
        /\ node' = node \/ node' = [node EXCEPT ![w].up = FALSE]
    BY <1>4 DEF Stop, Crash, ReapLock, ReapTransaction
  <2>2. /\ Apart(w) /\ node'[w].item = node[w].item /\ node'[w].pc = node[w].pc
    BY <2>1 DEF Apart, TypeOK, Nodes
  <2> QED BY <2>1, <2>2, PlaneStands
<1> QED BY <1>1, <1>2, <1>3, <1>4

(* On the way from the flush to the item's end.                             *)
LEMMA PlaneAfter ==
    ASSUME TypeOK, PlaneInv, NEW w \in Writer,
           \/ Flush(w) \/ CreateObservabilityTable(w) \/ BeginObservability(w)
           \/ WriteObservability(w) \/ CommitObservability(w) \/ ObservabilityFails(w)
           \/ ReleaseLock(w)
    PROVE  PlaneInv'
<1>1. UNCHANGED <<plane, ended>> /\ node[w].pc \in Telling \ {"thrown"}
  BY DEF Flush, CreateObservabilityTable, BeginObservability, WriteObservability,
         CommitObservability, ObservabilityFails, ReleaseLock, At, Telling, Observing
<1>2. ASSUME NEW pc \in Telling \cup {"tell"}, Goto(w, pc), pc = "thrown" => run[w].error # "none",
             pc = "tell" => run[w].error = "none",
             run'[w].error = run[w].error /\ \A v \in Writer \ {w} : run'[v] = run[v]
      PROVE  PlaneInv'
  <2>1. Apart(w) BY <1>2, GotoStep DEF Apart
  <2>2. pc \notin {"catch", "return", "next"} BY DEF Telling, Observing
  <2> QED BY <1>1, <1>2, <2>1, <2>2, PlaneGoes
<1>3. CASE /\ run' = run
           /\ \E pc \in Telling \ {"thrown"} : Goto(w, pc)
  <2>1. PICK pc \in Telling \ {"thrown"} : Goto(w, pc) BY <1>3
  <2> QED BY <1>2, <1>3, <2>1 DEF Telling, Observing
<1>4. CASE Flush(w)
  <2>1. run'[w].error = run[w].error /\ \A v \in Writer \ {w} : run'[v] = run[v]
    BY <1>4, ErrorStays DEF Flush
  <2>2. Goto(w, "obsTables") \/ Goto(w, "release") BY <1>4 DEF Flush
  <2> QED BY <1>2, <2>1, <2>2 DEF Telling, Observing
<1>5. CASE ReleaseLock(w)
  <2>1. run'[w].error = run[w].error /\ \A v \in Writer \ {w} : run'[v] = run[v]
    BY <1>5, ErrorStays DEF ReleaseLock
  <2>2. \/ run[w].error # "none" /\ Goto(w, "thrown")
        \/ run[w].error = "none" /\ Goto(w, "tell")
    BY <1>5 DEF ReleaseLock
  <2> QED BY <1>2, <2>1, <2>2 DEF Telling, Observing
<1>6. CASE run[w].error = "none" /\ Throw(w, "other")
  BY <1>1, <1>6, PlaneThrows
<1>7. CASE \/ CreateObservabilityTable(w) \/ BeginObservability(w) \/ WriteObservability(w)
           \/ CommitObservability(w) \/ ObservabilityFails(w)
  BY <1>3, <1>6, <1>7
     DEF CreateObservabilityTable, BeginObservability, WriteObservability, CommitObservability,
         ObservabilityFails, Telling, Observing
<1> QED BY <1>4, <1>5, <1>7

(* The two callbacks that tell an end.                                      *)
LEMMA PlaneTells ==
    ASSUME TypeOK, PlaneInv, NEW w \in Writer, RecordCompleted(w) \/ RecordFailed(w)
    PROVE  PlaneInv'
<1>1. UNCHANGED <<run, ended>> /\ node[w].pc \in {"tell", "catch"}
  BY DEF RecordCompleted, RecordFailed, At
<1>2. PICK pc \in {"return", "flush"}, end \in {"completed", "failed"} :
        /\ Goto(w, pc)
        /\ pc = "return" => node[w].pc = "tell" /\ end = "completed"
        /\ pc = "flush" => node[w].pc = "catch" /\ end = "failed"
        /\ \/ plane' = plane
           \/ plane' = [plane EXCEPT ![Current(w)].told = @ \cup {end}]
  BY DEF RecordCompleted, RecordFailed, Tell, At
<1>3. node'[w].pc = pc /\ node'[w].item = node[w].item /\ Apart(w)
  BY <1>1, <1>2, GotoStep DEF Apart
<1>4. ErrorOf(w)' BY <1>1, <1>2, <1>3 DEF PlaneInv, ErrorOf
<1>5. \A i \in AllItems : i # Current(w) => plane'[i].told = plane[i].told
  BY <1>2 DEF TypeOK
<1>6. ASSUME Current(w) \in AllItems PROVE ToldOf(w, Current(w))'
  <2>1. PICK i \in AllItems : i = Current(w) BY <1>6
  <2>2. ToldOf(w, i) /\ ErrorOf(w) BY <2>1 DEF PlaneInv, ItemsOf, Current
  <2>3. plane[i].told = {} /\ ended[i].how = "pending"
    BY <1>1, <2>1, <2>2 DEF ToldOf, Telling, Over, Observing
  <2>4. plane'[i].told \subseteq {end}
    BY <1>2, <2>1, <2>3 DEF TypeOK, Planes
  <2>5. i[2] = node[w].item /\ node[w].item \in Nat /\ Current(w)' = i
    BY <1>3, <2>1 DEF TypeOK, Nodes, Current
  <2>6. run'[w].error = "none" => node[w].pc = "tell"
    BY <1>1, <2>2 DEF ErrorOf
  <2> QED BY <1>1, <1>2, <1>3, <2>3, <2>4, <2>5, <2>6 DEF ToldOf, Telling, Over, Observing
<1> QED BY <1>1, <1>3, <1>4, <1>5, <1>6, PlaneWithin DEF Apart

(* An item's end, which no later item is told of.                           *)
LEMMA PlaneEnds ==
    ASSUME TypeOK, PlaneInv, NEW w \in Writer, UNCHANGED plane,
           \/ ReturnItem(w) \/ CatchItem(w) \/ PassThrough(w)
    PROVE  PlaneInv'
<1> DEFINE how == ended'[Current(w)].how
<1>1. node[w].item \in Nat BY DEF TypeOK, Nodes
<1>2. /\ \A v \in Writer \ {w} : node'[v] = node[v] /\ run'[v] = run[v]
      /\ \/ node'[w].pc = "next" /\ node'[w].item = node[w].item + 1
         \/ node'[w].pc = "end" /\ node'[w].item = node[w].item
      /\ \A i \in AllItems : i # Current(w) => ended'[i].how = ended[i].how
  <2>1. CASE PassThrough(w) BY <2>1 DEF PassThrough, At, TypeOK, Nodes
  <2>2. CASE ReturnItem(w)
    <3>1. \E h, pc : pc \in {"next", "end"} /\ EndItem(w, h, pc) BY <2>2 DEF ReturnItem
    <3> QED BY <3>1 DEF EndItem, TypeOK, Nodes
  <2>3. CASE CatchItem(w)
    <3>1. \E h, pc : pc \in {"next", "end"} /\ EndItem(w, h, pc) BY <2>3 DEF CatchItem
    <3> QED BY <3>1 DEF EndItem, TypeOK, Nodes
  <2> QED BY <2>1, <2>2, <2>3
<1>3. ErrorOf(w)' BY <1>2 DEF ErrorOf
<1>4. ASSUME NEW i \in ItemsOf(w) PROVE ToldOf(w, i)'
  <2>1. ToldOf(w, i) /\ i \in AllItems /\ i = <<w, i[2]>> /\ i[2] \in Nat
    BY DEF PlaneInv, ItemsOf, AllItems, ItemsAssumption
  <2>2. CASE i # Current(w)
    <3>1. i[2] # node[w].item BY <2>1, <2>2 DEF Current
    <3>2. ended'[i].how = ended[i].how BY <1>2, <2>1, <2>2
    <3>3. i = Current(w)' \/ i[2] > node'[w].item => i[2] > node[w].item
      BY <1>1, <1>2, <2>1, <3>1 DEF Current
    <3>4. i[2] > node[w].item => plane[i].told = {} /\ ended[i].how = "pending"
      BY <2>1 DEF ToldOf
    <3> QED BY <2>1, <3>2, <3>3, <3>4 DEF ToldOf, Telling, Over, Observing
  <2>3. CASE i = Current(w)
    <3>1. /\ ~(i[2] > node'[w].item)
          /\ i = Current(w)' => node'[w].pc = "end"
      BY <1>1, <1>2, <2>1, <2>3 DEF Current
    <3>2. "failed" \in plane[i].told =>
             "completed" \notin plane[i].told /\ ended'[i].how \notin {"completed", "paused"}
      <4>1. CASE ReturnItem(w)
        <5>1. node[w].pc = "return" BY <4>1 DEF ReturnItem, At
        <5> QED BY <2>1, <2>3, <5>1 DEF ToldOf, Over
      <4>2. CASE CatchItem(w)
        <5>1. ended'[i].how = "failed"
          BY <2>1, <2>3, <4>2 DEF CatchItem, EndItem, TypeOK, Ends
        <5> QED BY <2>1, <5>1 DEF ToldOf
      <4>3. CASE PassThrough(w)
        <5>1. node[w].pc = "next" BY <4>3 DEF PassThrough, At
        <5> QED BY <2>1, <2>3, <5>1 DEF ToldOf
      <4> QED BY <4>1, <4>2, <4>3
    <3> QED BY <3>1, <3>2 DEF ToldOf, Over
  <2> QED BY <2>2, <2>3
<1>5. \A i \in AllItems : i[1] # w =>
        plane'[i].told = plane[i].told /\ ended'[i].how = ended[i].how
  BY <1>2 DEF Current
<1>6. ItemsOf(w)' = ItemsOf(w) BY DEF ItemsOf, AllItems
<1> QED BY <1>2, <1>3, <1>4, <1>5, <1>6, PlaneStays

LEMMA PlaneInitially == Init => PlaneInv
<1> SUFFICES ASSUME Init, NEW w \in Writer PROVE ErrorOf(w) /\ \A i \in ItemsOf(w) : ToldOf(w, i)
  BY DEF PlaneInv
<1>1. node[w].pc = "next" BY DEF Init
<1>2. \A i \in AllItems : plane[i].told = {} /\ ended[i].how = "pending" BY DEF Init
<1> QED BY <1>1, <1>2 DEF ErrorOf, ToldOf, ItemsOf, Telling, Observing, Over

LEMMA PlanePreserved == TypeOK /\ PlaneInv /\ [Next]_vars => PlaneInv'
<1> SUFFICES ASSUME TypeOK, PlaneInv, [Next]_vars PROVE PlaneInv' OBVIOUS
<1>1. ASSUME NEW w \in Writer, Step(w) PROVE PlaneInv'
  <2>1. CASE ReturnItem(w) \/ CatchItem(w) \/ PassThrough(w)
    BY <2>1, PlaneEnds DEF ReturnItem, CatchItem, PassThrough
  <2> QED BY <1>1, <2>1, PlaneBefore, PlaneAround, PlaneAfter, PlaneTells DEF Step
<1>2. ASSUME NEW w \in Writer, Stop(w) PROVE PlaneInv'
  BY <1>2, PlaneAround
<1>3. CASE UNCHANGED vars
  BY <1>3 DEF PlaneInv, ErrorOf, ToldOf, ItemsOf, AllItems, Current, vars
<1> QED BY <1>1, <1>2, <1>3 DEF Next

(* The Agent Plane is not told that a run failed of which it was told that  *)
(* it completed, or whose item returned: the failed callback is sent from   *)
(* the catch block alone, the completed one when nothing can throw.         *)
THEOREM PlaneToldTrue == Spec => []PlaneAgrees
<1>1. Init => RecordInv /\ PlaneInv BY RecordInitially, PlaneInitially
<1>2. RecordInv /\ PlaneInv /\ [Next]_vars => (RecordInv /\ PlaneInv)'
  BY RecordPreserved, PlanePreserved DEF RecordInv
<1>3. PlaneInv => PlaneAgrees
  <2> SUFFICES ASSUME PlaneInv, NEW i \in AllItems, "failed" \in plane[i].told
               PROVE  "completed" \notin plane[i].told /\ ended[i].how \notin {"completed", "paused"}
    BY DEF PlaneAgrees
  <2>1. i[1] \in Writer BY DEF AllItems
  <2> QED BY <2>1 DEF PlaneInv, ItemsOf, ToldOf
<1> QED BY <1>1, <1>2, <1>3, PTL DEF Spec
=============================================================================
