------------------------- MODULE StreamReplay_proofs -------------------------
(***************************************************************************)
(* Proofs about StreamReplay, for any number of clients, frames and runs.  *)
(***************************************************************************)
EXTENDS StreamReplay, SequenceTheorems, TLAPS

(* The sender: nothing is queued or half appended unless a run is sending   *)
(* or flushing, and then a terminal row means the queue has been drained.   *)
Idle == queue = <<>> /\ appending = "no"

QuietInv == /\ row.status \in Terminal => Idle /\ run.pc # "running"
            /\ run.pc \in {"off", "marking", "updating", "marked"} => Idle
            /\ appending # "no" => queue # <<>>

(* A response that is registered was registered by its replay, and is open  *)
(* unless that replay failed.                                               *)
RegistryShape(c) ==
    registry = c => \/ client[c].pc = "failed"
                    \/ /\ client[c].pc \in {"read2", "write2", "state2", "finish", "tailing"}
                       /\ ~client[c].ended

(* What a replay's variables mean at each of its steps.                     *)
ReplayShape(c) ==
    LET s == client[c] IN
    /\ s.pc \in {"idle", "state1", "read1", "write1"} => ~s.ended
    /\ s.pc = "idle" => s.since = 0 /\ ~s.full
    /\ s.pc \in {"state1", "read1"} => s.cursor = s.since
    /\ s.pc \in {"state1", "read1", "write1", "read2"} => ~s.full
    /\ s.pc \in {"write1", "write2"} => s.upto <= Len(events)
    /\ s.pc = "write1" => s.cursor = s.since

(* What its replay still owes a registered response: before the second read *)
(* all that follows the cursor, after it the frames that read returned.     *)
Owed(c) == IF client[c].pc = "read2" THEN (client[c].cursor + 1)..Len(events)
           ELSE IF client[c].pc = "write2" THEN (client[c].cursor + 1)..client[c].upto
           ELSE {}

OwedShape(c) ==
    registry = c /\ client[c].pc # "failed" /\ ~client[c].full =>
        \A seq \in (client[c].since + 1)..Len(events) :
            seq \in client[c].got \cup unsent \cup InFlight \cup Owed(c)

ClientShape(c) == RegistryShape(c) /\ ReplayShape(c) /\ OwedShape(c)

ReplayInv == /\ TypeOK
             /\ QuietInv
             /\ row.status = "none" => events = <<>>
             /\ \A c \in Clients : ClientShape(c)

-----------------------------------------------------------------------------
(* The fields of a client, and of a client record that replaces it.         *)
LEMMA ClientFields ==
    ASSUME TypeOK, NEW c \in Clients
    PROVE  /\ client[c] \in ClientState
           /\ client[c].since \in Nat /\ client[c].cursor \in Nat /\ client[c].upto \in Nat
           /\ client[c].got \in SUBSET Nat /\ client[c].ended \in BOOLEAN
           /\ client[c].full \in BOOLEAN /\ client[c].attached \in BOOLEAN
           /\ client[c].status \in {"none", "live"} \cup Terminal
           /\ client[c].pc \in ClientPcs
BY DEF TypeOK, ClientState

LEMMA ClientUpdates ==
    ASSUME NEW x \in ClientState, NEW pc \in ClientPcs
    PROVE  /\ [x EXCEPT !.pc = pc] \in ClientState
           /\ \A s \in {"none", "live"} \cup Terminal : [x EXCEPT !.pc = pc, !.status = s] \in ClientState
           /\ \A n \in Nat : [x EXCEPT !.pc = pc, !.upto = n] \in ClientState
           /\ \A n \in Nat, b \in BOOLEAN : [x EXCEPT !.pc = pc, !.upto = n, !.full = b] \in ClientState
<1>1. [x EXCEPT !.pc = pc] \in ClientState
  BY DEF ClientState
<1>2. ASSUME NEW s \in {"none", "live"} \cup Terminal PROVE [x EXCEPT !.pc = pc, !.status = s] \in ClientState
  BY DEF ClientState
<1>3. ASSUME NEW n \in Nat PROVE [x EXCEPT !.pc = pc, !.upto = n] \in ClientState
  BY DEF ClientState
<1>4. ASSUME NEW n \in Nat, NEW b \in BOOLEAN PROVE [x EXCEPT !.pc = pc, !.upto = n, !.full = b] \in ClientState
  BY DEF ClientState
<1> QED BY <1>1, <1>2, <1>3, <1>4

LEMMA LastReadType ==
    ASSUME TypeOK, NEW n \in Nat, n <= Len(events)
    PROVE  LastRead(n) \in Nat /\ LastRead(n) <= Len(events) /\ n <= LastRead(n)
BY StreamBounds, LenProperties DEF TypeOK, LastRead

LEMMA WrittenType ==
    ASSUME TypeOK, NEW c \in Clients, NEW pc \in ClientPcs
    PROVE  Written(c, pc) \in ClientState
<1>1. (client[c].cursor + 1)..client[c].upto \in SUBSET Nat
  BY ClientFields
<1> QED BY <1>1, ClientFields DEF Written, ClientState

LEMMA ClosedType ==
    ASSUME TypeOK, NEW c \in Clients
    PROVE  Closed(c) \in ClientState
BY ClientFields DEF Closed, ClientState, ClientPcs

LEMMA RegisteredType ==
    ASSUME NEW f \in [Clients -> ClientState], NEW c \in Clients
    PROVE  Registered(f, c) \in [Clients -> ClientState]
BY DEF Registered, ClientState

LEMMA StreamTypeInit == Init => TypeOK
BY DEF Init, TypeOK, ClientState, ClientPcs, Terminal

LEMMA ServeType ==
    ASSUME TypeOK, NEW c \in Clients, ServeStep(c)
    PROVE  TypeOK'
<1>0. ClientPcs = {"idle", "state1", "read1", "write1", "read2", "write2", "state2",
                   "finish", "tailing", "failed", "closed"}
  BY DEF ClientPcs
<1>1. ASSUME NEW s \in ClientState, ReplayStep(c, s) PROVE TypeOK'
  BY <1>1 DEF ReplayStep, TypeOK, storeVars, senderVars
<1>2. CASE GetState(c)
  <2> DEFINE s == [client[c] EXCEPT !.pc = "read1", !.status = row.status]
  <2>0. row.status \in {"none", "live"} \cup Terminal /\ "read1" \in ClientPcs
    BY <1>0 DEF TypeOK
  <2>1. s \in ClientState
    BY <2>0, ClientFields, ClientUpdates
  <2> QED BY <1>1, <1>2, <2>1 DEF GetState
<1>3. CASE ReadFirst(c)
  <2> DEFINE s == [client[c] EXCEPT !.pc = "write1", !.upto = LastRead(client[c].cursor)]
  <2>1. LastRead(client[c].cursor) \in Nat
    BY StreamBounds, ClientFields, LenProperties DEF TypeOK, LastRead
  <2>2. s \in ClientState
    BY <1>0, <2>1, ClientFields, ClientUpdates
  <2> QED BY <1>1, <1>3, <2>2 DEF ReadFirst
<1>4. CASE WriteFirst(c)
  <2>1. Written(c, "read2") \in ClientState
    BY <1>0, WrittenType
  <2>2. CASE ReplayStep(c, Written(c, "read2"))
    BY <1>1, <2>1, <2>2
  <2>3. CASE /\ client' = Registered([client EXCEPT ![c] = [Written(c, "read2") EXCEPT !.attached = TRUE]], c)
             /\ registry' = c
             /\ UNCHANGED <<storeVars, senderVars, run>>
    <3> DEFINE f == [client EXCEPT ![c] = [Written(c, "read2") EXCEPT !.attached = TRUE]]
    <3>1. [Written(c, "read2") EXCEPT !.attached = TRUE] \in ClientState
      BY <2>1 DEF ClientState
    <3>2. f \in [Clients -> ClientState]
      BY <3>1 DEF TypeOK
    <3>3. Registered(f, c) \in [Clients -> ClientState]
      BY <3>2, RegisteredType
    <3> QED BY <2>3, <3>3 DEF TypeOK, storeVars, senderVars
  <2> QED BY <1>4, <2>2, <2>3 DEF WriteFirst
<1>5. CASE ReadGap(c)
  <2> DEFINE s == [client[c] EXCEPT !.pc = "write2", !.upto = LastRead(client[c].cursor),
                                    !.full = client[c].cursor + Limit < Len(events)]
  <2>1. LastRead(client[c].cursor) \in Nat
    BY StreamBounds, ClientFields, LenProperties DEF TypeOK, LastRead
  <2>2. (client[c].cursor + Limit < Len(events)) \in BOOLEAN
    OBVIOUS
  <2>3. s \in ClientState
    <3>1. "write2" \in ClientPcs
      BY <1>0
    <3> QED BY <2>1, <2>2, <3>1, ClientFields, ClientUpdates
  <2> QED BY <1>1, <1>5, <2>3 DEF ReadGap
<1>6. CASE WriteGap(c)
  BY <1>0, <1>1, <1>6, WrittenType DEF WriteGap
<1>7. CASE GetStateAfter(c)
  <2> DEFINE s == [client[c] EXCEPT !.pc = "finish", !.status = row.status]
  <2>0. row.status \in {"none", "live"} \cup Terminal /\ "finish" \in ClientPcs
    BY <1>0 DEF TypeOK
  <2>1. s \in ClientState
    BY <2>0, ClientFields, ClientUpdates
  <2> QED BY <1>1, <1>7, <2>1 DEF GetStateAfter
<1>8. CASE FinishReplay(c)
  <2>1. CASE ReplayStep(c, [client[c] EXCEPT !.pc = "tailing"])
    <3>1. [client[c] EXCEPT !.pc = "tailing"] \in ClientState
      BY <1>0, ClientFields DEF ClientState
    <3> QED BY <1>1, <2>1, <3>1
  <2>2. CASE /\ registry' = NoClient /\ client' = [client EXCEPT ![c] = Closed(c)]
             /\ UNCHANGED <<storeVars, senderVars, run>>
    BY <2>2, ClosedType DEF TypeOK, storeVars, senderVars
  <2> QED BY <1>8, <2>1, <2>2 DEF FinishReplay
<1> QED BY <1>2, <1>3, <1>4, <1>5, <1>6, <1>7, <1>8 DEF ServeStep

RunState == [pc : {"off", "running", "flushing", "marking", "updating", "marked"},
             mark : Terminal, n : Nat, sends : Nat, pending : BOOLEAN]

LEMMA StartedType ==
    ASSUME NEW r \in RunState, NEW n \in Nat
    PROVE  [r EXCEPT !.pc = "running", !.n = n, !.pending = FALSE] \in RunState
BY DEF RunState

LEMMA RunType ==
    ASSUME TypeOK, RunStep
    PROVE  TypeOK'
<1> USE DEF TypeOK, Terminal, RunState, storeVars, senderVars
<1>1. CASE StartRun
  <2>0. run \in RunState /\ run.n + 1 \in Nat
    BY DEF RunState
  <2>1. [run EXCEPT !.pc = "running", !.n = @ + 1, !.pending = FALSE] \in RunState
    BY <2>0, StartedType
  <2>2. row' \in [status : {"none", "live"} \cup Terminal, expires : BOOLEAN]
    BY <1>1 DEF StartRun, EnsureStream
  <2> QED BY <1>1, <2>1, <2>2 DEF StartRun
<1>2. CASE SendChunk
  <2>1. Append(queue, "item") \in Seq({"item", "end"})
    BY AppendProperties
  <2>2. [run EXCEPT !.sends = @ + 1] \in RunState
    OBVIOUS
  <2> QED BY <1>2, <2>1, <2>2 DEF SendChunk
<1>10. CASE AttemptFails
  <2>1. Append(queue, "item") \in Seq({"item", "end"})
    BY AppendProperties
  <2>2. Append(Append(queue, "item"), "end") \in Seq({"item", "end"})
    BY <2>1, AppendProperties
  <2>3. [run EXCEPT !.sends = @ + 1] \in RunState
    OBVIOUS
  <2> QED BY <1>10, <2>2, <2>3 DEF AttemptFails
<1>3. CASE Flush
  BY <1>3 DEF Flush
<1>4. CASE MarkTerminal
  BY <1>4 DEF MarkTerminal, EnsureStream
<1>5. CASE MarkTerminalUpdate
  BY <1>5 DEF MarkTerminalUpdate
<1>6. CASE MarkFails
  BY <1>6 DEF MarkFails
<1>7. CASE FinishRun
  BY <1>7 DEF FinishRun
<1>8. ASSUME NEW mark \in {"completed", "paused_hitl"}, EndRun(mark) PROVE TypeOK'
  <2>1. Append(queue, "end") \in Seq({"item", "end"})
    BY AppendProperties
  <2>2. (mark = "paused_hitl") \in BOOLEAN
    OBVIOUS
  <2>3. [run EXCEPT !.pc = "flushing", !.mark = mark, !.pending = (mark = "paused_hitl")] \in RunState
    BY <2>2
  <2> QED BY <1>8, <2>1, <2>3 DEF EndRun
<1>9. ASSUME NEW pending \in BOOLEAN, FailRun(pending) PROVE TypeOK'
  BY <1>9 DEF FailRun
<1> QED BY <1>1, <1>2, <1>3, <1>4, <1>5, <1>6, <1>7, <1>8, <1>9, <1>10 DEF RunStep

(* The queue is popped only while it holds the chunk being appended.        *)
LEMMA QueueType ==
    ASSUME TypeOK, QuietInv, QueueStep
    PROVE  TypeOK'
<1>1. CASE EnsureLive
  BY <1>1 DEF EnsureLive, EnsureStream, TypeOK
<1>2. queue # <<>> => Head(queue) \in {"item", "end"} /\ Tail(queue) \in Seq({"item", "end"})
  BY HeadTailProperties DEF TypeOK
<1>3. ASSUME Insert PROVE /\ events' \in Seq({"item", "end"})
                          /\ row' \in [status : {"none", "live"} \cup Terminal, expires : BOOLEAN]
  BY <1>2, <1>3 DEF Insert, TypeOK, QuietInv
<1>4. CASE AppendFrame
  BY <1>3, <1>4 DEF AppendFrame, TypeOK
<1>5. CASE CommitUnknown
  <2>1. Len(events) + 1 \in Nat
    BY LenProperties DEF TypeOK
  <2>2. unsent' \in SUBSET Nat
    BY <1>5, <2>1 DEF CommitUnknown, TypeOK
  <2>3. queue # <<>>
    BY <1>5 DEF CommitUnknown, Insert, QuietInv
  <2> QED BY <1>2, <1>3, <1>5, <2>2, <2>3 DEF CommitUnknown, TypeOK
<1>6. CASE AppendFails
  BY <1>2, <1>6 DEF AppendFails, TypeOK, storeVars
<1>7. CASE Deliver
  <2>1. queue # <<>>
    BY <1>7 DEF Deliver, QuietInv
  <2>2. Len(events) \in Nat
    BY LenProperties DEF TypeOK
  <2>3. (Head(queue) = "end") \in BOOLEAN
    OBVIOUS
  <2>4. client' \in [Clients -> ClientState]
    <3>1. ASSUME NEW c \in Clients
          PROVE  [client[c] EXCEPT !.got = @ \cup {Len(events)}, !.ended = (Head(queue) = "end")]
                     \in ClientState
      <4>1. client[c].got \cup {Len(events)} \in SUBSET Nat
        BY <2>2, ClientFields
      <4> QED BY <2>3, <4>1, ClientFields DEF ClientState
    <3> QED BY <1>7, <3>1, ClientFields DEF Deliver
  <2>5. registry' \in Clients \cup {NoClient}
    BY <1>7 DEF Deliver, TypeOK
  <2> QED BY <1>2, <1>7, <2>1, <2>4, <2>5 DEF Deliver, TypeOK, storeVars
<1> QED BY <1>1, <1>4, <1>5, <1>6, <1>7 DEF QueueStep

LEMMA ConnectType ==
    ASSUME TypeOK, NEW c \in Clients, ConnectStep(c)
    PROVE  TypeOK'
<1>0. ClientPcs = {"idle", "state1", "read1", "write1", "read2", "write2", "state2",
                   "finish", "tailing", "failed", "closed"}
  BY DEF ClientPcs
<1>1. ASSUME NEW s \in ClientState, ReplayStep(c, s) PROVE TypeOK'
  BY <1>1 DEF ReplayStep, TypeOK, storeVars, senderVars
<1>2. CASE DropIdle(c)
  <2>1. [client[c] EXCEPT !.ended = TRUE] \in ClientState
    BY ClientFields DEF ClientState
  <2> QED BY <1>2, <2>1 DEF DropIdle, TypeOK, storeVars, senderVars
<1>3. CASE ConnectUnknown(c)
  <2>1. CASE ReplayStep(c, Closed(c))
    BY <1>1, <2>1, ClosedType
  <2>2. CASE /\ client' = Registered([client EXCEPT ![c] = [client[c] EXCEPT !.pc = "tailing"]], c)
             /\ registry' = c
             /\ UNCHANGED <<storeVars, senderVars, run>>
    <3> DEFINE f == [client EXCEPT ![c] = [client[c] EXCEPT !.pc = "tailing"]]
    <3>1. [client[c] EXCEPT !.pc = "tailing"] \in ClientState
      BY <1>0, ClientFields DEF ClientState
    <3>2. f \in [Clients -> ClientState]
      BY <3>1 DEF TypeOK
    <3>3. Registered(f, c) \in [Clients -> ClientState]
      BY <3>2, RegisteredType
    <3> QED BY <2>2, <3>3 DEF TypeOK, storeVars, senderVars
  <2> QED BY <1>3, <2>1, <2>2 DEF ConnectUnknown
<1>4. ASSUME NEW since \in 0..Len(events), Connect(c, since) PROVE TypeOK'
  <2>1. since \in Nat
    BY LenProperties DEF TypeOK
  <2>2. [client[c] EXCEPT !.pc = "state1", !.since = since, !.cursor = since] \in ClientState
    BY <1>0, <2>1, ClientFields DEF ClientState
  <2> QED BY <1>1, <1>4, <2>2 DEF Connect
<1>5. ASSUME NEW end \in BOOLEAN, ReplayFails(c, end) PROVE TypeOK'
  <2>1. (client[c].ended \/ end) \in BOOLEAN /\ Closed(c) \in ClientState
    BY ClosedType
  <2>2. [Closed(c) EXCEPT !.pc = "failed", !.ended = client[c].ended \/ end] \in ClientState
    BY <1>0, <2>1 DEF ClientState
  <2> QED BY <1>1, <1>5, <2>2 DEF ReplayFails
<1> QED BY <1>2, <1>3, <1>4, <1>5 DEF ConnectStep

LEMMA CrashType ==
    ASSUME TypeOK, Crash
    PROVE  TypeOK'
<1>1. client' \in [Clients -> ClientState]
  BY ClosedType, ClientFields DEF Crash
<1> QED BY <1>1 DEF Crash, TypeOK, storeVars

(* Only the run and the queue touch what QuietInv is about.                 *)
LEMMA QuietUnchanged ==
    ASSUME QuietInv, UNCHANGED <<row, queue, appending, run>>
    PROVE  QuietInv'
BY DEF QuietInv, Idle

LEMMA QuietNext ==
    ASSUME TypeOK, QuietInv, Next
    PROVE  QuietInv'
<1> USE DEF QuietInv, Idle, Terminal, storeVars, senderVars
<1>1. CASE RunStep
  <2> USE DEF TypeOK
  <2>1. CASE StartRun
    BY <2>1 DEF StartRun, EnsureStream
  <2>2. CASE SendChunk
    BY <2>2 DEF SendChunk
  <2>10. CASE AttemptFails
    BY <2>10 DEF AttemptFails
  <2>3. CASE Flush
    BY <2>3 DEF Flush
  <2>4. CASE MarkTerminal
    BY <2>4 DEF MarkTerminal, EnsureStream
  <2>5. CASE MarkTerminalUpdate
    BY <2>5 DEF MarkTerminalUpdate
  <2>6. CASE MarkFails
    BY <2>6 DEF MarkFails
  <2>7. CASE FinishRun
    BY <2>7 DEF FinishRun
  <2>8. ASSUME NEW mark \in {"completed", "paused_hitl"}, EndRun(mark) PROVE QuietInv'
    BY <2>8 DEF EndRun
  <2>9. ASSUME NEW pending \in BOOLEAN, FailRun(pending) PROVE QuietInv'
    BY <2>9 DEF FailRun
  <2> QED BY <1>1, <2>1, <2>2, <2>3, <2>4, <2>5, <2>6, <2>7, <2>8, <2>9, <2>10 DEF RunStep
<1>2. CASE QueueStep
  <2>1. CASE EnsureLive
    BY <2>1 DEF EnsureLive, EnsureStream
  <2>2. CASE AppendFrame
    BY <2>2 DEF AppendFrame, Insert
  <2>3. queue # <<>> => run.pc \in {"running", "flushing"} /\ row.status \notin Terminal
    BY DEF TypeOK
  <2>4. ASSUME UNCHANGED run, row' = row \/ row'.status = "live", queue # <<>>, appending' = "no"
        PROVE  QuietInv'
    BY <2>3, <2>4
  <2>5. CASE CommitUnknown
    BY <2>4, <2>5 DEF CommitUnknown, Insert
  <2>6. CASE AppendFails
    BY <2>4, <2>6 DEF AppendFails
  <2>7. CASE Deliver
    BY <2>4, <2>7 DEF Deliver
  <2> QED BY <1>2, <2>1, <2>2, <2>5, <2>6, <2>7 DEF QueueStep
<1>3. CASE Crash
  BY <1>3 DEF Crash, TypeOK
<1>4. ASSUME NEW c \in Clients, ServeStep(c) \/ ConnectStep(c)
      PROVE  QuietInv'
  <2>1. UNCHANGED <<row, queue, appending, run>>
    BY <1>4 DEF ServeStep, GetState, ReadFirst, WriteFirst, ReadGap, WriteGap, GetStateAfter,
                FinishReplay, ConnectStep, DropIdle, ConnectUnknown, Connect, ReplayFails, ReplayStep
  <2> QED BY <2>1, QuietUnchanged
<1> QED BY <1>1, <1>2, <1>3, <1>4 DEF Next

LEMMA TypeNext ==
    ASSUME TypeOK, QuietInv, Next
    PROVE  TypeOK'
BY RunType, QueueType, CrashType, ServeType, ConnectType DEF Next

LEMMA StutterStep ==
    ASSUME TypeOK, QuietInv, UNCHANGED vars
    PROVE  TypeOK' /\ QuietInv'
BY DEF TypeOK, QuietInv, Idle, vars

THEOREM TypeAndQuiet == Spec => [](TypeOK /\ QuietInv)
<1>1. Init => TypeOK /\ QuietInv
  <2>1. Init => QuietInv
    BY DEF Init, QuietInv, Idle, Terminal
  <2> QED BY <2>1, StreamTypeInit
<1>2. TypeOK /\ QuietInv /\ [Next]_vars => TypeOK' /\ QuietInv'
  BY TypeNext, QuietNext, StutterStep
<1> QED BY <1>1, <1>2, PTL DEF Spec

(* The type invariant of the stream, for any number of clients and frames.  *)
THEOREM StreamTypeCorrect == Spec => []TypeOK
BY TypeAndQuiet, PTL

(* No late frame: a stream whose row says paused, completed or failed has   *)
(* nothing queued and nothing half appended (flushDurableSendChunk before   *)
(* every markTerminal).                                                     *)
THEOREM NoLateFrame == Spec => []TerminalIsQuiet
<1>1. QuietInv => TerminalIsQuiet
  BY DEF QuietInv, TerminalIsQuiet, Idle
<1> QED BY <1>1, TypeAndQuiet, PTL

-----------------------------------------------------------------------------
(* A client the step does not serve: at most it loses its registration, and *)
(* then it may be ended.                                                    *)
LEMMA OtherClient ==
    ASSUME ReplayInv, NEW d \in Clients,
           UNCHANGED <<events, unsent, appending>>,
           registry' = d => registry = d,
           \/ client'[d] = client[d]
           \/ /\ registry = d /\ registry' # d
              /\ client'[d] = [client[d] EXCEPT !.ended = TRUE]
    PROVE  ClientShape(d)'
<1>1. ClientShape(d) /\ client[d] \in ClientState
  BY ClientFields DEF ReplayInv
<1>2. CASE client'[d] = client[d]
  BY <1>1, <1>2 DEF ClientShape, RegistryShape, ReplayShape, OwedShape, Owed, InFlight
<1>3. CASE /\ registry = d /\ registry' # d
           /\ client'[d] = [client[d] EXCEPT !.ended = TRUE]
  BY <1>1, <1>3 DEF ClientShape, RegistryShape, ReplayShape, OwedShape, ClientState
<1> QED BY <1>2, <1>3

(* A response that is registered displaces the one registered before.       *)
LEMMA Displaced ==
    ASSUME ReplayInv, NEW c \in Clients, NEW d \in Clients, d # c, NEW s,
           client' = Registered([client EXCEPT ![c] = s], c), registry' = c,
           UNCHANGED <<events, unsent, appending>>
    PROVE  ClientShape(d)'
<1>1. client \in [Clients -> ClientState]
  BY DEF ReplayInv, TypeOK
<1>2. \/ client'[d] = client[d]
      \/ /\ registry = d /\ registry' # d
         /\ client'[d] = [client[d] EXCEPT !.ended = TRUE]
  BY <1>1 DEF Registered
<1> QED BY <1>2, OtherClient

(* Every step of a replay keeps its own client in shape.                    *)
LEMMA ServeShape ==
    ASSUME ReplayInv, NEW c \in Clients, ServeStep(c)
    PROVE  ClientShape(c)'
<1> DEFINE s == client[c]
<1>1. TypeOK /\ ClientShape(c) /\ Len(events) \in Nat /\ client \in [Clients -> ClientState]
  BY LenProperties DEF ReplayInv, TypeOK
<1>2. /\ s \in ClientState /\ s.since \in Nat /\ s.cursor \in Nat /\ s.upto \in Nat
      /\ s.got \in SUBSET Nat
  BY <1>1, ClientFields
<1>3. c # NoClient
  BY ClientAssumption
<1>4. ASSUME NEW t, ReplayStep(c, t)
      PROVE  client'[c] = t /\ UNCHANGED <<events, unsent, appending, registry>>
  BY <1>1, <1>4 DEF ReplayStep, storeVars, senderVars
<1>5. CASE GetState(c)
  <2>1. UNCHANGED <<events, unsent, appending, registry>>
    BY <1>4, <1>5 DEF GetState
  <2>2. client'[c] = [s EXCEPT !.pc = "read1", !.status = row.status]
    BY <1>4, <1>5 DEF GetState
  <2>3. /\ client'[c].pc = "read1" /\ client'[c].cursor = s.cursor /\ client'[c].since = s.since
        /\ client'[c].ended = s.ended /\ client'[c].full = s.full
    BY <1>2, <2>2 DEF ClientState
  <2>4. s.pc = "state1" /\ registry # c
    BY <1>1, <1>5 DEF GetState, ClientShape, RegistryShape
  <2> QED BY <1>1, <2>1, <2>3, <2>4 DEF ClientShape, RegistryShape, ReplayShape, OwedShape
<1>6. CASE ReadFirst(c)
  <2>1. LastRead(s.cursor) <= Len(events)
    BY <1>1, <1>2, StreamBounds DEF LastRead
  <2>2. UNCHANGED <<events, unsent, appending, registry>>
    BY <1>4, <1>6 DEF ReadFirst
  <2>3. client'[c] = [s EXCEPT !.pc = "write1", !.upto = LastRead(s.cursor)]
    BY <1>4, <1>6 DEF ReadFirst
  <2>4. /\ client'[c].pc = "write1" /\ client'[c].cursor = s.cursor /\ client'[c].since = s.since
        /\ client'[c].ended = s.ended /\ client'[c].full = s.full
        /\ client'[c].upto = LastRead(s.cursor)
    BY <1>2, <2>3 DEF ClientState
  <2>5. s.pc = "read1" /\ registry # c
    BY <1>1, <1>6 DEF ReadFirst, ClientShape, RegistryShape
  <2> QED BY <1>1, <2>1, <2>2, <2>4, <2>5 DEF ClientShape, RegistryShape, ReplayShape, OwedShape
<1>7. CASE WriteFirst(c)
  <2>1. /\ s.pc = "write1" /\ ~s.ended /\ ~s.full /\ s.cursor = s.since /\ s.upto <= Len(events)
        /\ registry # c
    BY <1>1, <1>7 DEF WriteFirst, ClientShape, ReplayShape, RegistryShape
  <2>2. CASE ReplayStep(c, Written(c, "read2"))
    <3>1. client'[c] = Written(c, "read2") /\ UNCHANGED <<events, registry>>
      BY <1>4, <2>2
    <3>2. client'[c].pc = "read2" /\ client'[c].full = s.full
      BY <1>2, <3>1 DEF Written, ClientState
    <3> QED BY <2>1, <3>1, <3>2 DEF ClientShape, RegistryShape, ReplayShape, OwedShape
  <2>3. CASE /\ client' = Registered([client EXCEPT ![c] = [Written(c, "read2") EXCEPT !.attached = TRUE]], c)
             /\ registry' = c
             /\ UNCHANGED <<storeVars, senderVars, run>>
    <3>1. client'[c] = [Written(c, "read2") EXCEPT !.attached = TRUE]
      BY <1>1, <2>3 DEF Registered
    <3>2. /\ client'[c].pc = "read2" /\ client'[c].cursor = s.upto /\ ~client'[c].ended
          /\ ~client'[c].full /\ client'[c].since = s.since
          /\ client'[c].got = s.got \cup ((s.cursor + 1)..s.upto)
      BY <1>2, <2>1, <3>1 DEF Written, ClientState
    <3>3. UNCHANGED <<events, unsent, appending>>
      BY <2>3 DEF storeVars, senderVars
    <3>4. RegistryShape(c)' /\ ReplayShape(c)'
      BY <3>2 DEF RegistryShape, ReplayShape
    <3>5. OwedShape(c)'
      BY <1>1, <1>2, <2>1, <3>2, <3>3 DEF OwedShape, Owed
    <3> QED BY <3>4, <3>5 DEF ClientShape
  <2> QED BY <1>7, <2>2, <2>3 DEF WriteFirst
<1>8. CASE ReadGap(c)
  <2> DEFINE full == s.cursor + Limit < Len(events)
  <2>1. LastRead(s.cursor) <= Len(events) /\ (~full => LastRead(s.cursor) = Len(events))
    BY <1>1, <1>2, StreamBounds DEF LastRead
  <2>2. s.pc = "read2" /\ ~s.full
    BY <1>1, <1>8 DEF ReadGap, ClientShape, ReplayShape
  <2>3. UNCHANGED <<events, unsent, appending, registry>>
    BY <1>4, <1>8 DEF ReadGap
  <2>4. /\ client'[c].pc = "write2" /\ client'[c].cursor = s.cursor /\ client'[c].ended = s.ended
        /\ client'[c].full = full /\ client'[c].since = s.since /\ client'[c].got = s.got
        /\ client'[c].upto = LastRead(s.cursor)
    <3>1. client'[c] = [s EXCEPT !.pc = "write2", !.upto = LastRead(s.cursor), !.full = full]
      BY <1>4, <1>8 DEF ReadGap
    <3> HIDE DEF full
    <3> QED BY <1>2, <3>1 DEF ClientState
  <2>5. RegistryShape(c)' /\ ReplayShape(c)'
    BY <1>1, <2>1, <2>2, <2>3, <2>4 DEF ClientShape, RegistryShape, ReplayShape
  <2>6. OwedShape(c)'
    BY <1>1, <2>1, <2>2, <2>3, <2>4 DEF ClientShape, OwedShape, Owed, InFlight
  <2> QED BY <2>5, <2>6 DEF ClientShape
<1>9. CASE WriteGap(c)
  <2>1. s.pc = "write2" /\ s.upto <= Len(events)
    BY <1>1, <1>9 DEF WriteGap, ClientShape, ReplayShape
  <2>2. UNCHANGED <<events, unsent, appending, registry>>
    BY <1>4, <1>9 DEF WriteGap
  <2>3. /\ client'[c].pc = "state2" /\ client'[c].ended = s.ended
        /\ client'[c].full = s.full /\ client'[c].since = s.since
        /\ ~s.ended => client'[c].got = s.got \cup ((s.cursor + 1)..s.upto)
    <3>1. client'[c] = Written(c, "state2")
      BY <1>4, <1>9 DEF WriteGap
    <3> QED BY <1>2, <3>1 DEF Written, ClientState
  <2>4. RegistryShape(c)' /\ ReplayShape(c)'
    BY <1>1, <2>1, <2>2, <2>3 DEF ClientShape, RegistryShape, ReplayShape
  <2>5. OwedShape(c)'
    BY <1>1, <2>1, <2>2, <2>3 DEF ClientShape, RegistryShape, OwedShape, Owed, InFlight
  <2> QED BY <2>4, <2>5 DEF ClientShape
<1>10. CASE GetStateAfter(c)
  <2>1. UNCHANGED <<events, unsent, appending, registry>> /\ s.pc = "state2"
    BY <1>4, <1>10 DEF GetStateAfter
  <2>2. client'[c] = [s EXCEPT !.pc = "finish", !.status = row.status]
    BY <1>4, <1>10 DEF GetStateAfter
  <2>3. /\ client'[c].pc = "finish" /\ client'[c].since = s.since /\ client'[c].got = s.got
        /\ client'[c].ended = s.ended /\ client'[c].full = s.full
    BY <1>2, <2>2 DEF ClientState
  <2> QED BY <1>1, <2>1, <2>3
          DEF ClientShape, RegistryShape, ReplayShape, OwedShape, Owed, InFlight
<1>11. CASE FinishReplay(c)
  <2>1. CASE ReplayStep(c, [client[c] EXCEPT !.pc = "tailing"])
    <3>1. UNCHANGED <<events, unsent, appending, registry>> /\ s.pc = "finish"
      BY <1>4, <1>11, <2>1 DEF FinishReplay
    <3>2. client'[c] = [s EXCEPT !.pc = "tailing"]
      BY <1>4, <2>1
    <3>3. /\ client'[c].pc = "tailing" /\ client'[c].since = s.since /\ client'[c].got = s.got
          /\ client'[c].ended = s.ended /\ client'[c].full = s.full
      BY <1>2, <3>2 DEF ClientState
    <3> QED BY <1>1, <3>1, <3>3
            DEF ClientShape, RegistryShape, ReplayShape, OwedShape, Owed, InFlight
  <2>2. CASE /\ registry' = NoClient /\ client' = [client EXCEPT ![c] = Closed(c)]
             /\ UNCHANGED <<storeVars, senderVars, run>>
    BY <1>1, <1>2, <1>3, <2>2
       DEF Closed, ClientShape, RegistryShape, ReplayShape, OwedShape, ClientState
  <2> QED BY <1>11, <2>1, <2>2 DEF FinishReplay
<1> QED BY <1>5, <1>6, <1>7, <1>8, <1>9, <1>10, <1>11 DEF ServeStep

(* So do a connection and the end of an idle response.                      *)
LEMMA ConnectShape ==
    ASSUME ReplayInv, NEW c \in Clients, ConnectStep(c)
    PROVE  ClientShape(c)'
<1> DEFINE s == client[c]
<1>1. TypeOK /\ ClientShape(c) /\ Len(events) \in Nat /\ client \in [Clients -> ClientState]
  BY LenProperties DEF ReplayInv, TypeOK
<1>2. s \in ClientState /\ c # NoClient
  BY <1>1, ClientFields, ClientAssumption
<1>3. CASE DropIdle(c)
  <2>1. /\ client'[c] = [s EXCEPT !.ended = TRUE] /\ registry = c /\ registry' = NoClient
        /\ UNCHANGED <<events, unsent, appending>>
    BY <1>1, <1>3 DEF DropIdle, storeVars, senderVars
  <2> QED BY <1>2, <2>1, OtherClient
<1>4. CASE ConnectUnknown(c)
  <2>1. s.pc = "idle" /\ events = <<>>
    BY <1>4 DEF ConnectUnknown, ReplayInv
  <2>2. CASE ReplayStep(c, Closed(c))
    <3>1. client'[c] = Closed(c) /\ registry' = registry /\ registry # c
      BY <1>1, <2>1, <2>2 DEF ReplayStep, ClientShape, RegistryShape
    <3>2. client'[c].pc = "closed"
      BY <1>2, <3>1 DEF Closed, ClientState
    <3> QED BY <3>1, <3>2 DEF ClientShape, RegistryShape, ReplayShape, OwedShape
  <2>3. CASE /\ client' = Registered([client EXCEPT ![c] = [client[c] EXCEPT !.pc = "tailing"]], c)
             /\ registry' = c
             /\ UNCHANGED <<storeVars, senderVars, run>>
    <3>1. client'[c] = [s EXCEPT !.pc = "tailing"] /\ events' = <<>>
      BY <1>1, <2>1, <2>3 DEF Registered, storeVars
    <3>2. client'[c].pc = "tailing" /\ client'[c].ended = s.ended /\ client'[c].since = s.since
      BY <1>2, <3>1 DEF ClientState
    <3>3. ~s.ended /\ s.since = 0
      BY <1>1, <2>1 DEF ClientShape, ReplayShape
    <3> QED BY <3>1, <3>2, <3>3 DEF ClientShape, RegistryShape, ReplayShape, OwedShape
  <2> QED BY <1>4, <2>2, <2>3 DEF ConnectUnknown
<1>5. ASSUME NEW since \in 0..Len(events), Connect(c, since) PROVE ClientShape(c)'
  <2>1. /\ client'[c] = [s EXCEPT !.pc = "state1", !.since = since, !.cursor = since]
        /\ registry' = registry /\ s.pc = "idle"
    BY <1>1, <1>5 DEF Connect, ReplayStep
  <2>2. /\ client'[c].pc = "state1" /\ client'[c].since = since /\ client'[c].cursor = since
        /\ client'[c].ended = s.ended /\ client'[c].full = s.full
    BY <1>2, <2>1 DEF ClientState
  <2> QED BY <1>1, <2>1, <2>2 DEF ClientShape, RegistryShape, ReplayShape, OwedShape
<1>6. ASSUME NEW end \in BOOLEAN, ReplayFails(c, end) PROVE ClientShape(c)'
  <2>1. client'[c] = [Closed(c) EXCEPT !.pc = "failed", !.ended = s.ended \/ end]
    BY <1>1, <1>6 DEF ReplayFails, ReplayStep
  <2>2. client'[c].pc = "failed"
    BY <1>1, <2>1, ClosedType DEF ClientState
  <2> QED BY <2>2 DEF ClientShape, RegistryShape, ReplayShape, OwedShape
<1> QED BY <1>3, <1>4, <1>5, <1>6 DEF ConnectStep

(* A step of the sender moves a frame from "not there" to committed, and    *)
(* from committed to written: what a response is owed never grows unseen.   *)
LEMMA QueueShape ==
    ASSUME ReplayInv, QueueStep, NEW d \in Clients
    PROVE  ClientShape(d)'
<1> DEFINE s == client[d]
<1>1. /\ TypeOK /\ ClientShape(d) /\ Len(events) \in Nat /\ events \in Seq({"item", "end"})
      /\ client \in [Clients -> ClientState]
  BY LenProperties DEF ReplayInv, TypeOK
<1>2. /\ s \in ClientState /\ s.since \in Nat /\ s.cursor \in Nat /\ s.upto \in Nat
      /\ s.got \in SUBSET Nat
  BY <1>1, ClientFields
<1>3. d # NoClient
  BY ClientAssumption
<1>4. CASE EnsureLive
  <2>1. UNCHANGED <<events, unsent, registry, client>> /\ InFlight = {} /\ InFlight' = {}
    BY <1>4 DEF EnsureLive, InFlight
  <2> QED BY <1>1, <2>1 DEF ClientShape, RegistryShape, ReplayShape, OwedShape, Owed
<1>5. ASSUME Insert, UNCHANGED <<registry, client>>,
             Len(events) + 1 \in unsent' \cup InFlight', unsent \subseteq unsent'
      PROVE  ClientShape(d)'
  <2>1. InFlight = {} /\ Len(events') = Len(events) + 1
    <3>1. Head(queue) \in {"item", "end"}
      BY <1>5, HeadTailProperties DEF Insert, ReplayInv, QuietInv, TypeOK
    <3> QED BY <1>1, <1>5, <3>1, AppendProperties DEF Insert, InFlight
  <2>2. RegistryShape(d)' /\ ReplayShape(d)'
    BY <1>1, <1>2, <1>5, <2>1 DEF ClientShape, RegistryShape, ReplayShape
  <2>3. Owed(d) \subseteq Owed(d)'
    BY <1>1, <1>2, <1>5, <2>1 DEF Owed
  <2>4. OwedShape(d)'
    <3> SUFFICES ASSUME registry' = d /\ client'[d].pc # "failed" /\ ~client'[d].full,
                        NEW seq \in (client'[d].since + 1)..Len(events')
                 PROVE  seq \in client'[d].got \cup unsent' \cup InFlight' \cup Owed(d)'
      BY DEF OwedShape
    <3>1. seq = Len(events) + 1 \/ seq \in (s.since + 1)..Len(events)
      BY <1>1, <1>2, <1>5, <2>1
    <3> QED BY <1>1, <1>5, <2>1, <2>3, <3>1 DEF ClientShape, OwedShape
  <2> QED BY <2>2, <2>4 DEF ClientShape
<1>6. CASE AppendFrame
  <2>1. Insert /\ UNCHANGED <<registry, client, unsent>> /\ appending' = "committed"
    BY <1>6 DEF AppendFrame
  <2>2. Len(events') = Len(events) + 1
    <3>1. Head(queue) \in {"item", "end"}
      BY <2>1, HeadTailProperties DEF Insert, ReplayInv, QuietInv, TypeOK
    <3> QED BY <1>1, <2>1, <3>1, AppendProperties DEF Insert
  <2> QED BY <1>5, <2>1, <2>2 DEF InFlight
<1>7. CASE CommitUnknown
  BY <1>5, <1>7 DEF CommitUnknown
<1>8. CASE AppendFails
  <2>1. UNCHANGED <<events, unsent, registry, client>> /\ InFlight = {} /\ InFlight' = {}
    BY <1>8 DEF AppendFails, InFlight, storeVars
  <2> QED BY <1>1, <2>1 DEF ClientShape, RegistryShape, ReplayShape, OwedShape, Owed
<1>9. CASE Deliver
  <2>1. UNCHANGED <<events, unsent>> /\ InFlight = {Len(events)} /\ InFlight' = {}
    BY <1>9 DEF Deliver, InFlight, storeVars
  <2>2. CASE registry # d
    <3>1. client'[d] = s /\ registry' # d
      BY <1>1, <1>3, <1>9, <2>2 DEF Deliver
    <3> QED BY <1>1, <2>1, <3>1 DEF ClientShape, RegistryShape, ReplayShape, OwedShape
  <2>3. CASE registry = d /\ s.pc = "failed"
    <3>1. client'[d].pc = "failed"
      BY <1>1, <1>2, <1>9, <2>3 DEF Deliver, ClientState
    <3> QED BY <3>1 DEF ClientShape, RegistryShape, ReplayShape, OwedShape
  <2>4. CASE registry = d /\ s.pc # "failed"
    <3>1. ~s.ended /\ s.pc \in {"read2", "write2", "state2", "finish", "tailing"}
      BY <1>1, <2>4 DEF ClientShape, RegistryShape
    <3> DEFINE isEnd == Head(queue) = "end"
    <3>2. /\ client'[d] = [s EXCEPT !.got = @ \cup {Len(events)}, !.ended = isEnd]
          /\ registry' = IF isEnd THEN NoClient ELSE registry
      BY <1>1, <1>3, <1>9, <2>4, <3>1 DEF Deliver
    <3> HIDE DEF isEnd
    <3>3. /\ client'[d].pc = s.pc /\ client'[d].since = s.since /\ client'[d].cursor = s.cursor
          /\ client'[d].upto = s.upto /\ client'[d].full = s.full /\ client'[d].ended = isEnd
          /\ client'[d].got = s.got \cup {Len(events)}
      BY <1>2, <3>2 DEF ClientState
    <3>4. RegistryShape(d)' /\ ReplayShape(d)'
      BY <1>1, <1>3, <2>1, <3>1, <3>2, <3>3 DEF ClientShape, RegistryShape, ReplayShape
    <3>5. OwedShape(d)'
      BY <1>1, <2>1, <2>4, <3>3 DEF ClientShape, OwedShape, Owed
    <3> QED BY <3>4, <3>5 DEF ClientShape
  <2> QED BY <2>2, <2>3, <2>4
<1> QED BY <1>4, <1>6, <1>7, <1>8, <1>9 DEF QueueStep

LEMMA RunShape ==
    ASSUME ReplayInv, RunStep, NEW d \in Clients
    PROVE  ClientShape(d)'
<1>1. UNCHANGED <<events, unsent, appending, registry, client>>
  BY DEF RunStep, StartRun, SendChunk, AttemptFails, Flush, MarkTerminal, MarkTerminalUpdate, MarkFails,
         FinishRun, EndRun, FailRun, storeVars, senderVars
<1> QED BY <1>1, OtherClient

LEMMA CrashShape ==
    ASSUME ReplayInv, Crash, NEW d \in Clients
    PROVE  ClientShape(d)'
<1>1. TypeOK /\ ClientShape(d) /\ d # NoClient /\ registry' # d
  BY ClientAssumption DEF ReplayInv, Crash
<1>2. CASE client[d].pc = "idle"
  <2>1. client'[d] = client[d]
    BY <1>2 DEF Crash
  <2> QED BY <1>1, <1>2, <2>1 DEF ClientShape, RegistryShape, ReplayShape, OwedShape
<1>3. CASE client[d].pc # "idle"
  <2>1. client'[d] = Closed(d) /\ client[d] \in ClientState
    BY <1>1, <1>3, ClientFields DEF Crash
  <2>2. client'[d].pc = "closed"
    BY <2>1 DEF Closed, ClientState
  <2> QED BY <1>1, <2>2 DEF ClientShape, RegistryShape, ReplayShape, OwedShape
<1> QED BY <1>2, <1>3

(* The step of one client, seen from another.                               *)
LEMMA ServeOther ==
    ASSUME ReplayInv, NEW c \in Clients, NEW d \in Clients, d # c,
           ServeStep(c) \/ ConnectStep(c)
    PROVE  ClientShape(d)'
<1>1. /\ UNCHANGED <<events, unsent, appending>>
      /\ \/ /\ registry' = registry \/ registry' = NoClient
            /\ \E s : client' = [client EXCEPT ![c] = s]
         \/ /\ registry' = c
            /\ \E s : client' = Registered([client EXCEPT ![c] = s], c)
  BY Zenon DEF ServeStep, GetState, ReadFirst, WriteFirst, ReadGap, WriteGap, GetStateAfter,
         FinishReplay, ConnectStep, DropIdle, ConnectUnknown, Connect, ReplayFails, ReplayStep, storeVars, senderVars
<1>2. CASE /\ registry' = registry \/ registry' = NoClient
           /\ \E s : client' = [client EXCEPT ![c] = s]
  <2>1. client'[d] = client[d]
    BY <1>2 DEF ReplayInv, TypeOK
  <2>2. registry' = d => registry = d
    BY <1>2, ClientAssumption
  <2> QED BY <1>1, <2>1, <2>2, OtherClient
<1>3. CASE /\ registry' = c
           /\ \E s : client' = Registered([client EXCEPT ![c] = s], c)
  BY <1>1, <1>3, Displaced
<1> QED BY <1>1, <1>2, <1>3

LEMMA RowKnown ==
    ASSUME ReplayInv, Next
    PROVE  row'.status = "none" => events' = <<>>
<1> SUFFICES UNCHANGED <<row, events>> \/ row'.status # "none"
  BY DEF ReplayInv
<1> USE DEF storeVars
<1>1. CASE RunStep
  <2>1. run.mark # "none"
    BY DEF ReplayInv, TypeOK, Terminal
  <2>2. CASE StartRun
    BY <2>2 DEF StartRun, EnsureStream
  <2>3. CASE MarkTerminal
    BY <2>1, <2>3 DEF MarkTerminal, EnsureStream
  <2>4. CASE MarkTerminalUpdate
    BY <2>1, <2>4 DEF MarkTerminalUpdate
  <2> QED BY <1>1, <2>2, <2>3, <2>4
          DEF RunStep, SendChunk, AttemptFails, Flush, MarkFails, FinishRun, EndRun, FailRun
<1>2. CASE QueueStep
  <2>1. CASE EnsureLive
    BY <2>1 DEF EnsureLive, EnsureStream
  <2>2. CASE AppendFrame \/ CommitUnknown
    BY <2>2 DEF AppendFrame, CommitUnknown, Insert
  <2> QED BY <1>2, <2>1, <2>2 DEF QueueStep, AppendFails, Deliver
<1>3. CASE Crash
  BY <1>3 DEF Crash
<1>4. ASSUME NEW c \in Clients, ServeStep(c) \/ ConnectStep(c)
      PROVE  UNCHANGED <<row, events>>
  BY <1>4 DEF ServeStep, GetState, ReadFirst, WriteFirst, ReadGap, WriteGap, GetStateAfter,
              FinishReplay, ConnectStep, DropIdle, ConnectUnknown, Connect, ReplayFails, ReplayStep
<1> QED BY <1>1, <1>2, <1>3, <1>4 DEF Next

LEMMA ReplayInvNext ==
    ASSUME ReplayInv, Next
    PROVE  ReplayInv'
<1>1. TypeOK' /\ QuietInv'
  BY TypeNext, QuietNext DEF ReplayInv
<1>2. ASSUME NEW d \in Clients PROVE ClientShape(d)'
  <2>1. CASE RunStep \/ QueueStep \/ Crash
    BY <2>1, RunShape, QueueShape, CrashShape
  <2>2. ASSUME NEW c \in Clients, ServeStep(c) \/ ConnectStep(c)
        PROVE  ClientShape(d)'
    <3>1. CASE d = c
      BY <2>2, <3>1, ServeShape, ConnectShape
    <3>2. CASE d # c
      BY <2>2, <3>2, ServeOther
    <3> QED BY <3>1, <3>2
  <2> QED BY <2>1, <2>2 DEF Next
<1> QED BY <1>1, <1>2, RowKnown DEF ReplayInv

LEMMA ReplayInvStutter ==
    ASSUME ReplayInv, UNCHANGED vars
    PROVE  ReplayInv'
<1>1. TypeOK' /\ QuietInv' /\ UNCHANGED <<row, events, unsent, appending, registry, client>>
  BY StutterStep DEF ReplayInv, vars
<1>2. ASSUME NEW d \in Clients PROVE ClientShape(d)'
  BY <1>1, OtherClient
<1> QED BY <1>1, <1>2 DEF ReplayInv

LEMMA ReplayInvInit == Init => ReplayInv
<1> SUFFICES ASSUME Init PROVE ReplayInv
  OBVIOUS
<1>1. TypeOK /\ QuietInv
  BY StreamTypeInit DEF Init, QuietInv, Idle, Terminal
<1>2. ASSUME NEW c \in Clients PROVE ClientShape(c)
  BY ClientAssumption
     DEF Init, ClientShape, RegistryShape, ReplayShape, OwedShape
<1> QED BY <1>1, <1>2 DEF ReplayInv, Init

LEMMA ReplayInvCorrect == Spec => []ReplayInv
<1>1. ReplayInv /\ [Next]_vars => ReplayInv'
  BY ReplayInvNext, ReplayInvStutter
<1> QED BY <1>1, ReplayInvInit, PTL DEF Spec

(* The replay leaves no hole: for any number of clients, frames, runs and   *)
(* crashes, a client that tails the stream was written every frame after    *)
(* the one it asked to start from, by the first batch, by the gap fill or   *)
(* live (replayToResponse, deliverToActiveResponse).                        *)
THEOREM ReplayHasNoHole == Spec => []TailComplete
<1>1. ReplayInv => TailComplete
  <2> SUFFICES ASSUME ReplayInv, NEW c \in Clients,
                      client[c].pc = "tailing", registry = c, ~client[c].full
               PROVE  Complete(c)
    BY DEF TailComplete
  <2>1. OwedShape(c) /\ Owed(c) = {}
    BY DEF ReplayInv, ClientShape, Owed
  <2> QED BY <2>1 DEF OwedShape, Complete
<1> QED BY <1>1, ReplayInvCorrect, PTL

-----------------------------------------------------------------------------
(* A frame is committed before it is delivered, so there is one to deliver. *)
PersistedInv == /\ DeliveredIsPersisted
                /\ appending = "committed" => events # <<>>

LEMMA PersistedNext ==
    ASSUME ReplayInv, PersistedInv, Next
    PROVE  PersistedInv'
<1>1. /\ TypeOK /\ Len(events) \in Nat /\ events \in Seq({"item", "end"})
      /\ client \in [Clients -> ClientState]
  BY LenProperties DEF ReplayInv, TypeOK
<1>2. ASSUME UNCHANGED <<events, appending>>,
             \A c \in Clients : client'[c].got \subseteq client[c].got \cup 1..Len(events)
      PROVE  PersistedInv'
  BY <1>2 DEF PersistedInv, DeliveredIsPersisted
<1>3. CASE RunStep
  <2>1. UNCHANGED <<events, appending, client>>
    BY <1>3 DEF RunStep, StartRun, SendChunk, AttemptFails, Flush, MarkTerminal, MarkTerminalUpdate, MarkFails,
           FinishRun, EndRun, FailRun, storeVars, senderVars
  <2> QED BY <1>2, <2>1
<1>4. CASE QueueStep
  <2>1. CASE EnsureLive \/ AppendFails
    BY <2>1 DEF EnsureLive, AppendFails, PersistedInv, DeliveredIsPersisted, storeVars
  <2>2. CASE AppendFrame \/ CommitUnknown
    <3>1. Insert /\ UNCHANGED client
      BY <2>2 DEF AppendFrame, CommitUnknown
    <3>2. Head(queue) \in {"item", "end"}
      BY <3>1, HeadTailProperties DEF Insert, ReplayInv, QuietInv, TypeOK
    <3>3. Len(events') = Len(events) + 1 /\ events' # <<>>
      BY <1>1, <3>1, <3>2, AppendProperties DEF Insert
    <3> QED BY <1>1, <3>1, <3>3 DEF PersistedInv, DeliveredIsPersisted
  <2>3. CASE Deliver
    <3>1. Len(events) \in 1..Len(events)
      <4>1. events # <<>>
        BY <2>3 DEF Deliver, PersistedInv
      <4>2. Len(events) # 0
        BY <1>1, <4>1, EmptySeq
      <4> QED BY <1>1, <4>2
    <3>2. ASSUME NEW c \in Clients PROVE client'[c].got \subseteq client[c].got \cup {Len(events)}
      BY <1>1, <2>3 DEF Deliver, ClientState
    <3>3. UNCHANGED events /\ appending' = "no"
      BY <2>3 DEF Deliver, storeVars
    <3> QED BY <3>1, <3>2, <3>3 DEF PersistedInv, DeliveredIsPersisted
  <2> QED BY <1>4, <2>1, <2>2, <2>3 DEF QueueStep
<1>5. CASE Crash
  <2>1. ASSUME NEW c \in Clients PROVE client'[c].got = client[c].got
    BY <1>1, <1>5 DEF Crash, Closed, ClientState
  <2> QED BY <1>5, <2>1 DEF Crash, PersistedInv, DeliveredIsPersisted, storeVars
<1>6. ASSUME NEW c \in Clients, ServeStep(c) \/ ConnectStep(c)
      PROVE  PersistedInv'
  <2>1. UNCHANGED <<events, appending>>
    BY <1>6 DEF ServeStep, GetState, ReadFirst, WriteFirst, ReadGap, WriteGap, GetStateAfter,
                FinishReplay, ConnectStep, DropIdle, ConnectUnknown, Connect, ReplayFails, ReplayStep, storeVars, senderVars
  <2>2. client[c] \in ClientState /\ client[c].cursor \in Nat /\ client[c].upto \in Nat
    BY <1>1, ClientFields
  <2>3. ASSUME NEW pc, client[c].pc \in {"write1", "write2"}
        PROVE  Written(c, pc).got \subseteq client[c].got \cup 1..Len(events)
    <3>1. client[c].upto <= Len(events)
      BY <2>3 DEF ReplayInv, ClientShape, ReplayShape
    <3>2. (client[c].cursor + 1)..client[c].upto \subseteq 1..Len(events)
      BY <1>1, <2>2, <3>1
    <3> QED BY <2>2, <3>2 DEF Written, ClientState
  <2>4. \E s : /\ s.got \subseteq client[c].got \cup 1..Len(events)
              /\ \/ client' = [client EXCEPT ![c] = s]
                 \/ client' = Registered([client EXCEPT ![c] = s], c)
    <3>1. CASE WriteFirst(c)
      <4>1. /\ Written(c, "read2").got \subseteq client[c].got \cup 1..Len(events)
            /\ [Written(c, "read2") EXCEPT !.attached = TRUE].got = Written(c, "read2").got
        BY <2>2, <2>3, <3>1 DEF WriteFirst, Written, ClientState
      <4> QED BY <3>1, <4>1 DEF WriteFirst, ReplayStep
    <3>2. CASE WriteGap(c)
      <4>1. Written(c, "state2").got \subseteq client[c].got \cup 1..Len(events)
        BY <2>3, <3>2 DEF WriteGap
      <4> QED BY <3>2, <4>1 DEF WriteGap, ReplayStep
    <3>4. CASE GetState(c) \/ ReadFirst(c) \/ ReadGap(c) \/ GetStateAfter(c) \/ FinishReplay(c)
      <4>1. \E s : s.got = client[c].got /\ client' = [client EXCEPT ![c] = s]
        <5>1. CASE GetState(c)
          BY <2>2, <5>1 DEF GetState, ReplayStep, ClientState
        <5>2. CASE ReadFirst(c)
          BY <2>2, <5>2 DEF ReadFirst, ReplayStep, ClientState
        <5>3. CASE ReadGap(c)
          BY <2>2, <5>3 DEF ReadGap, ReplayStep, ClientState
        <5>4. CASE GetStateAfter(c)
          BY <2>2, <5>4 DEF GetStateAfter, ReplayStep, ClientState
        <5>5. CASE FinishReplay(c)
          BY <2>2, <5>5 DEF FinishReplay, ReplayStep, Closed, ClientState
        <5> QED BY <3>4, <5>1, <5>2, <5>3, <5>4, <5>5
      <4> QED BY <4>1
    <3>5. CASE DropIdle(c)
      BY <2>2, <3>5 DEF DropIdle, ClientState
    <3>6. CASE ConnectUnknown(c)
      BY <2>2, <3>6 DEF ConnectUnknown, ReplayStep, Closed, ClientState
    <3>7. ASSUME NEW since \in 0..Len(events), Connect(c, since)
          PROVE  \E s : s.got = client[c].got /\ client' = [client EXCEPT ![c] = s]
      BY <2>2, <3>7 DEF Connect, ReplayStep, ClientState
    <3>8. ASSUME NEW end \in BOOLEAN, ReplayFails(c, end)
          PROVE  \E s : s.got = client[c].got /\ client' = [client EXCEPT ![c] = s]
      BY <2>2, <3>8 DEF ReplayFails, ReplayStep, Closed, ClientState
    <3> QED BY <1>6, <3>1, <3>2, <3>4, <3>5, <3>6, <3>7, <3>8 DEF ServeStep, ConnectStep
  <2>5. ASSUME NEW d \in Clients
        PROVE  client'[d].got \subseteq client[d].got \cup 1..Len(events)
    <3>1. PICK s : /\ s.got \subseteq client[c].got \cup 1..Len(events)
                   /\ \/ client' = [client EXCEPT ![c] = s]
                      \/ client' = Registered([client EXCEPT ![c] = s], c)
      BY <2>4
    <3>2. CASE d = c
      <4>1. client'[d] = s
        BY <1>1, <3>1, <3>2 DEF Registered
      <4> QED BY <3>1, <3>2, <4>1
    <3>3. CASE d # c
      <4>1. client'[d] = client[d] \/ client'[d] = [client[d] EXCEPT !.ended = TRUE]
        BY <1>1, <3>1, <3>3 DEF Registered
      <4>2. client[d] \in ClientState
        BY <1>1
      <4>3. client'[d].got = client[d].got
        BY <4>1, <4>2 DEF ClientState
      <4> QED BY <4>3
    <3> QED BY <3>2, <3>3
  <2> QED BY <1>2, <2>1, <2>5
<1> QED BY <1>3, <1>4, <1>5, <1>6 DEF Next

(* Nothing is shown that is not on record: every frame written to any       *)
(* response is in the store (flushFrames delivers what appendFrame          *)
(* returned, replayToResponse what readFramesSince returned).               *)
THEOREM ShownIsOnRecord == Spec => []DeliveredIsPersisted
<1>1. Init => PersistedInv
  BY DEF Init, PersistedInv, DeliveredIsPersisted
<1>2. ReplayInv /\ PersistedInv /\ [Next]_vars => PersistedInv'
  <2>1. ASSUME PersistedInv, UNCHANGED vars PROVE PersistedInv'
    BY <2>1 DEF PersistedInv, DeliveredIsPersisted, vars
  <2> QED BY <2>1, PersistedNext
<1>3. PersistedInv => DeliveredIsPersisted
  BY DEF PersistedInv
<1> QED BY <1>1, <1>2, <1>3, ReplayInvCorrect, PTL DEF Spec

=============================================================================
