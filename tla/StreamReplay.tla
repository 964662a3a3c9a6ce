----------------------------- MODULE StreamReplay -----------------------------
(***************************************************************************)
(* One durable stream.  A run of the agent sends chunks; they are queued   *)
(* (durableSendChunk.ts), persisted one by one (PostgresStreamStore.ts),   *)
(* and each, once persisted, is written to the HTTP response registered    *)
(* for the stream (ResponseStore.ts), if there is one.  A client that      *)
(* connects replays what it has not seen, registers itself in the middle   *)
(* of that, fills the gap and then tails the live frames                   *)
(* (replayService.ts).  A run that pauses for a human decision is followed *)
(* by another run on the same stream.                                      *)
(*                                                                         *)
(* Every query to the store is a step of its own, and so is what the code  *)
(* does with its result.                                                   *)
(***************************************************************************)
EXTENDS Integers, Sequences

CONSTANTS Clients,     \* HTTP responses; each connects once
          NoClient,
          Limit,       \* ReplayQuery.limit
          MaxFrames,   \* bound on the chunks and failed attempts of the runs
          MaxRuns      \* bound on the runs of the stream

ASSUME ClientAssumption == NoClient \notin Clients
ASSUME StreamBounds == Limit \in Nat \ {0} /\ MaxFrames \in Nat /\ MaxRuns \in Nat

VARIABLES row,        \* the stream's row: its status, and whether expires_at is set
          events,     \* the event types of the stream's frames; frame seq is events[seq]
          unsent,     \* frames committed by an append that reported an error
          queue,      \* the chunks waiting in the promise chain
          appending,  \* how far the append of the first of them has come
          run,        \* the execution that writes the stream
          registry,   \* the response registered for the stream
          client      \* the responses and the replays that serve them

vars == <<row, events, unsent, queue, appending, run, registry, client>>
storeVars == <<row, events, unsent>>
senderVars == <<queue, appending>>

Terminal == {"paused_hitl", "completed", "failed"}
ClientPcs == {"idle", "state1", "read1", "write1", "read2", "write2", "state2",
              "finish", "tailing", "failed", "closed"}

(***************************************************************************)
(* A client: the sequence number it asked to start after, the position the *)
(* replay has reached, the rows a query returned (up to upto), the status  *)
(* read last, whether the replay registered the response, whether the      *)
(* second query may have left rows behind, the frames written to the       *)
(* response, and whether it was ended.                                     *)
(***************************************************************************)
ClientState == [pc : ClientPcs, since : Nat, cursor : Nat, upto : Nat,
                status : {"none", "live"} \cup Terminal, attached : BOOLEAN,
                full : BOOLEAN, got : SUBSET Nat, ended : BOOLEAN]

TypeOK == /\ row \in [status : {"none", "live"} \cup Terminal, expires : BOOLEAN]
          /\ events \in Seq({"item", "end"})
          /\ unsent \in SUBSET Nat
          /\ queue \in Seq({"item", "end"})
          /\ appending \in {"no", "ensured", "committed"}
          /\ run \in [pc : {"off", "running", "flushing", "marking", "updating", "marked"},
                      mark : Terminal, n : Nat, sends : Nat, pending : BOOLEAN]
          /\ registry \in Clients \cup {NoClient}
          /\ client \in [Clients -> ClientState]

Init == /\ row = [status |-> "none", expires |-> FALSE]
        /\ events = <<>>
        /\ unsent = {}
        /\ queue = <<>>
        /\ appending = "no"
        /\ run = [pc |-> "off", mark |-> "completed", n |-> 0, sends |-> 0, pending |-> FALSE]
        /\ registry = NoClient
        /\ client = [c \in Clients |->
                       [pc |-> "idle", since |-> 0, cursor |-> 0, upto |-> 0, status |-> "none",
                        attached |-> FALSE, full |-> FALSE, got |-> {}, ended |-> FALSE]]

(***************************************************************************)
(* ensureStream: status 'live' also clears expires_at.                     *)
(***************************************************************************)
EnsureStream(status) ==
    row' = [status |-> status, expires |-> IF status = "live" THEN FALSE ELSE row.expires]

(***************************************************************************)
(* The run                                                                 *)
(***************************************************************************)

(* setupStreamTransport.  The first run mints the key of the stream; a      *)
(* later one is the answer to a decision the previous one was waiting for.  *)
StartRun ==
    /\ run.pc = "off" /\ run.n < MaxRuns
    /\ run.n = 0 \/ run.pending
    /\ EnsureStream("live")
    /\ run' = [run EXCEPT !.pc = "running", !.n = @ + 1, !.pending = FALSE]
    /\ UNCHANGED <<events, unsent, senderVars, registry, client>>

(* sendChunk('item')                                                        *)
SendChunk ==
    /\ run.pc = "running" /\ run.sends < MaxFrames
    /\ run' = [run EXCEPT !.sends = @ + 1]
    /\ queue' = Append(queue, "item")
    /\ UNCHANGED <<storeVars, appending, registry, client>>

(* A streaming attempt of the query throws: an error and an end frame are   *)
(* sent, and the query is repeated, or the run fails.                       *)
AttemptFails ==
    /\ run.pc = "running" /\ run.sends < MaxFrames
    /\ run' = [run EXCEPT !.sends = @ + 1]
    /\ queue' = Append(Append(queue, "item"), "end")
    /\ UNCHANGED <<storeVars, appending, registry, client>>

(* The run ends or pauses: sendChunk('end'), then flush.  A run that pauses *)
(* has persisted its pending interaction.                                   *)
EndRun(mark) ==
    /\ run.pc = "running"
    /\ run' = [run EXCEPT !.pc = "flushing", !.mark = mark, !.pending = (mark = "paused_hitl")]
    /\ queue' = Append(queue, "end")
    /\ UNCHANGED <<storeVars, appending, registry, client>>

(* The catch of executeTask: no 'end' (the query has sent its own, if it    *)
(* was what failed), flush, mark failed.  A running task may have persisted *)
(* an interaction before it throws; what comes after markTerminal (session  *)
(* metadata, callbacks) may still throw.                                    *)
FailRun(pending) ==
    /\ \/ run.pc = "running"
       \/ run.pc = "marked" /\ run.mark # "failed" /\ pending = run.pending
    /\ run' = [run EXCEPT !.pc = "flushing", !.mark = "failed", !.pending = pending]
    /\ UNCHANGED <<storeVars, senderVars, registry, client>>

(* Mutant: the flush does not wait for the queue.                           *)
FlushAtOnce ==
    /\ run.pc = "flushing"
    /\ run' = [run EXCEPT !.pc = "marking"]
    /\ UNCHANGED <<storeVars, senderVars, registry, client>>

(* flushDurableSendChunk: await the queue.                                  *)
Flush ==
    /\ run.pc = "flushing"
    /\ queue = <<>> /\ appending = "no"
    /\ run' = [run EXCEPT !.pc = "marking"]
    /\ UNCHANGED <<storeVars, senderVars, registry, client>>

(* markTerminal: ensureStream with the new status, then the UPDATE that     *)
(* also sets expires_at.                                                    *)
MarkTerminal ==
    /\ run.pc = "marking"
    /\ EnsureStream(run.mark)
    /\ run' = [run EXCEPT !.pc = "updating"]
    /\ UNCHANGED <<events, unsent, senderVars, registry, client>>

MarkTerminalUpdate ==
    /\ run.pc = "updating"
    /\ row' = [status |-> run.mark, expires |-> TRUE]
    /\ run' = [run EXCEPT !.pc = "marked"]
    /\ UNCHANGED <<events, unsent, senderVars, registry, client>>

(* A query of markTerminal fails: the catch of executeTask marks the stream *)
(* failed, and gives up if that fails too.                                  *)
MarkFails ==
    /\ run.pc \in {"marking", "updating"}
    /\ run' = [run EXCEPT !.pc = IF run.mark = "failed" THEN "off" ELSE "flushing",
                          !.mark = "failed"]
    /\ UNCHANGED <<storeVars, senderVars, registry, client>>

FinishRun ==
    /\ run.pc = "marked"
    /\ run' = [run EXCEPT !.pc = "off"]
    /\ UNCHANGED <<storeVars, senderVars, registry, client>>

(***************************************************************************)
(* The queue                                                               *)
(***************************************************************************)

(* appendFrame first makes sure the row exists and is live ...              *)
EnsureLive ==
    /\ queue # <<>> /\ appending = "no"
    /\ EnsureStream("live")
    /\ appending' = "ensured"
    /\ UNCHANGED <<events, unsent, queue, run, registry, client>>

(* ... then inserts the frame in one transaction, under the row's lock.     *)
Insert == /\ appending = "ensured"
          /\ events' = Append(events, Head(queue))
          /\ row' = [status |-> "live", expires |-> FALSE]

AppendFrame ==
    /\ Insert
    /\ appending' = "committed"
    /\ UNCHANGED <<unsent, queue, run, registry, client>>

(* The COMMIT succeeds but its answer is lost: appendFrame throws and the   *)
(* frame is never delivered.                                                *)
CommitUnknown ==
    /\ Insert
    /\ unsent' = unsent \cup {Len(events) + 1}
    /\ queue' = Tail(queue) /\ appending' = "no"
    /\ UNCHANGED <<run, registry, client>>

(* Mutant: a chunk that could not be persisted is delivered all the same.   *)
AppendFailsDelivering ==
    /\ queue # <<>> /\ appending \in {"no", "ensured"}
    /\ queue' = Tail(queue) /\ appending' = "no"
    /\ client' = [c \in Clients |->
                    IF c = registry THEN [client[c] EXCEPT !.got = @ \cup {Len(events) + 1}]
                                    ELSE client[c]]
    /\ UNCHANGED <<storeVars, run, registry>>

(* onPersistError: the chunk is dropped, the chain goes on.                 *)
AppendFails ==
    /\ queue # <<>> /\ appending \in {"no", "ensured"}
    /\ queue' = Tail(queue) /\ appending' = "no"
    /\ UNCHANGED <<storeVars, run, registry, client>>

(* deliverToActiveResponse: write the frame; 'end' closes and unregisters.  *)
Deliver ==
    LET seq == Len(events)
        isEnd == Head(queue) = "end"
    IN  /\ appending = "committed"
        /\ queue' = Tail(queue) /\ appending' = "no"
        /\ client' = [c \in Clients |->
                        IF c = registry /\ ~client[c].ended
                        THEN [client[c] EXCEPT !.got = @ \cup {seq}, !.ended = isEnd]
                        ELSE client[c]]
        /\ registry' = IF registry # NoClient /\ (isEnd \/ client[registry].ended)
                       THEN NoClient ELSE registry
        /\ UNCHANGED <<storeVars, run>>

(***************************************************************************)
(* The registry: one response per stream.                                  *)
(***************************************************************************)

(* storeRequestResponse: the response registered before is closed.          *)
Registered(clients, c) ==
    [d \in Clients |-> IF d = registry /\ d # c THEN [clients[d] EXCEPT !.ended = TRUE]
                                               ELSE clients[d]]

(* Mutant: an idle response is removed without being closed.                *)
DropIdleOpen(c) ==
    /\ registry = c
    /\ registry' = NoClient
    /\ UNCHANGED <<storeVars, senderVars, run, client>>

(* The idle timer, a lookup that finds the response idle, or the eviction   *)
(* of the oldest response when the registry is full: closed and removed.    *)
DropIdle(c) ==
    /\ registry = c
    /\ registry' = NoClient
    /\ client' = [client EXCEPT ![c] = [client[c] EXCEPT !.ended = TRUE]]
    /\ UNCHANGED <<storeVars, senderVars, run>>

(***************************************************************************)
(* A client connects and its replay runs.                                  *)
(***************************************************************************)

(* The response was ended and the variables of its replay are gone.         *)
Closed(c) == [client[c] EXCEPT !.pc = "closed", !.ended = TRUE, !.since = 0, !.cursor = 0,
                               !.upto = 0, !.status = "none", !.attached = FALSE, !.full = FALSE]

ReplayStep(c, s) == /\ client' = [client EXCEPT ![c] = s]
                    /\ UNCHANGED <<storeVars, senderVars, run, registry>>

(* attachStreamResponse.  A stream without a row: a replay request is told  *)
(* so, the answer to a decision is registered as it is.                     *)
Connect(c, since) ==
    /\ client[c].pc = "idle"
    /\ row.status # "none"
    /\ since <= Len(events)
    /\ ReplayStep(c, [client[c] EXCEPT !.pc = "state1", !.since = since, !.cursor = since])

ConnectUnknown(c) ==
    /\ client[c].pc = "idle"
    /\ row.status = "none"
    /\ \/ ReplayStep(c, Closed(c))
       \/ /\ client' = Registered([client EXCEPT ![c] = [client[c] EXCEPT !.pc = "tailing"]], c)
          /\ registry' = c
          /\ UNCHANGED <<storeVars, senderVars, run>>

(* stateBeforeReplay                                                        *)
GetState(c) ==
    /\ client[c].pc = "state1"
    /\ ReplayStep(c, [client[c] EXCEPT !.pc = "read1", !.status = row.status])

(* Mutant: the query stops before the last frame.                           *)
LastReadShort(cursor) == IF cursor + Limit < Len(events) THEN cursor + Limit
                         ELSE IF cursor < Len(events) THEN Len(events) - 1 ELSE cursor

(* readFramesSince: at most Limit frames after the cursor.                  *)
LastRead(cursor) == IF cursor + Limit < Len(events) THEN cursor + Limit ELSE Len(events)

ReadFirst(c) ==
    /\ client[c].pc = "read1"
    /\ ReplayStep(c, [client[c] EXCEPT !.pc = "write1", !.upto = LastRead(client[c].cursor)])

(* The client after the frames of the last query were written to it; a      *)
(* response that was ended meanwhile takes nothing more.                    *)
Written(c, pc) ==
    [client[c] EXCEPT !.pc = pc, !.cursor = client[c].upto,
        !.got = IF client[c].ended THEN @ ELSE @ \cup ((client[c].cursor + 1)..client[c].upto)]

(* Write the first batch and, if the stream was not over, register.         *)
WriteFirst(c) ==
    /\ client[c].pc = "write1"
    /\ \/ /\ client[c].status \in {"live", "paused_hitl"}
          /\ client' = Registered([client EXCEPT ![c] = [Written(c, "read2") EXCEPT !.attached = TRUE]], c)
          /\ registry' = c
          /\ UNCHANGED <<storeVars, senderVars, run>>
       \/ /\ client[c].status \notin {"live", "paused_hitl"}
          /\ ReplayStep(c, Written(c, "read2"))

(* The second readFramesSince, after the response was registered.           *)
ReadGap(c) ==
    /\ client[c].pc = "read2"
    /\ ReplayStep(c, [client[c] EXCEPT !.pc = "write2", !.upto = LastRead(client[c].cursor),
                                       !.full = client[c].cursor + Limit < Len(events)])

WriteGap(c) ==
    /\ client[c].pc = "write2"
    /\ ReplayStep(c, Written(c, "state2"))

(* stateAfterReplay                                                         *)
GetStateAfter(c) ==
    /\ client[c].pc = "state2"
    /\ ReplayStep(c, [client[c] EXCEPT !.pc = "finish", !.status = row.status])

(* Over: unregister whatever is registered for the stream, and end.         *)
(* Otherwise keep tailing.                                                  *)
FinishReplay(c) ==
    /\ client[c].pc = "finish"
    /\ \/ /\ ~client[c].attached \/ client[c].status \in {"completed", "failed"}
          /\ registry' = NoClient
          /\ client' = [client EXCEPT ![c] = Closed(c)]
          /\ UNCHANGED <<storeVars, senderVars, run>>
       \/ /\ client[c].attached /\ client[c].status \notin {"completed", "failed"}
          /\ ReplayStep(c, [client[c] EXCEPT !.pc = "tailing"])

(* A query of the replay fails: the error leaves the handler, which neither *)
(* ends nor unregisters the response.  Whether n8n ends it is its own       *)
(* affair.                                                                  *)
ReplayFails(c, end) ==
    /\ client[c].pc \in {"state1", "read1", "read2", "state2"}
    /\ ReplayStep(c, [Closed(c) EXCEPT !.pc = "failed", !.ended = client[c].ended \/ end])

(* The process dies with its queue, registry and connections.               *)
Crash ==
    /\ run' = [run EXCEPT !.pc = "off"]
    /\ queue' = <<>> /\ appending' = "no"
    /\ registry' = NoClient
    /\ client' = [c \in Clients |->
                     IF client[c].pc = "idle" THEN client[c] ELSE Closed(c)]
    /\ UNCHANGED storeVars

(***************************************************************************)
RunStep == \/ StartRun \/ SendChunk \/ AttemptFails \/ Flush \/ MarkTerminal \/ MarkTerminalUpdate
           \/ MarkFails \/ FinishRun
           \/ \E mark \in {"completed", "paused_hitl"} : EndRun(mark)
           \/ \E pending \in BOOLEAN : FailRun(pending)

QueueStep == EnsureLive \/ AppendFrame \/ CommitUnknown \/ AppendFails \/ Deliver

ServeStep(c) == \/ GetState(c) \/ ReadFirst(c) \/ WriteFirst(c) \/ ReadGap(c) \/ WriteGap(c)
                \/ GetStateAfter(c) \/ FinishReplay(c)

ConnectStep(c) == \/ DropIdle(c) \/ ConnectUnknown(c)
                  \/ \E since \in 0..Len(events) : Connect(c, since)
                  \/ \E end \in BOOLEAN : ReplayFails(c, end)

Next == \/ RunStep \/ QueueStep \/ Crash
        \/ \E c \in Clients : ServeStep(c) \/ ConnectStep(c)

Spec == Init /\ [][Next]_vars

(* A replay that has started runs on, and the timer finds every registered  *)
(* response idle once nothing is written to it.                             *)
FairSpec == Spec /\ \A c \in Clients : WF_vars(ServeStep(c)) /\ WF_vars(DropIdle(c))

(***************************************************************************)
(* Properties                                                              *)
(***************************************************************************)

(* The frame that is committed but not yet delivered.                       *)
InFlight == IF appending = "committed" THEN {Len(events)} ELSE {}

(* A client that tails the stream has every frame after the one it asked    *)
(* to start from: what the replay read, the frames persisted between its    *)
(* two reads and those delivered live leave no hole, unless the second read *)
(* hit its limit.                                                           *)
Complete(c) == \A seq \in (client[c].since + 1)..Len(events) :
                   seq \in client[c].got \cup unsent \cup InFlight

TailComplete ==
    \A c \in Clients :
        client[c].pc = "tailing" /\ registry = c /\ ~client[c].full => Complete(c)

(* What a client was shown is on record: a frame is never delivered that a  *)
(* replay after a crash would not find.                                     *)
DeliveredIsPersisted == \A c \in Clients : client[c].got \subseteq 1..Len(events)

(* A stream that is marked paused, completed or failed has nothing left in  *)
(* the queue: no late frame follows the mark or turns it back to live.      *)
TerminalIsQuiet == row.status \in Terminal => queue = <<>> /\ appending = "no"

(* "responses are cleaned up after this much inactivity": a response that   *)
(* was accepted is eventually ended, unless an error kept its replay from   *)
(* registering it.                                                          *)
ResponsesEnd ==
    \A c \in Clients :
        client[c].pc # "idle" ~> client[c].ended \/ (client[c].pc = "failed" /\ registry # c)
=============================================================================
