------------------------ MODULE CompanionHitl_proofs ------------------------
(***************************************************************************)
(* For both stores: types, decisions that fit their requests, and sessions *)
(* for the replies of a trigger.                                           *)
(* For the Postgres store: at most one handler is accepted per request,    *)
(* the verdicts agree with the rows, decisions are final, and the consume  *)
(* implements a write-once register.  For static data: tombstones stay,    *)
(* and the same holds of it for as long as no tombstone is old enough to   *)
(* be dropped.  For both stores at all times, with the times that          *)
(* CompanionTimes remembers: a request is accepted again only after its    *)
(* tombstone's age, and what a person was told stays true until then.      *)
(* All for any number of requests, deliveries, retries and failures.       *)
(***************************************************************************)
EXTENDS CompanionTimes, TLAPS

USE KeysAssumption, KindAssumption, AgesAssumption

(* What the record operators return.                                        *)
LEMMA RecordTypes ==
    /\ NoRecord \in Record
    /\ \A r \in Requests, t, now \in Nat, b \in BOOLEAN : RequestRecord(r, t, now, b) \in Record
    /\ \A rec \in Record, k \in Keys \cup {NoKey}, now \in Nat : Consumed(rec, k, now) \in Record
    /\ \A row, rec \in Record : UpsertRow(row, rec) \in Record
<1>1. NoRecord \in Record
  BY DEF NoRecord, Record, Kinds
<1>2. ASSUME NEW r \in Requests, NEW t \in Nat, NEW now \in Nat, NEW b \in BOOLEAN
      PROVE  RequestRecord(r, t, now, b) \in Record
  BY <1>1 DEF RequestRecord, Record
<1>3. ASSUME NEW rec \in Record, NEW k \in Keys \cup {NoKey}, NEW now \in Nat
      PROVE  Consumed(rec, k, now) \in Record
  BY DEF Consumed, Record
<1>4. ASSUME NEW row \in Record, NEW rec \in Record
      PROVE  UpsertRow(row, rec) \in Record
  <2>1. CASE row.status = "none"
    BY <2>1 DEF UpsertRow
  <2>2. CASE row.status = "pending"
    <3>1. UpsertRow(row, rec) = [rec EXCEPT !.createdAt = row.createdAt,
                                            !.messageId = rec.messageId \/ row.messageId]
      BY <2>2 DEF UpsertRow
    <3>2. row.createdAt \in Nat /\ (rec.messageId \/ row.messageId) \in BOOLEAN
      BY DEF Record
    <3> QED BY <3>1, <3>2 DEF Record
  <2>3. CASE row.status = "consumed"
    BY <2>3 DEF UpsertRow
  <2> QED BY <2>1, <2>2, <2>3 DEF Record
<1> QED BY <1>1, <1>2, <1>3, <1>4

(* The static store stays a function to records under every call.           *)
LEMMA StaticTypes ==
    ASSUME NEW s \in [Requests -> Record], NEW now \in Nat
    PROVE  /\ CleanupExpired(s, now) \in [Requests -> Record]
           /\ \A r \in Requests, rec \in Record : StaticSave(s, r, rec, now) \in [Requests -> Record]
           /\ \A r \in Requests, k \in Keys \cup {NoKey}, f \in Record :
                 /\ StaticConsume(s, r, k, f, now) \in [Requests -> Record]
                 /\ StaticVerdict(s, r, k, f, now) \in Outcomes
<1>1. CleanupExpired(s, now) \in [Requests -> Record]
  BY RecordTypes DEF CleanupExpired
<1>2. ASSUME NEW r \in Requests, NEW rec \in Record
      PROVE  StaticSave(s, r, rec, now) \in [Requests -> Record]
  BY <1>1 DEF StaticSave
<1>3. ASSUME NEW r \in Requests, NEW k \in Keys \cup {NoKey}, NEW f \in Record
      PROVE  /\ StaticConsume(s, r, k, f, now) \in [Requests -> Record]
             /\ StaticVerdict(s, r, k, f, now) \in Outcomes
  <2> DEFINE c == CleanupExpired(s, now)
  <2>1. c[r] \in Record /\ c[r].status \in {"none", "pending", "consumed"}
    BY <1>1 DEF Record
  <2>2. Consumed(c[r], k, now) \in Record /\ Consumed(f, k, now) \in Record
    BY <2>1, RecordTypes
  <2>3. StaticConsume(s, r, k, f, now) \in [Requests -> Record]
    BY <1>1, <2>2 DEF StaticConsume
  <2>4. StaticVerdict(s, r, k, f, now) \in Outcomes
    BY DEF StaticVerdict, Outcomes
  <2> QED BY <2>3, <2>4
<1> QED BY <1>1, <1>2, <1>3

-----------------------------------------------------------------------------
(* The parts of a handler's state.                                          *)
LEMMA HandlerParts ==
    ASSUME TypeOK, NEW h \in Handlers
    PROVE  /\ handler[h] \in HandlerState
           /\ handler[h].in \in Delivery /\ handler[h].in.target \in Requests
           /\ handler[h].in.approval \in Approvals \cup {NoKey}
           /\ handler[h].in.answer \in Answers \cup {NoKey}
           /\ handler[h].req \in Requests /\ store[handler[h].req] \in Record
           /\ handler[h].fallback \in Record
           /\ handler[h].key \in Keys \cup {NoKey}
BY DEF TypeOK, HandlerState, Delivery

(* A handler moved by one of the spec's updates stays well typed.           *)
LEMMA BecomeType ==
    ASSUME TypeOK, NEW h \in Handlers, NEW s \in HandlerState, Become(h, s)
    PROVE  handler' \in [Handlers -> HandlerState]
BY DEF TypeOK, Become

LEMMA HandlerUpdate ==
    ASSUME NEW s \in HandlerState
    PROVE  /\ \A pc \in PCs : [s EXCEPT !.pc = pc] \in HandlerState
           /\ \A o \in Outcomes : [s EXCEPT !.pc = "done", !.outcome = o] \in HandlerState
           /\ \A rec \in Record :
                 [s EXCEPT !.pc = "accepted", !.outcome = "accepted",
                           !.resumable = rec.session] \in HandlerState
           /\ \A r \in Requests, k \in Keys, f \in Record :
                 [s EXCEPT !.pc = ConsumePc, !.req = r, !.key = k, !.fallback = f] \in HandlerState
           /\ \A d \in Delivery, pc \in PCs :
                 [s EXCEPT !.in = d, !.req = d.target, !.pc = pc] \in HandlerState
           /\ \A d \in Delivery :
                 [s EXCEPT !.in = d, !.req = d.target, !.pc = "done", !.outcome = "refused"]
                    \in HandlerState
<1>1. \A pc \in PCs : [s EXCEPT !.pc = pc] \in HandlerState
  BY DEF HandlerState
<1>2. \A o \in Outcomes : [s EXCEPT !.pc = "done", !.outcome = o] \in HandlerState
  BY DEF HandlerState, PCs
<1>3. ASSUME NEW rec \in Record
      PROVE  [s EXCEPT !.pc = "accepted", !.outcome = "accepted",
                       !.resumable = rec.session] \in HandlerState
  <2>1. rec.session \in BOOLEAN
    BY DEF Record
  <2> QED BY <2>1 DEF HandlerState, PCs, Outcomes
<1>4. \A r \in Requests, k \in Keys, f \in Record :
        [s EXCEPT !.pc = ConsumePc, !.req = r, !.key = k, !.fallback = f] \in HandlerState
  BY DEF HandlerState, PCs, ConsumePc
<1>5. ASSUME NEW d \in Delivery
      PROVE  /\ \A pc \in PCs : [s EXCEPT !.in = d, !.req = d.target, !.pc = pc] \in HandlerState
             /\ [s EXCEPT !.in = d, !.req = d.target, !.pc = "done", !.outcome = "refused"]
                    \in HandlerState
  <2>1. d.target \in Requests
    BY DEF Delivery
  <2> QED BY <2>1 DEF HandlerState, PCs, Outcomes
<1> QED BY <1>1, <1>2, <1>3, <1>4, <1>5

(* After its lookup a handler either stops or goes on to consume, with a    *)
(* real decision key, the request its delivery names or the one it found.   *)
LEMMA DecideCases ==
    ASSUME TypeOK, NEW h \in Handlers, NEW r \in Requests, NEW rec \in Record, Decide(h, r, rec)
    PROVE  \/ Finish(h, "refused")
           \/ \E q \in Requests, k \in Keys, f \in Record :
                 /\ ProceedWith(h, q, k, f)
                 /\ \/ q = r /\ rec.status # "none"
                    \/ q = handler[h].in.target /\ handler[h].in.path \in {"callback", "query"}
<1> DEFINE d == handler[h].in
<1>0. /\ d \in Delivery /\ d.target \in Requests
      /\ d.approval \in Approvals \cup {NoKey} /\ d.answer \in Answers \cup {NoKey}
  BY HandlerParts
<1>1. ASSUME NEW kind \in Kinds
      PROVE  Fallback(d, kind) \in Record
  <2>1. clock \in Nat /\ (d.path = "inbound" /\ d.how # "sender") \in BOOLEAN
    BY DEF TypeOK
  <2> QED BY <2>1 DEF Fallback, Record, NoRecord
<1>2. "approval" \in Kinds /\ "question" \in Kinds /\ NoRecord \in Record
  BY RecordTypes DEF Kinds
<1>3. /\ d.approval # NoKey => d.approval \in Keys
      /\ d.answer # NoKey => d.answer \in Keys
  BY <1>0 DEF Keys
<1>4. CASE d.path = "callback" /\ DecideCallback(h, rec)
  <2>1. CASE d.approval # NoKey
    BY <1>0, <1>1, <1>2, <1>3, <1>4, <2>1 DEF DecideCallback, DecideApprovalToken
  <2>2. CASE d.approval = NoKey /\ Finish(h, "refused")
    BY <2>2
  <2>3. CASE d.approval = NoKey /\ ProceedWith(h, d.target, d.answer, Fallback(d, "question"))
    <3>1. d.answer # NoKey
      BY <1>0, <1>4, <2>3 DEF Delivery, IsToken
    <3> QED BY <1>0, <1>1, <1>2, <1>3, <1>4, <2>3, <3>1
  <2> QED BY <1>4, <2>1, <2>2, <2>3 DEF DecideCallback, DecideOptionToken
<1>5. CASE d.path = "query" /\ DecideQuery(h, rec)
  <2>1. Finish(h, "refused") \/ DecideLink(h, rec)
    BY <1>5 DEF DecideQuery, SlackQuery, DiscordQuery, TelegramQuery, WoztellQuery,
                WhatsAppQuery, EmailQuery, GmailQuery
  <2> QED
    BY <1>0, <1>1, <1>2, <1>3, <1>5, <2>1
    DEF DecideLink, DecideLinkApproval, DecideLinkAnswers
<1>6. CASE DecideInbound(h, r, rec)
  BY <1>0, <1>1, <1>2, <1>3, <1>6 DEF DecideInbound
<1>7. CASE DecideTrigger(h, r, rec)
  BY <1>0, <1>1, <1>2, <1>3, <1>7 DEF DecideTrigger
<1> QED
  BY <1>4, <1>5, <1>6, <1>7
  DEF Decide, DecideTap, SlackCallback, DiscordCallback, TelegramCallback,
      WhatsAppTriggerReply, WoztellTriggerReply

LEMMA DecideType ==
    ASSUME TypeOK, NEW h \in Handlers, NEW r \in Requests, NEW rec \in Record, Decide(h, r, rec)
    PROVE  handler' \in [Handlers -> HandlerState]
<1>0. handler[h] \in HandlerState /\ "refused" \in Outcomes
  BY HandlerParts DEF Outcomes
<1>1. CASE Finish(h, "refused")
  BY <1>0, <1>1, HandlerUpdate, BecomeType DEF Finish
<1>2. ASSUME NEW q \in Requests, NEW k \in Keys, NEW f \in Record, ProceedWith(h, q, k, f)
      PROVE  handler' \in [Handlers -> HandlerState]
  BY <1>0, <1>2, HandlerUpdate, BecomeType DEF ProceedWith
<1> QED BY <1>1, <1>2, DecideCases

-----------------------------------------------------------------------------
(* savePending keeps the store well typed, for either backend.              *)
LEMMA SavedType ==
    ASSUME TypeOK, NEW r \in Requests, NEW rec \in Record
    PROVE  Saved(r, rec) \in [Requests -> Record]
<1>1. UpsertRow(store[r], rec) \in Record
  BY RecordTypes DEF TypeOK
<1>2. StaticSave(store, r, rec, clock) \in [Requests -> Record]
  BY StaticTypes DEF TypeOK
<1> QED BY <1>1, <1>2 DEF Saved, TypeOK

(* What a node's settings tell the proofs.                                   *)
LEMMA NodeParts ==
    ASSUME NEW n \in Nodes
    PROVE  n.lost \in SUBSET Requests /\ n.timeoutMs \in Nat
<1>1. n \in Node
  BY NodesAssumption
<1>2. ASSUME NEW C, NEW M, NEW B, NEW D, n \in NodeOf(C, M, B, D)
      PROVE  n.lost \in SUBSET Requests /\ n.timeoutMs \in Nat
  BY <1>2 DEF NodeOf
<1> QED BY <1>1, <1>2 DEF Node, TelegramNode, WhatsAppNode, WoztellNode, SlackNode,
                        DiscordNode, EmailNode, GmailNode

LEMMA LostKnown == TypeOK => node.lost \subseteq Requests /\ node.timeoutMs \in Nat
BY NodeParts DEF TypeOK

(* Whatever the channel, a send ends in one of three ways, and the message   *)
(* may have left even when it threw.                                        *)
LEMMA SendCases ==
    ASSUME NEW r \in Requests, SendMessage(r)
    PROVE  /\ \E pc \in {"sentWithId", "dispatched", "failed"} : DispatchTo(r, pc)
           /\ sent' \in {sent, sent \cup {r}}
           /\ UNCHANGED <<node, clock, store, retries, handler>>
BY DEF SendMessage, TelegramSends, WhatsAppSends, WoztellSends, CompanionSends, SendThrows, Delivered

LEMMA TypeOKInit == Init => TypeOK
<1> SUFFICES ASSUME Init PROVE TypeOK
  OBVIOUS
<1>1. NoRecord \in Record
  BY RecordTypes
<1>2. NoDelivery \in Delivery
  <2>1. (CHOOSE r \in Requests : TRUE) \in Requests
    BY RequestsAssumption
  <2> QED BY <2>1 DEF NoDelivery, Delivery
<1>3. NoDelivery.target \in Requests
  BY <1>2 DEF Delivery
<1>4. handler \in [Handlers -> HandlerState]
  BY <1>1, <1>2, <1>3 DEF Init, HandlerState, PCs, Outcomes
<1>5. sent \in SUBSET Requests
  BY NodeParts DEF Init
<1> QED BY <1>1, <1>4, <1>5 DEF Init, TypeOK

LEMMA TypeOKNext == TypeOK /\ [Next]_vars => TypeOK'
<1> SUFFICES ASSUME TypeOK, [Next]_vars PROVE TypeOK'
  OBVIOUS
<1>0. /\ clock \in Nat /\ sent \in SUBSET Requests /\ retries \in [Requests -> Nat]
      /\ store \in [Requests -> Record]
  BY DEF TypeOK
<1>1. CASE Tick
  BY <1>1 DEF Tick, TypeOK, dispatchVars
<1>2. ASSUME NEW r \in Requests, DispatchStep(r) PROVE TypeOK'
  <2>1. CASE SavePending(r)
    <3>1. store' \in [Requests -> Record]
      BY <2>1, SavedType, RecordTypes, LostKnown, <1>0 DEF SavePending
    <3> QED BY <2>1, <3>1 DEF SavePending, TypeOK
  <2>2. CASE SendMessage(r)
    <3>1. PICK pc \in {"sentWithId", "dispatched", "failed"} : DispatchTo(r, pc)
      BY <2>2, SendCases
    <3>2. sent' \in SUBSET Requests /\ UNCHANGED <<node, clock, store, retries, handler>>
      BY <1>0, <2>2, SendCases
    <3> QED BY <3>1, <3>2 DEF DispatchTo, TypeOK
  <2>3. CASE SaveMessageId(r)
    <3>1. dispatch[r].createdAt \in Nat
      BY DEF TypeOK
    <3>2. store' \in [Requests -> Record]
      BY <2>3, <3>1, SavedType, RecordTypes, LostKnown DEF SaveMessageId
    <3> QED BY <2>3, <3>2 DEF SaveMessageId, DispatchTo, TypeOK
  <2>4. CASE SaveFails(r)
    BY <2>4 DEF SaveFails, DispatchTo, TypeOK
  <2>5. CASE RetryDispatch(r)
    BY <2>5 DEF RetryDispatch, DispatchTo, TypeOK
  <2> QED BY <1>2, <2>1, <2>2, <2>3, <2>4, <2>5 DEF DispatchStep
<1>3. ASSUME NEW h \in Handlers, NEW d \in Deliveries, Receive(h, d) PROVE TypeOK'
  <2>1. d \in Delivery /\ FirstLookup(d) \in PCs
    BY DeliveriesAssumption DEF FirstLookup, PCs
  <2>2. handler' \in [Handlers -> HandlerState]
    BY <1>3, <2>1, HandlerParts, HandlerUpdate, BecomeType DEF Receive
  <2> QED BY <1>3, <2>2 DEF Receive, dispatchVars, TypeOK
<1>4. ASSUME NEW h \in Handlers, HandlerStep(h) \/ HandlerFails(h) PROVE TypeOK'
  <2> DEFINE s == handler[h]
  <2>0. /\ s \in HandlerState /\ s.req \in Requests /\ store[s.req] \in Record
        /\ s.fallback \in Record /\ s.in.target \in Requests
        /\ s.key \in Keys \cup {NoKey}
    BY HandlerParts
  <2>1. ASSUME NEW pc \in PCs, Goto(h, pc) PROVE handler' \in [Handlers -> HandlerState]
    BY <2>0, <2>1, HandlerUpdate, BecomeType DEF Goto
  <2>2. ASSUME NEW o \in Outcomes, Finish(h, o) PROVE handler' \in [Handlers -> HandlerState]
    BY <2>0, <2>2, HandlerUpdate, BecomeType DEF Finish
  <2>3. ASSUME NEW rec \in Record, Accept(h, rec) PROVE handler' \in [Handlers -> HandlerState]
    BY <2>0, <2>3, HandlerUpdate, BecomeType DEF Accept
  <2>4. CASE GetPending(h)
    <3>1. store' \in [Requests -> Record]
      BY <1>0, <2>4, StaticTypes DEF GetPending
    <3>2. Decide(h, s.in.target, store'[s.in.target])
      BY <2>4 DEF GetPending
    <3>3. handler' \in [Handlers -> HandlerState]
      BY <2>0, <3>1, <3>2, DecideType
    <3> QED BY <2>4, <3>1, <3>3 DEF GetPending, dispatchVars, TypeOK
  <2>5. CASE GetByProviderMessageId(h)
    <3>1. CASE Decide(h, s.in.target, store[s.in.target])
      <4>1. handler' \in [Handlers -> HandlerState]
        BY <1>0, <2>0, <3>1, DecideType
      <4> QED BY <2>5, <4>1 DEF GetByProviderMessageId, dispatchVars, TypeOK
    <3>2. CASE Goto(h, "byRecipient")
      <4>1. handler' \in [Handlers -> HandlerState]
        BY <3>2, <2>1 DEF PCs
      <4> QED BY <2>5, <4>1 DEF GetByProviderMessageId, dispatchVars, TypeOK
    <3> QED BY <2>5, <3>1, <3>2 DEF GetByProviderMessageId
  <2>6. CASE GetLatestByRecipient(h)
    <3>1. handler' \in [Handlers -> HandlerState]
      <4>1. CASE Finish(h, "refused")
        BY <4>1, <2>2 DEF Outcomes
      <4>2. ASSUME NEW r \in Requests, Decide(h, r, store[r])
            PROVE handler' \in [Handlers -> HandlerState]
        BY <1>0, <4>2, DecideType
      <4> QED BY <2>6, <4>1, <4>2 DEF GetLatestByRecipient, LatestByRecipient, PendingOf
    <3> QED BY <2>6, <3>1 DEF GetLatestByRecipient, dispatchVars, TypeOK
  <2>7. CASE ConsumeStatic(h)
    <3> DEFINE verdict == StaticVerdict(store, s.req, s.key, s.fallback, clock)
               after == StaticConsume(store, s.req, s.key, s.fallback, clock)
    <3>1. after \in [Requests -> Record] /\ verdict \in Outcomes
      BY <1>0, <2>0, StaticTypes
    <3>2. store' = after
      BY <2>7 DEF ConsumeStatic
    <3>3. Accept(h, after[s.req]) \/ Finish(h, verdict)
      BY <2>7 DEF ConsumeStatic
    <3>4. handler' \in [Handlers -> HandlerState]
      <4> HIDE DEF after, verdict
      <4> QED BY <2>0, <2>2, <2>3, <3>1, <3>3
    <3> QED BY <2>7, <3>1, <3>2, <3>4 DEF ConsumeStatic, dispatchVars, TypeOK
  <2>8. CASE UpdatePending(h)
    <3>1. Consumed(store[s.req], s.key, clock) \in Record
      BY <1>0, <2>0, RecordTypes
    <3>2. store' \in [Requests -> Record]
      BY <1>0, <2>8, <3>1 DEF UpdatePending
    <3>3. handler' \in [Handlers -> HandlerState]
      BY <2>0, <2>8, <2>1, <2>3 DEF UpdatePending, PCs
    <3> QED BY <2>8, <3>2, <3>3 DEF UpdatePending, dispatchVars, TypeOK
  <2>9. CASE SelectExisting(h)
    <3>1. RowVerdict(store[s.req], s.key) \in Outcomes /\ "missing" \in Outcomes
      BY DEF RowVerdict, Outcomes
    <3>2. handler' \in [Handlers -> HandlerState]
      BY <2>0, <2>1, <2>2, <2>9, <3>1 DEF SelectExisting, PCs
    <3> QED BY <2>9, <3>2 DEF SelectExisting, dispatchVars, TypeOK
  <2>10. CASE InsertFallback(h)
    <3>1. Consumed(s.fallback, s.key, clock) \in Record
      BY <1>0, <2>0, RecordTypes
    <3>2. store' \in [Requests -> Record]
      BY <1>0, <2>10, <3>1 DEF InsertFallback
    <3>3. handler' \in [Handlers -> HandlerState]
      BY <2>0, <2>10, <2>1, <2>3 DEF InsertFallback, PCs
    <3> QED BY <2>10, <3>2, <3>3 DEF InsertFallback, dispatchVars, TypeOK
  <2>11. CASE SelectRaced(h)
    <3>1. RowVerdict(store[s.req], s.key) \in Outcomes /\ "missing" \in Outcomes
      BY DEF RowVerdict, Outcomes
    <3>2. handler' \in [Handlers -> HandlerState]
      BY <2>0, <2>2, <2>11, <3>1 DEF SelectRaced
    <3> QED BY <2>11, <3>2 DEF SelectRaced, dispatchVars, TypeOK
  <2>12. CASE Emit(h)
    BY <2>12, <2>1 DEF Emit, PCs, dispatchVars, TypeOK
  <2>13. CASE HandlerFails(h)
    <3> DEFINE t == [s EXCEPT !.pc = "failed",
                              !.outcome = IF s.pc = "accepted" THEN "lost" ELSE s.outcome]
    <3>1. t \in HandlerState
      BY <2>0 DEF HandlerState, PCs, Outcomes
    <3>2. Become(h, t)
      BY <2>13 DEF HandlerFails
    <3>3. handler' \in [Handlers -> HandlerState]
      BY <3>1, <3>2, BecomeType
    <3> QED BY <2>13, <3>3 DEF HandlerFails, dispatchVars, TypeOK
  <2> QED BY <1>4, <2>4, <2>5, <2>6, <2>7, <2>8, <2>9, <2>10, <2>11, <2>12, <2>13 DEF HandlerStep
<1>5. CASE UNCHANGED vars
  BY <1>5 DEF vars, TypeOK
<1> QED BY <1>1, <1>2, <1>3, <1>4, <1>5 DEF Next

(* The variables keep their types with either store, for every number of   *)
(* requests and deliveries.                                                *)
THEOREM TypeCorrect == Spec => []TypeOK
BY TypeOKInit, TypeOKNext, PTL DEF Spec

-----------------------------------------------------------------------------
(***************************************************************************)
(* The inductive invariant for the Postgres store.                         *)
(***************************************************************************)

(* A row holds a key exactly when it is consumed, and a pending row was     *)
(* written by execute(), so it names its session.                           *)
RowShape(r) == /\ store[r].status = "consumed" <=> store[r].key # NoKey
               /\ store[r].status = "pending" => store[r].session

(* A message leaves only after its row was written; an orphan's row is      *)
(* written only by a fallback insert, which writes it consumed.             *)
DispatchShape(r) ==
    /\ r \in node.lost => dispatch[r].pc = "dispatched" /\ store[r].status # "pending"
    /\ r \notin node.lost /\ (r \in sent \/ dispatch[r].pc \in {"saved", "sentWithId"})
          => store[r].status # "none"

(* What each point of the handler's code knows.                             *)
HandlerShape(h) ==
    LET s == handler[h] IN
    /\ s.pc # "consume"
    /\ s.pc \in {"idle", "byRequest", "byMessage", "byRecipient",
                 "update", "select", "insert", "raced"} => s.outcome = "none"
    /\ s.pc \in {"accepted", "emitted"} => s.outcome = "accepted"
    /\ s.pc \in {"byRequest", "byMessage"} => s.in.target \in sent
    /\ s.pc \in {"byMessage", "byRecipient"} => s.in.path \in {"inbound", "trigger"}
    /\ s.pc \in {"update", "select", "insert", "raced"} =>
          s.key \in Keys /\ (s.req \in node.lost \/ store[s.req].status # "none")
    /\ s.pc = "select" => store[s.req].status # "pending"
    /\ s.pc \in {"insert", "raced"} => s.req \in node.lost
    /\ s.pc = "raced" => store[s.req].status # "none"
    /\ s.outcome = "accepted" /\ ~s.resumable => s.req \in node.lost

ConsumeInv == /\ TypeOK /\ node.backend = "postgres"
              /\ \A r \in Requests : RowShape(r) /\ DispatchShape(r)
              /\ \A h \in Handlers : HandlerShape(h) /\ VerdictMatches(h)
              /\ AtMostOneAccepted

(* How a step may change the rows: consumed rows stay as they are, rows do  *)
(* not disappear, an orphan never becomes pending, messages stay sent.      *)
RowsGrow == /\ \A r \in Requests : store[r].status = "consumed" => store'[r] = store[r]
            /\ \A r \in Requests : store[r].status # "none" => store'[r].status # "none"
            /\ \A r \in node.lost : store'[r].status # "pending"
            /\ sent \subseteq sent' /\ node' = node

(* Under such a step a handler that does not move keeps what it knows.      *)
LEMMA IdleHandler ==
    ASSUME ConsumeInv, RowsGrow, NEW g \in Handlers, handler'[g] = handler[g]
    PROVE  HandlerShape(g)' /\ VerdictMatches(g)'
<1>1. HandlerShape(g) /\ VerdictMatches(g) /\ handler[g].req \in Requests
      /\ store[handler[g].req].status \in {"none", "pending", "consumed"}
  <2>1. handler[g].req \in Requests /\ store[handler[g].req] \in Record
    BY HandlerParts DEF ConsumeInv
  <2> QED BY <2>1 DEF ConsumeInv, Record
<1>2. HandlerShape(g)'
  BY <1>1 DEF HandlerShape, RowsGrow
<1>3. VerdictMatches(g)'
  BY <1>1 DEF VerdictMatches, RowsGrow
<1> QED BY <1>2, <1>3

(* A step of execute() or of the clock: no handler moves and no row becomes *)
(* consumed.                                                                *)
LEMMA QuietHandlers ==
    ASSUME ConsumeInv, TypeOK', RowsGrow, UNCHANGED handler,
           \A r \in Requests : RowShape(r)' /\ DispatchShape(r)',
           \A r \in Requests : store'[r].status = "consumed" => store[r].status = "consumed"
    PROVE  ConsumeInv'
<1>1. \A g \in Handlers : HandlerShape(g)' /\ VerdictMatches(g)'
  BY IdleHandler
<1>2. AtMostOneAccepted'
  BY DEF ConsumeInv, AtMostOneAccepted, Winners
<1> QED BY <1>1, <1>2 DEF ConsumeInv, RowsGrow

(* A handler moves without winning and without touching the store.          *)
LEMMA QuietStore ==
    ASSUME ConsumeInv, TypeOK', NEW h \in Handlers, NEW t, Become(h, t),
           UNCHANGED <<node, store, dispatch, sent>>,
           HandlerShape(h)', VerdictMatches(h)',
           t.outcome \in {"accepted", "lost"} <=> handler[h].outcome \in {"accepted", "lost"},
           handler[h].outcome \in {"accepted", "lost"} => t.req = handler[h].req
    PROVE  ConsumeInv'
<1>1. /\ handler'[h] = t
      /\ \A g \in Handlers : g # h => handler'[g] = handler[g]
  BY DEF Become, ConsumeInv, TypeOK
<1>2. RowsGrow
  BY LostKnown DEF RowsGrow, ConsumeInv, DispatchShape
<1>3. \A r \in Requests : RowShape(r)' /\ DispatchShape(r)'
  BY DEF ConsumeInv, RowShape, DispatchShape
<1>4. \A g \in Handlers : HandlerShape(g)' /\ VerdictMatches(g)'
  BY <1>1, <1>2, IdleHandler
<1>5. \A g \in Handlers :
        /\ handler'[g].outcome \in {"accepted", "lost"} <=> handler[g].outcome \in {"accepted", "lost"}
        /\ handler[g].outcome \in {"accepted", "lost"} => handler'[g].req = handler[g].req
  BY <1>1
<1>6. AtMostOneAccepted'
  BY <1>5 DEF ConsumeInv, AtMostOneAccepted, Winners
<1> QED BY <1>3, <1>4, <1>6 DEF ConsumeInv

(* A handler wins a request that is not yet decided.                        *)
LEMMA WinningStep ==
    ASSUME ConsumeInv, TypeOK', NEW h \in Handlers, NEW rec \in Record, Accept(h, rec),
           UNCHANGED <<node, dispatch, sent>>,
           handler[h].outcome = "none",
           handler[h].key \in Keys,
           store[handler[h].req].status # "consumed",
           store' = [store EXCEPT ![handler[h].req] = Consumed(rec, handler[h].key, clock)],
           ~rec.session => handler[h].req \in node.lost
    PROVE  ConsumeInv'
<1> DEFINE q == handler[h].req
           t == [handler[h] EXCEPT !.pc = "accepted", !.outcome = "accepted",
                                   !.resumable = rec.session]
<1>0. /\ q \in Requests /\ handler[h] \in HandlerState /\ handler[h].key # NoKey
      /\ handler \in [Handlers -> HandlerState] /\ store \in [Requests -> Record]
  BY HandlerParts DEF ConsumeInv, TypeOK, Keys, Approvals, NoKey
<1>1. /\ handler'[h] = t
      /\ \A g \in Handlers : g # h => handler'[g] = handler[g]
  BY <1>0 DEF Accept, Become
<1>2. /\ t.pc = "accepted" /\ t.outcome = "accepted" /\ t.req = q
      /\ t.key = handler[h].key /\ t.resumable = rec.session
  BY <1>0 DEF HandlerState
<1>3. /\ store'[q].status = "consumed" /\ store'[q].key = handler[h].key
      /\ \A r \in Requests : r # q => store'[r] = store[r]
  BY <1>0 DEF Consumed, Record
<1>4. RowsGrow
  BY <1>3, LostKnown DEF RowsGrow, ConsumeInv, DispatchShape
<1>5. \A r \in Requests : RowShape(r)' /\ DispatchShape(r)'
  BY <1>0, <1>3 DEF ConsumeInv, RowShape, DispatchShape
<1>6. HandlerShape(h)' /\ VerdictMatches(h)'
  BY <1>1, <1>2, <1>3 DEF HandlerShape, VerdictMatches
<1>7. \A g \in Handlers : HandlerShape(g)' /\ VerdictMatches(g)'
  BY <1>1, <1>4, <1>6, IdleHandler
<1>8. \A g \in Handlers : handler[g].outcome \in {"accepted", "lost"} => handler[g].req # q
  BY DEF ConsumeInv, VerdictMatches
<1>9. AtMostOneAccepted'
  <2> SUFFICES ASSUME NEW f \in Handlers, NEW g \in Handlers,
                      handler'[f].outcome \in {"accepted", "lost"},
                      handler'[g].outcome \in {"accepted", "lost"},
                      handler'[f].req = handler'[g].req
               PROVE  f = g
    BY DEF AtMostOneAccepted, Winners
  <2>1. CASE f # h /\ g # h
    <3>1. handler[f].req \in Requests
      BY HandlerParts DEF ConsumeInv
    <3>2. f \in Winners(handler[f].req) /\ g \in Winners(handler[f].req)
      BY <1>1, <2>1 DEF Winners
    <3> QED BY <3>1, <3>2 DEF ConsumeInv, AtMostOneAccepted
  <2>2. CASE f = h \/ g = h
    <3> HIDE DEF t, q
    <3> QED BY <1>1, <1>2, <1>8, <2>2
  <2> QED BY <2>1, <2>2
<1> QED BY <1>5, <1>7, <1>9 DEF ConsumeInv

-----------------------------------------------------------------------------
LEMMA ConsumeInvInit == Init /\ node.backend = "postgres" => ConsumeInv
<1> SUFFICES ASSUME Init, node.backend = "postgres" PROVE ConsumeInv
  OBVIOUS
<1>1. TypeOK
  BY TypeOKInit
<1>2. \A r \in Requests : RowShape(r) /\ DispatchShape(r)
  BY LostKnown DEF Init, RowShape, DispatchShape, NoRecord
<1>3. \A h \in Handlers : HandlerShape(h) /\ VerdictMatches(h)
  BY DEF Init, HandlerShape, VerdictMatches
<1>4. AtMostOneAccepted
  BY DEF Init, AtMostOneAccepted, Winners
<1> QED BY <1>1, <1>2, <1>3, <1>4 DEF ConsumeInv

(* A save by execute() of a record for a request that is not an orphan.     *)
LEMMA SaveStep ==
    ASSUME ConsumeInv, TypeOK', NEW r \in Requests \ node.lost,
           NEW t \in Nat, NEW n \in Nat, NEW b \in BOOLEAN,
           store' = Saved(r, RequestRecord(r, t, n, b)),
           \A x \in Requests : x # r => dispatch'[x] = dispatch[x],
           UNCHANGED <<node, sent, handler>>
    PROVE  ConsumeInv'
<1> DEFINE rec == RequestRecord(r, t, n, b)
<1>0. /\ store \in [Requests -> Record] /\ store[r] \in Record /\ node.backend = "postgres"
      /\ store[r].status \in {"none", "pending", "consumed"}
  BY DEF ConsumeInv, TypeOK, Record
<1>1. rec.status = "pending" /\ rec.key = NoKey /\ rec.session = TRUE /\ rec \in Record
  BY RecordTypes DEF RequestRecord, NoRecord
<1>2. /\ store'[r] = UpsertRow(store[r], rec)
      /\ \A x \in Requests : x # r => store'[x] = store[x]
  BY <1>0 DEF Saved
<1>3. CASE store[r].status = "consumed"
  <2>1. UpsertRow(store[r], rec) = store[r]
    BY <1>3 DEF UpsertRow
  <2>2. \A x \in Requests : store'[x] = store[x]
    BY <1>2, <2>1
  <2>3. RowsGrow
    BY <2>2, LostKnown DEF RowsGrow, ConsumeInv, DispatchShape
  <2>4. \A x \in Requests : RowShape(x)' /\ DispatchShape(x)'
    BY <2>2, <1>3 DEF ConsumeInv, TypeOK, RowShape, DispatchShape
  <2> QED BY <2>2, <2>3, <2>4, QuietHandlers
<1>4. CASE store[r].status # "consumed"
  <2>1. /\ store'[r].status = "pending" /\ store'[r].key = NoKey /\ store'[r].session = TRUE
    <3>1. CASE store[r].status = "none"
      BY <1>1, <1>2, <3>1 DEF UpsertRow
    <3>2. CASE store[r].status = "pending"
      <4>1. UpsertRow(store[r], rec)
              = [rec EXCEPT !.createdAt = store[r].createdAt,
                            !.messageId = rec.messageId \/ store[r].messageId]
        BY <3>2 DEF UpsertRow
      <4> HIDE DEF rec
      <4> QED BY <1>1, <1>2, <4>1 DEF Record
    <3> QED BY <1>0, <1>4, <3>1, <3>2
  <2>2. RowsGrow
    BY <1>2, <1>4, <2>1, LostKnown DEF RowsGrow, ConsumeInv, DispatchShape
  <2>3. \A x \in Requests : RowShape(x)' /\ DispatchShape(x)'
    BY <1>2, <2>1 DEF ConsumeInv, TypeOK, RowShape, DispatchShape
  <2>4. \A x \in Requests : store'[x].status = "consumed" => store[x].status = "consumed"
    BY <1>2, <2>1
  <2> QED BY <2>2, <2>3, <2>4, QuietHandlers
<1> QED BY <1>3, <1>4

(* The steps of execute().                                                  *)
LEMMA DispatchKeepsInv ==
    ASSUME ConsumeInv, TypeOK', NEW r \in Requests, DispatchStep(r)
    PROVE  ConsumeInv'
<1>0. TypeOK /\ DispatchShape(r)
  BY DEF ConsumeInv
<1>1. r \notin node.lost
  BY <1>0 DEF DispatchShape, DispatchStep, SavePending, SendMessage, SaveMessageId,
              SaveFails, RetryDispatch
<1>2. CASE SavePending(r)
  BY <1>0, <1>1, <1>2, SaveStep, LostKnown DEF SavePending, TypeOK
<1>3. CASE SaveMessageId(r)
  <2>1. \A x \in Requests : x # r => dispatch'[x] = dispatch[x]
    BY <1>0, <1>3 DEF SaveMessageId, DispatchTo, TypeOK
  <2>2. dispatch[r].createdAt \in Nat
    BY <1>0 DEF TypeOK
  <2> QED BY <1>0, <1>1, <1>3, <2>1, <2>2, SaveStep, LostKnown DEF SaveMessageId
<1>4. CASE SendMessage(r) \/ SaveFails(r) \/ RetryDispatch(r)
  <2>1. /\ UNCHANGED <<node, store, handler>> /\ sent \subseteq sent' /\ sent' \subseteq sent \cup {r}
        /\ \A x \in Requests : x # r => dispatch'[x] = dispatch[x]
        /\ sent' # sent \/ dispatch'[r].pc \in {"saved", "sentWithId"} => store[r].status # "none"
    <3>1. CASE SendMessage(r)
      BY <1>0, <1>1, <3>1, SendCases DEF SendMessage, DispatchTo, DispatchShape, TypeOK
    <3>2. CASE SaveFails(r)
      BY <1>0, <1>1, <3>2 DEF SaveFails, DispatchTo, DispatchShape, TypeOK
    <3>3. CASE RetryDispatch(r)
      BY <1>0, <1>1, <3>3 DEF RetryDispatch, DispatchTo, DispatchShape, TypeOK
    <3> QED BY <1>4, <3>1, <3>2, <3>3
  <2>2. RowsGrow
    BY <2>1, LostKnown DEF RowsGrow, ConsumeInv, DispatchShape
  <2>3. \A x \in Requests : RowShape(x)'
    BY <2>1 DEF ConsumeInv, RowShape
  <2>4. \A x \in Requests : DispatchShape(x)'
    BY <1>1, <2>1 DEF ConsumeInv, DispatchShape
  <2> QED BY <2>1, <2>2, <2>3, <2>4, QuietHandlers
<1> QED BY <1>2, <1>3, <1>4 DEF DispatchStep

(* A delivery arrives.                                                      *)
LEMMA ReceiveKeepsInv ==
    ASSUME ConsumeInv, TypeOK', NEW h \in Handlers, NEW d \in Deliveries, Receive(h, d)
    PROVE  ConsumeInv'
<1> DEFINE s == handler[h]
           refused == [s EXCEPT !.in = d, !.req = d.target, !.pc = "done", !.outcome = "refused"]
           started == [s EXCEPT !.in = d, !.req = d.target, !.pc = FirstLookup(d)]
<1>0. /\ s \in HandlerState /\ s.outcome = "none" /\ d \in Delivery
      /\ handler \in [Handlers -> HandlerState]
  BY HandlerParts, DeliveriesAssumption DEF Receive, ConsumeInv, HandlerShape, TypeOK
<1>1. CASE Become(h, refused)
  <2>1. refused.pc = "done" /\ refused.outcome = "refused"
    BY <1>0 DEF HandlerState
  <2>2. handler'[h] = refused
    BY <1>0, <1>1 DEF Become
  <2>3. HandlerShape(h)' /\ VerdictMatches(h)'
    BY <2>1, <2>2 DEF HandlerShape, VerdictMatches
  <2>4. UNCHANGED <<node, store, dispatch, sent>>
    BY DEF Receive, dispatchVars
  <2> HIDE DEF refused
  <2> QED BY <1>0, <1>1, <2>1, <2>3, <2>4, QuietStore
<1>2. CASE Become(h, started)
  <2>1. started.pc = FirstLookup(d) /\ started.outcome = "none" /\ started.in = d
    BY <1>0 DEF HandlerState
  <2>2. handler'[h] = started
    BY <1>0, <1>2 DEF Become
  <2>3. UNCHANGED <<node, store, dispatch, sent>> /\ CanArrive(d)
    BY DEF Receive, dispatchVars
  <2>4. d.how \in {"request", "message", "sender"}
    BY <1>0 DEF Delivery
  <2>5. d.path \in {"callback", "query"} => d.how = "request"
    <3>1. d.path = "callback" => IsToken(d)
      BY <1>0 DEF Delivery
    <3>2. d.path = "query" => QueryDelivery(node, d)
      BY <2>3 DEF CanArrive, WellFormed
    <3> QED BY <3>1, <3>2 DEF IsToken, QueryDelivery
  <2>6. d.how # "sender" => d.target \in sent
    BY <2>3 DEF CanArrive
  <2>7. d.path \in {"callback", "query", "inbound", "trigger"}
    BY <1>0 DEF Delivery
  <2>8. HandlerShape(h)' /\ VerdictMatches(h)'
    BY <2>1, <2>2, <2>3, <2>4, <2>5, <2>6, <2>7 DEF HandlerShape, VerdictMatches, FirstLookup
  <2> HIDE DEF started
  <2> QED BY <1>0, <1>2, <2>1, <2>3, <2>8, QuietStore
<1> QED BY <1>1, <1>2 DEF Receive

(* A lookup ends: the handler goes on with a request whose row is there, or *)
(* with an orphan.                                                          *)
LEMMA LookupKeepsInv ==
    ASSUME ConsumeInv, TypeOK', NEW h \in Handlers, NEW r \in Requests,
           handler[h].pc \in {"byRequest", "byMessage", "byRecipient"},
           Decide(h, r, store[r]), UNCHANGED <<node, store, dispatch, sent>>
    PROVE  ConsumeInv'
<1> DEFINE s == handler[h]
<1>0. /\ s \in HandlerState /\ s.outcome = "none" /\ HandlerShape(h) /\ store[r] \in Record
      /\ node.backend = "postgres"
      /\ handler \in [Handlers -> HandlerState] /\ TypeOK
  BY HandlerParts DEF ConsumeInv, HandlerShape, TypeOK
<1>1. CASE Finish(h, "refused")
  <2> DEFINE t == [s EXCEPT !.pc = "done", !.outcome = "refused"]
  <2>1. t.pc = "done" /\ t.outcome = "refused" /\ Become(h, t)
    BY <1>0, <1>1 DEF HandlerState, Finish
  <2>2. handler'[h] = t
    BY <1>0, <2>1 DEF Become
  <2>3. HandlerShape(h)' /\ VerdictMatches(h)'
    BY <2>1, <2>2 DEF HandlerShape, VerdictMatches
  <2> HIDE DEF t
  <2> QED BY <1>0, <2>1, <2>3, QuietStore
<1>2. ASSUME NEW q \in Requests, NEW k \in Keys, NEW f \in Record, ProceedWith(h, q, k, f),
             \/ q = r /\ store[r].status # "none"
             \/ q = s.in.target /\ s.in.path \in {"callback", "query"}
      PROVE  ConsumeInv'
  <2> DEFINE t == [s EXCEPT !.pc = ConsumePc, !.req = q, !.key = k, !.fallback = f]
  <2>1. t.pc = "update" /\ t.outcome = "none" /\ t.req = q /\ t.key = k /\ Become(h, t)
    BY <1>0, <1>2 DEF HandlerState, ProceedWith, ConsumePc
  <2>2. handler'[h] = t
    BY <1>0, <2>1 DEF Become
  <2>3. q \in node.lost \/ store[q].status # "none"
    BY <1>0, <1>2 DEF HandlerShape, ConsumeInv, DispatchShape
  <2>4. HandlerShape(h)' /\ VerdictMatches(h)'
    BY <2>1, <2>2, <2>3 DEF HandlerShape, VerdictMatches
  <2> HIDE DEF t
  <2> QED BY <1>0, <2>1, <2>4, QuietStore
<1> QED BY <1>0, <1>1, <1>2, DecideCases

(* A handler moves to another point of its code, or ends, with the store    *)
(* as it is.                                                                *)
LEMMA MoveKeepsInv ==
    ASSUME ConsumeInv, TypeOK', NEW h \in Handlers, NEW pc, NEW o,
           Become(h, [handler[h] EXCEPT !.pc = pc, !.outcome = o]) \/
             (Goto(h, pc) /\ o = handler[h].outcome),
           UNCHANGED <<node, store, dispatch, sent>>,
           o \in {"accepted", "lost"} <=> handler[h].outcome \in {"accepted", "lost"},
           LET t == [handler[h] EXCEPT !.pc = pc, !.outcome = o] IN
             handler'[h] = t => HandlerShape(h)' /\ VerdictMatches(h)'
    PROVE  ConsumeInv'
<1> DEFINE t == [handler[h] EXCEPT !.pc = pc, !.outcome = o]
<1>0. handler[h] \in HandlerState /\ handler \in [Handlers -> HandlerState]
  BY HandlerParts DEF ConsumeInv, TypeOK
<1>1. t.outcome = o /\ t.req = handler[h].req
  BY <1>0 DEF HandlerState
<1>2. Become(h, t)
  <2>1. ASSUME o = handler[h].outcome
        PROVE  [handler[h] EXCEPT !.pc = pc] = t
    BY <1>0, <2>1 DEF HandlerState
  <2> QED BY <2>1 DEF Goto
<1>3. handler'[h] = t
  BY <1>0, <1>2 DEF Become
<1>4. HandlerShape(h)' /\ VerdictMatches(h)'
  BY <1>3
<1> HIDE DEF t
<1> QED BY <1>1, <1>2, <1>4, QuietStore

(* The statements of the consume, the emit and the failures.                *)
LEMMA ConsumeKeepsInv ==
    ASSUME ConsumeInv, TypeOK', NEW h \in Handlers,
           \/ UpdatePending(h) \/ SelectExisting(h) \/ InsertFallback(h)
           \/ SelectRaced(h) \/ Emit(h) \/ HandlerFails(h)
    PROVE  ConsumeInv'
<1> DEFINE s == handler[h]
<1>0. /\ s \in HandlerState /\ s.req \in Requests /\ HandlerShape(h) /\ VerdictMatches(h)
      /\ store[s.req] \in Record /\ s.fallback \in Record
      /\ RowShape(s.req) /\ DispatchShape(s.req)
      /\ store[s.req].status \in {"none", "pending", "consumed"}
  BY HandlerParts DEF ConsumeInv, Record
<1>1. UNCHANGED <<node, dispatch, sent>>
  BY DEF UpdatePending, SelectExisting, InsertFallback, SelectRaced, Emit, HandlerFails, dispatchVars
<1>2. ASSUME NEW pc \in PCs, Goto(h, pc), store' = store,
             [s EXCEPT !.pc = pc, !.outcome = s.outcome] = handler'[h] => HandlerShape(h)'
      PROVE  ConsumeInv'
  <2>1. handler'[h] = [s EXCEPT !.pc = pc, !.outcome = s.outcome] => VerdictMatches(h)'
    BY <1>0, <1>2 DEF VerdictMatches, HandlerState
  <2> QED BY <1>1, <1>2, <2>1, MoveKeepsInv
<1>3. ASSUME NEW o \in {"missing", "duplicate", "conflict"}, Finish(h, o), store' = store,
             s.pc \in {"select", "raced"},
             o = "duplicate" => store[s.req].status = "consumed" /\ store[s.req].key = s.key,
             o = "conflict" => store[s.req].status = "consumed" /\ store[s.req].key # s.key
      PROVE  ConsumeInv'
  <2>1. handler'[h] = [s EXCEPT !.pc = "done", !.outcome = o]
          => HandlerShape(h)' /\ VerdictMatches(h)'
    BY <1>0, <1>3 DEF VerdictMatches, HandlerShape, HandlerState
  <2>2. s.outcome = "none" /\ o \notin {"accepted", "lost"}
    BY <1>0, <1>3 DEF HandlerShape
  <2>3. Become(h, [s EXCEPT !.pc = "done", !.outcome = o])
    BY <1>3 DEF Finish
  <2>4. UNCHANGED <<node, store, dispatch, sent>>
    BY <1>1, <1>3
  <2> QED BY <2>1, <2>2, <2>3, <2>4, MoveKeepsInv
<1>4. ASSUME store[s.req].status # "none", store[s.req].status # "pending",
             Finish(h, RowVerdict(store[s.req], s.key)), store' = store,
             s.pc \in {"select", "raced"}
      PROVE  ConsumeInv'
  <2> DEFINE o == RowVerdict(store[s.req], s.key)
  <2>1. /\ o \in {"missing", "duplicate", "conflict"}
        /\ o = "duplicate" => store[s.req].status = "consumed" /\ store[s.req].key = s.key
        /\ o = "conflict" => store[s.req].status = "consumed" /\ store[s.req].key # s.key
    BY <1>0, <1>4 DEF RowVerdict
  <2>2. Finish(h, o)
    BY <1>4
  <2> HIDE DEF o
  <2> QED BY <1>3, <1>4, <2>1, <2>2
<1>5. CASE UpdatePending(h)
  <2>1. CASE UpdateMatches(store[s.req])
    <3>1. /\ s.outcome = "none" /\ s.key \in Keys /\ store[s.req].status # "consumed"
          /\ store[s.req].session
      BY <1>0, <1>5, <2>1 DEF HandlerShape, RowShape, UpdatePending, UpdateMatches
    <3>2. /\ Accept(h, store[s.req])
          /\ store' = [store EXCEPT ![s.req] = Consumed(store[s.req], s.key, clock)]
      BY <1>5, <2>1 DEF UpdatePending
    <3> QED BY <1>0, <1>1, <3>1, <3>2, WinningStep
  <2>2. CASE ~UpdateMatches(store[s.req])
    <3>1. Goto(h, "select") /\ store' = store /\ s.pc = "update"
      BY <1>5, <2>2 DEF UpdatePending
    <3>2. [s EXCEPT !.pc = "select", !.outcome = s.outcome] = handler'[h] => HandlerShape(h)'
      BY <1>0, <1>1, <2>2, <3>1 DEF HandlerShape, HandlerState, UpdateMatches
    <3> QED BY <1>2, <3>1, <3>2 DEF PCs
  <2> QED BY <2>1, <2>2
<1>6. CASE SelectExisting(h)
  <2>0. s.pc = "select" /\ store' = store /\ store[s.req].status # "pending"
    BY <1>0, <1>6 DEF SelectExisting, HandlerShape
  <2>1. CASE store[s.req].status # "none"
    BY <1>4, <1>6, <2>0, <2>1 DEF SelectExisting
  <2>2. CASE store[s.req].status = "none" /\ Finish(h, "missing")
    BY <1>3, <2>0, <2>2
  <2>3. CASE store[s.req].status = "none" /\ Goto(h, "insert")
    <3>1. [s EXCEPT !.pc = "insert", !.outcome = s.outcome] = handler'[h] => HandlerShape(h)'
      BY <1>0, <1>1, <2>0, <2>3 DEF HandlerShape, HandlerState
    <3> QED BY <1>2, <2>0, <2>3, <3>1 DEF PCs
  <2> QED BY <1>6, <2>1, <2>2, <2>3 DEF SelectExisting
<1>7. CASE InsertFallback(h)
  <2>1. CASE InsertMatches(store[s.req])
    <3>1. /\ s.outcome = "none" /\ s.key \in Keys /\ store[s.req].status # "consumed"
          /\ s.req \in node.lost
      BY <1>0, <1>7, <2>1 DEF HandlerShape, InsertFallback, InsertMatches
    <3>2. /\ Accept(h, s.fallback)
          /\ store' = [store EXCEPT ![s.req] = Consumed(s.fallback, s.key, clock)]
      BY <1>7, <2>1 DEF InsertFallback
    <3> QED BY <1>0, <1>1, <3>1, <3>2, WinningStep
  <2>2. CASE ~InsertMatches(store[s.req])
    <3>1. Goto(h, "raced") /\ store' = store /\ s.pc = "insert"
      BY <1>7, <2>2 DEF InsertFallback
    <3>2. [s EXCEPT !.pc = "raced", !.outcome = s.outcome] = handler'[h] => HandlerShape(h)'
      BY <1>0, <1>1, <2>2, <3>1 DEF HandlerShape, HandlerState, InsertMatches
    <3> QED BY <1>2, <3>1, <3>2 DEF PCs
  <2> QED BY <2>1, <2>2
<1>8. CASE SelectRaced(h)
  <2>1. /\ s.pc = "raced" /\ store' = store
        /\ store[s.req].status # "pending" /\ store[s.req].status # "none"
    BY <1>0, <1>8 DEF SelectRaced, HandlerShape, DispatchShape
  <2> QED BY <1>4, <1>8, <2>1 DEF SelectRaced
<1>9. CASE Emit(h)
  <2>1. Goto(h, "emitted") /\ store' = store /\ s.pc = "accepted"
    BY <1>9 DEF Emit
  <2>2. [s EXCEPT !.pc = "emitted", !.outcome = s.outcome] = handler'[h] => HandlerShape(h)'
    BY <1>0, <1>1, <2>1 DEF HandlerShape, HandlerState
  <2> QED BY <1>2, <2>1, <2>2 DEF PCs
<1>10. CASE HandlerFails(h)
  <2> DEFINE o == IF s.pc = "accepted" THEN "lost" ELSE s.outcome
  <2>1. Become(h, [s EXCEPT !.pc = "failed", !.outcome = o]) /\ store' = store
    BY <1>10 DEF HandlerFails
  <2>2. /\ o \in {"accepted", "lost"} <=> s.outcome \in {"accepted", "lost"}
        /\ o = s.outcome \/ (o = "lost" /\ s.outcome = "accepted")
    BY <1>0 DEF HandlerShape
  <2> HIDE DEF o
  <2>3. [s EXCEPT !.pc = "failed", !.outcome = o] = handler'[h] => HandlerShape(h)' /\ VerdictMatches(h)'
    BY <1>0, <1>1, <2>1, <2>2 DEF HandlerShape, VerdictMatches, HandlerState
  <2> QED BY <1>1, <2>1, <2>2, <2>3, MoveKeepsInv
<1> QED BY <1>5, <1>6, <1>7, <1>8, <1>9, <1>10

LEMMA ConsumeInvNext == ConsumeInv /\ [Next]_vars => ConsumeInv'
<1> SUFFICES ASSUME ConsumeInv, [Next]_vars PROVE ConsumeInv'
  OBVIOUS
<1>1. TypeOK'
  BY TypeOKNext DEF ConsumeInv
<1>2. CASE Tick \/ UNCHANGED vars
  <2>1. UNCHANGED <<node, store, dispatch, sent, handler>>
    BY <1>2 DEF Tick, vars, dispatchVars
  <2>2. RowsGrow
    BY <2>1, LostKnown DEF RowsGrow, ConsumeInv, DispatchShape
  <2>3. \A r \in Requests : RowShape(r)' /\ DispatchShape(r)'
    BY <2>1 DEF ConsumeInv, RowShape, DispatchShape
  <2> QED BY <1>1, <2>1, <2>2, <2>3, QuietHandlers
<1>3. ASSUME NEW r \in Requests, DispatchStep(r) PROVE ConsumeInv'
  BY <1>1, <1>3, DispatchKeepsInv
<1>4. ASSUME NEW h \in Handlers, NEW d \in Deliveries, Receive(h, d) PROVE ConsumeInv'
  BY <1>1, <1>4, ReceiveKeepsInv
<1>5. ASSUME NEW h \in Handlers, HandlerStep(h) \/ HandlerFails(h) PROVE ConsumeInv'
  <2>0. /\ handler[h].in.target \in Requests /\ handler[h] \in HandlerState /\ HandlerShape(h)
        /\ node.backend = "postgres"
    BY HandlerParts DEF ConsumeInv
  <2>1. CASE GetPending(h)
    <3>1. store' = store /\ Decide(h, handler[h].in.target, store[handler[h].in.target])
      BY <2>0, <2>1 DEF GetPending
    <3> QED BY <1>1, <2>0, <2>1, <3>1, LookupKeepsInv DEF GetPending, dispatchVars
  <2>2. CASE GetByProviderMessageId(h)
    <3>1. UNCHANGED <<node, store, dispatch, sent>> /\ handler[h].pc = "byMessage"
      BY <2>2 DEF GetByProviderMessageId, dispatchVars
    <3>2. CASE Decide(h, handler[h].in.target, store[handler[h].in.target])
      BY <1>1, <2>0, <3>1, <3>2, LookupKeepsInv
    <3>3. CASE Goto(h, "byRecipient")
      <4>1. handler'[h] = [handler[h] EXCEPT !.pc = "byRecipient", !.outcome = handler[h].outcome]
              => HandlerShape(h)' /\ VerdictMatches(h)'
        BY <2>0, <3>1 DEF HandlerShape, VerdictMatches, HandlerState
      <4> QED BY <1>1, <3>1, <3>3, <4>1, MoveKeepsInv
    <3> QED BY <2>2, <3>2, <3>3 DEF GetByProviderMessageId
  <2>3. CASE GetLatestByRecipient(h)
    <3>1. UNCHANGED <<node, store, dispatch, sent>> /\ handler[h].pc = "byRecipient"
      BY <2>3 DEF GetLatestByRecipient, dispatchVars
    <3>2. ASSUME NEW r \in Requests, Decide(h, r, store[r]) PROVE ConsumeInv'
      BY <1>1, <3>1, <3>2, LookupKeepsInv
    <3>3. CASE Finish(h, "refused")
      <4>1. handler'[h] = [handler[h] EXCEPT !.pc = "done", !.outcome = "refused"]
              => HandlerShape(h)' /\ VerdictMatches(h)'
        BY <2>0, <3>1 DEF HandlerShape, VerdictMatches, HandlerState
      <4>2. "refused" \in {"accepted", "lost"} <=> handler[h].outcome \in {"accepted", "lost"}
        BY <2>0, <3>1 DEF HandlerShape
      <4>3. Become(h, [handler[h] EXCEPT !.pc = "done", !.outcome = "refused"])
        BY <3>3 DEF Finish
      <4> QED BY <1>1, <3>1, <4>1, <4>2, <4>3, MoveKeepsInv
    <3> QED BY <2>3, <3>2, <3>3 DEF GetLatestByRecipient, LatestByRecipient, PendingOf
  <2>4. CASE ConsumeStatic(h)
    BY <2>0, <2>4 DEF ConsumeStatic, HandlerShape
  <2> QED BY <1>1, <1>5, <2>1, <2>2, <2>3, <2>4, ConsumeKeepsInv DEF HandlerStep
<1> QED BY <1>2, <1>3, <1>4, <1>5 DEF Next

(* With the Postgres store, however many handlers, retries and failures,    *)
(* at most one handler's decision is taken for a request, whether or not it *)
(* is then told.                                                            *)
THEOREM AcceptedOnce ==
    Spec /\ node.backend = "postgres" => []AtMostOneAccepted
<1>1. ConsumeInv /\ [Next]_vars => ConsumeInv'
  BY ConsumeInvNext
<1>2. ConsumeInv => AtMostOneAccepted
  BY DEF ConsumeInv
<1> QED BY <1>1, <1>2, ConsumeInvInit, PTL DEF Spec

(* With the Postgres store, what a handler tells its human is what the      *)
(* table holds, and stays so; so is a decision that its handler was not     *)
(* told of.                                                                 *)
THEOREM VerdictsTrue ==
    Spec /\ node.backend = "postgres" => []VerdictsMatchStore
<1>1. ConsumeInv /\ [Next]_vars => ConsumeInv'
  BY ConsumeInvNext
<1>2. ConsumeInv => VerdictsMatchStore
  BY DEF ConsumeInv, VerdictsMatchStore
<1> QED BY <1>1, <1>2, ConsumeInvInit, PTL DEF Spec

(* With the Postgres store, an accepted reply that cannot name its session  *)
(* is for a request the table never held as pending.                        *)
THEOREM ResumableUnlessOrphan ==
    Spec /\ node.backend = "postgres" => []UnresumableOnlyForOrphans
<1>1. ConsumeInv /\ [Next]_vars => ConsumeInv'
  BY ConsumeInvNext
<1>2. ConsumeInv => UnresumableOnlyForOrphans
  BY DEF ConsumeInv, HandlerShape, UnresumableOnlyForOrphans
<1> QED BY <1>1, <1>2, ConsumeInvInit, PTL DEF Spec

-----------------------------------------------------------------------------
(***************************************************************************)
(* For either store: what a handler knows before it consumes.              *)
(***************************************************************************)
Looking == {"byRequest", "byMessage", "byRecipient"}
Consuming == {"consume", "update", "select", "insert", "raced"}

ReplyOf(s) ==
    /\ s.pc \in {"idle"} \cup Looking \cup Consuming => s.outcome = "none"
    /\ s.pc \in {"idle"} \cup Looking => s.key = NoKey
    /\ s.pc \in Consuming => s.key \in Keys
    /\ s.pc \in Consuming /\ s.in.path = "trigger" => s.fallback.status = "none"
    /\ s.pc = "insert" => s.fallback.status # "none"
    /\ s.in.path = "trigger" /\ s.outcome = "accepted" => s.resumable

PendingNamed(rows) == \A r \in Requests : rows[r].status = "pending" => rows[r].session

ReplyInv == /\ TypeOK
            /\ PendingNamed(store)
            /\ \A h \in Handlers : ReplyOf(handler[h])

(* A lookup ends in a refusal, or in a consume: from a trigger without a    *)
(* fallback record.                                                         *)
LEMMA DecideReplies ==
    ASSUME TypeOK, NEW h \in Handlers, NEW r \in Requests, NEW rec \in Record, Decide(h, r, rec)
    PROVE  \/ Finish(h, "refused")
           \/ \E q \in Requests, k \in Keys, f \in Record :
                 /\ ProceedWith(h, q, k, f)
                 /\ handler[h].in.path = "trigger" => f.status = "none"
<1>1. CASE handler[h].in.path = "trigger"
  <2>1. DecideTrigger(h, r, rec)
    BY <1>1 DEF Decide, WhatsAppTriggerReply, WoztellTriggerReply
  <2>2. /\ handler[h].in.approval # NoKey => handler[h].in.approval \in Keys
        /\ handler[h].in.answer # NoKey => handler[h].in.answer \in Keys
    BY HandlerParts DEF Keys
  <2>3. NoRecord \in Record /\ NoRecord.status = "none"
    BY RecordTypes DEF NoRecord
  <2> DEFINE k == IF rec.kind = "approval" THEN handler[h].in.approval ELSE handler[h].in.answer
  <2>4. Finish(h, "refused") \/ (ProceedWith(h, r, k, NoRecord) /\ k \in Keys)
    BY <2>1, <2>2 DEF DecideTrigger
  <2> QED BY <2>3, <2>4
<1>2. CASE handler[h].in.path # "trigger"
  BY <1>2, DecideCases
<1> QED BY <1>1, <1>2

(* A record that is saved is pending and names its session, unless the      *)
(* decision is already there.                                               *)
LEMMA SavedRows ==
    ASSUME TypeOK, PendingNamed(store), NEW r \in Requests, NEW rec \in Record,
           rec.status = "pending", rec.session
    PROVE  LET rows == Saved(r, rec)
           IN  PendingNamed(rows)
<1> DEFINE rows == Saved(r, rec)
           clean == CleanupExpired(store, clock)
<1>0. store \in [Requests -> Record] /\ store[r].status \in {"none", "pending", "consumed"}
  BY DEF TypeOK, Record
<1>1. CASE node.backend = "postgres"
  <2>1. rows = [store EXCEPT ![r] = UpsertRow(store[r], rec)]
    BY <1>1 DEF Saved
  <2>2. /\ UpsertRow(store[r], rec).status = "consumed" => store[r].status = "consumed"
        /\ UpsertRow(store[r], rec).status = "pending" => UpsertRow(store[r], rec).session
    <3>1. CASE store[r].status = "pending"
      <4>1. UpsertRow(store[r], rec)
              = [rec EXCEPT !.createdAt = store[r].createdAt,
                            !.messageId = rec.messageId \/ store[r].messageId]
        BY <3>1 DEF UpsertRow
      <4> QED BY <4>1 DEF Record
    <3>2. CASE store[r].status = "none"
      BY <3>2 DEF UpsertRow
    <3>3. CASE store[r].status = "consumed"
      BY <3>3 DEF UpsertRow
    <3> QED BY <1>0, <3>1, <3>2, <3>3
  <2> HIDE DEF rows
  <2>3. rows[r] = UpsertRow(store[r], rec) /\ \A x \in Requests : x # r => rows[x] = store[x]
    BY <1>0, <2>1
  <2> QED BY <2>2, <2>3 DEF PendingNamed, rows
<1>2. CASE node.backend # "postgres"
  <2>1. rows = IF clean[r].status = "consumed" THEN clean ELSE [clean EXCEPT ![r] = rec]
    BY <1>2 DEF Saved, StaticSave
  <2>2. /\ clean \in [Requests -> Record]
        /\ \A x \in Requests : clean[x] = store[x] \/ clean[x].status = "none"
    <3>1. clean \in [Requests -> Record]
      BY <1>0, StaticTypes DEF TypeOK
    <3>2. NoRecord.status = "none"
      BY DEF NoRecord
    <3> QED BY <3>1, <3>2 DEF CleanupExpired
  <2> HIDE DEF rows, clean
  <2>3. \A x \in Requests : rows[x] = clean[x] \/ (x = r /\ rows[x] = rec)
    BY <2>1, <2>2
  <2> QED BY <2>2, <2>3 DEF PendingNamed, rows
<1> QED BY <1>1, <1>2

(* A handler becomes t.                                                     *)
LEMMA ReplyKept ==
    ASSUME ReplyInv, TypeOK', NEW h \in Handlers, NEW t, Become(h, t), ReplyOf(t),
           PendingNamed(store')
    PROVE  ReplyInv'
<1>1. /\ handler'[h] = t
      /\ \A g \in Handlers : g # h => handler'[g] = handler[g]
  BY DEF Become, ReplyInv, TypeOK
<1>2. \A g \in Handlers : ReplyOf(handler'[g])
  BY <1>1 DEF ReplyInv
<1> QED BY <1>2 DEF ReplyInv, PendingNamed, ReplyOf

LEMMA ReplyInit == Init => ReplyInv
<1> SUFFICES ASSUME Init PROVE ReplyInv
  OBVIOUS
<1>1. TypeOK
  BY TypeOKInit
<1>2. \A r \in Requests : store[r].status = "none"
  BY DEF Init, NoRecord
<1>3. \A h \in Handlers : ReplyOf(handler[h])
  BY DEF Init, ReplyOf, Consuming, Looking
<1> QED BY <1>1, <1>2, <1>3 DEF ReplyInv, PendingNamed

LEMMA ReplyNext == ReplyInv /\ [Next]_vars => ReplyInv'
<1> SUFFICES ASSUME ReplyInv, [Next]_vars PROVE ReplyInv'
  OBVIOUS
<1>0. TypeOK /\ TypeOK' /\ PendingNamed(store)
  BY TypeOKNext DEF ReplyInv
(* A step of execute() or of the clock.                                     *)
<1>q. ASSUME handler' = handler, PendingNamed(store') PROVE ReplyInv'
  BY <1>0, <1>q DEF ReplyInv, PendingNamed, ReplyOf
<1>1. CASE Tick \/ UNCHANGED vars
  BY <1>0, <1>1, <1>q DEF Tick, vars, dispatchVars
<1>2. ASSUME NEW r \in Requests, DispatchStep(r) PROVE ReplyInv'
  <2>1. ASSUME NEW n \in Nat, NEW b \in BOOLEAN,
               store' = Saved(r, RequestRecord(r, node.timeoutMs, n, b)), handler' = handler
        PROVE  ReplyInv'
    <3> DEFINE rec == RequestRecord(r, node.timeoutMs, n, b)
    <3>1. rec \in Record /\ rec.status = "pending" /\ rec.session
      BY <1>0, RecordTypes, LostKnown DEF RequestRecord, NoRecord
    <3> HIDE DEF rec
    <3>2. store' = Saved(r, rec)
      BY <2>1 DEF rec
    <3> QED BY <1>0, <1>q, <2>1, <3>1, <3>2, SavedRows
  <2>2. clock \in Nat /\ dispatch[r].createdAt \in Nat
    BY <1>0 DEF TypeOK
  <2>3. CASE SavePending(r) \/ SaveMessageId(r)
    BY <2>1, <2>2, <2>3 DEF SavePending, SaveMessageId
  <2>4. CASE SendMessage(r) \/ SaveFails(r) \/ RetryDispatch(r)
    <3>1. UNCHANGED <<store, handler>>
      BY <2>4 DEF SendMessage, SaveFails, RetryDispatch
    <3> QED BY <1>0, <1>q, <3>1
  <2> QED BY <1>2, <2>3, <2>4 DEF DispatchStep
<1>3. ASSUME NEW h \in Handlers, NEW d \in Deliveries, Receive(h, d) PROVE ReplyInv'
  <2> DEFINE s == handler[h]
             refused == [s EXCEPT !.in = d, !.req = d.target, !.pc = "done", !.outcome = "refused"]
             started == [s EXCEPT !.in = d, !.req = d.target, !.pc = FirstLookup(d)]
  <2>0. /\ s \in HandlerState /\ s.pc = "idle" /\ ReplyOf(s) /\ store' = store
    BY <1>0, <1>3, HandlerParts DEF Receive, ReplyInv, dispatchVars
  <2>1. ReplyOf(refused) /\ ReplyOf(started)
    BY <2>0 DEF ReplyOf, HandlerState, FirstLookup, Looking, Consuming
  <2>2. s.outcome = "none"
    BY <2>0 DEF ReplyOf
  <2>3. Become(h, refused) \/ Become(h, started)
    BY <1>3 DEF Receive
  <2> HIDE DEF refused, started
  <2> QED BY <1>0, <2>0, <2>1, <2>2, <2>3, ReplyKept
<1>4. ASSUME NEW h \in Handlers, HandlerStep(h) \/ HandlerFails(h) PROVE ReplyInv'
  <2> DEFINE s == handler[h]
  <2>0. /\ s \in HandlerState /\ s.req \in Requests /\ store[s.req] \in Record /\ ReplyOf(s)
        /\ s.fallback \in Record /\ s.in.target \in Requests /\ s.key \in Keys \cup {NoKey}
        /\ store \in [Requests -> Record]
    BY <1>0, HandlerParts DEF ReplyInv, TypeOK
  (* Rows that are kept or dropped.                                         *)
  <2>r. ASSUME \A x \in Requests : store'[x] = store[x] \/ store'[x].status = "none"
        PROVE  PendingNamed(store')
    BY <1>0, <2>r DEF PendingNamed
  <2>1. ASSUME NEW pc \in PCs, Goto(h, pc), store' = store,
               \/ pc \in {"emitted", "failed"}
               \/ pc = "byRecipient" /\ s.pc = "byMessage"
               \/ /\ pc \in Consuming /\ s.pc \in Consuming
                  /\ pc = "insert" => s.fallback.status # "none"
        PROVE  ReplyInv'
    <3> DEFINE t == [s EXCEPT !.pc = pc]
    <3>1. ReplyOf(t)
      BY <2>0, <2>1 DEF ReplyOf, HandlerState, Looking, Consuming
    <3>2. Become(h, t)
      BY <2>1 DEF Goto
    <3> HIDE DEF t
    <3> QED BY <1>0, <2>1, <3>1, <3>2, ReplyKept
  <2>2. ASSUME NEW o \in Outcomes \ {"accepted"}, Finish(h, o), s.outcome = "none",
               \A x \in Requests : store'[x] = store[x] \/ store'[x].status = "none"
        PROVE  ReplyInv'
    <3> DEFINE t == [s EXCEPT !.pc = "done", !.outcome = o]
    <3>1. ReplyOf(t)
      BY <2>0, <2>2 DEF ReplyOf, HandlerState, Looking, Consuming
    <3>2. Become(h, t)
      BY <2>2 DEF Finish
    <3> HIDE DEF t
    <3> QED BY <1>0, <2>2, <2>r, <3>1, <3>2, ReplyKept
  <2>3. ASSUME NEW rec \in Record, Accept(h, rec), s.outcome = "none",
               s.in.path # "trigger" \/ rec.session = TRUE,
               \A x \in Requests \ {s.req} : store'[x] = store[x] \/ store'[x].status = "none",
               store'[s.req].status = "consumed"
        PROVE  ReplyInv'
    <3> DEFINE t == [s EXCEPT !.pc = "accepted", !.outcome = "accepted", !.resumable = rec.session]
    <3>1. ReplyOf(t)
      BY <2>0, <2>3 DEF ReplyOf, HandlerState, Looking, Consuming, Record
    <3>2. Become(h, t)
      BY <2>3 DEF Accept
    <3>3. PendingNamed(store')
      BY <1>0, <2>3 DEF PendingNamed
    <3> HIDE DEF t
    <3> QED BY <1>0, <2>3, <3>1, <3>2, <3>3, ReplyKept
  <2>4. ASSUME NEW r \in Requests, NEW rec \in Record, Decide(h, r, rec), s.pc \in Looking,
               \A x \in Requests : store'[x] = store[x] \/ store'[x].status = "none"
        PROVE  ReplyInv'
    <3>0. s.outcome = "none"
      BY <2>0, <2>4 DEF ReplyOf
    <3>1. CASE Finish(h, "refused")
      BY <2>2, <2>4, <3>0, <3>1 DEF Outcomes
    <3>2. ASSUME NEW q \in Requests, NEW k \in Keys, NEW f \in Record, ProceedWith(h, q, k, f),
                 s.in.path = "trigger" => f.status = "none"
          PROVE  ReplyInv'
      <4> DEFINE t == [s EXCEPT !.pc = ConsumePc, !.req = q, !.key = k, !.fallback = f]
      <4>1. ReplyOf(t)
        BY <2>0, <3>0, <3>2 DEF ReplyOf, HandlerState, Looking, Consuming, ConsumePc
      <4>2. Become(h, t)
        BY <3>2 DEF ProceedWith
      <4> HIDE DEF t
      <4> QED BY <1>0, <2>4, <2>r, <3>0, <4>1, <4>2, ReplyKept
    <3> QED BY <1>0, <2>4, <3>1, <3>2, DecideReplies
  <2>c. \A x \in Requests : /\ CleanupExpired(store, clock)[x] \in Record
                            /\ \/ CleanupExpired(store, clock)[x] = store[x]
                               \/ CleanupExpired(store, clock)[x].status = "none"
    <3>1. CleanupExpired(store, clock) \in [Requests -> Record]
      BY <1>0, <2>0, StaticTypes DEF TypeOK
    <3>2. NoRecord.status = "none"
      BY DEF NoRecord
    <3> QED BY <3>1, <3>2 DEF CleanupExpired
  <2>5. CASE GetPending(h)
    <3>1. /\ Decide(h, s.in.target, store'[s.in.target]) /\ s.pc \in Looking
          /\ store' \in {store, CleanupExpired(store, clock)}
      BY <2>5 DEF GetPending, Looking
    <3>2. store'[s.in.target] \in Record
      BY <2>0, <2>c, <3>1
    <3> QED BY <2>0, <2>4, <2>c, <3>1, <3>2
  <2>6. CASE GetByProviderMessageId(h)
    <3>1. /\ store' = store /\ s.pc = "byMessage" /\ s.pc \in Looking
          /\ Decide(h, s.in.target, store[s.in.target]) \/ Goto(h, "byRecipient")
      BY <2>6 DEF GetByProviderMessageId, Looking
    <3> QED BY <2>0, <2>1, <2>4, <3>1 DEF PCs
  <2>7. CASE GetLatestByRecipient(h)
    <3>1. /\ store' = store /\ s.pc \in Looking
          /\ Finish(h, "refused") \/ \E r \in Requests : Decide(h, r, store[r])
      BY <2>7 DEF GetLatestByRecipient, LatestByRecipient, PendingOf, Looking
    <3>2. s.outcome = "none"
      BY <2>0, <3>1 DEF ReplyOf
    <3> QED BY <2>0, <2>2, <2>4, <3>1, <3>2 DEF Outcomes
  <2>8. CASE ConsumeStatic(h)
    <3> DEFINE verdict == StaticVerdict(store, s.req, s.key, s.fallback, clock)
               after == StaticConsume(store, s.req, s.key, s.fallback, clock)
               clean == CleanupExpired(store, clock)
    <3>0. s.pc \in Consuming /\ s.outcome = "none" /\ s.key \in Keys
      BY <2>0, <2>8 DEF ConsumeStatic, ReplyOf, Consuming
    <3>1. /\ store' = after
          /\ verdict = "accepted" => Accept(h, after[s.req])
          /\ verdict # "accepted" => Finish(h, verdict)
      BY <2>8 DEF ConsumeStatic
    <3>2. clean \in [Requests -> Record] /\ clean[s.req].status \in {"none", "pending", "consumed"}
      BY <1>0, <2>0, <2>c, StaticTypes DEF TypeOK, Record
    <3>3. CASE clean[s.req].status = "pending"
      <4>1. /\ after = [clean EXCEPT ![s.req] = Consumed(clean[s.req], s.key, clock)] /\ verdict = "accepted"
        BY <3>3 DEF StaticConsume, StaticVerdict
      <4>2. clean[s.req].session = TRUE
        BY <1>0, <2>0, <2>c, <3>2, <3>3 DEF PendingNamed, Record
      <4> HIDE DEF clean, after, verdict
      <4>3. /\ Consumed(clean[s.req], s.key, clock).status = "consumed"
            /\ Consumed(clean[s.req], s.key, clock).session = TRUE
        BY <2>0, <3>2, <4>2 DEF Consumed, Record
      <4>r. Consumed(clean[s.req], s.key, clock) \in Record
        BY <1>0, <2>0, <3>2, RecordTypes DEF TypeOK
      <4>4. /\ after[s.req].status = "consumed" /\ after[s.req].session = TRUE
            /\ after[s.req] \in Record
            /\ \A x \in Requests \ {s.req} : after[x] = clean[x]
        BY <2>0, <3>2, <4>1, <4>3, <4>r
      <4>5. \A x \in Requests \ {s.req} : after[x] = store[x] \/ after[x].status = "none"
        BY <2>c, <4>4 DEF clean
      <4> QED BY <2>3, <3>0, <3>1, <4>1, <4>4, <4>5
    <3>4. CASE clean[s.req].status = "none" /\ s.fallback.status # "none"
      <4>1. /\ after = [clean EXCEPT ![s.req] = Consumed(s.fallback, s.key, clock)] /\ verdict = "accepted"
        BY <3>4 DEF StaticConsume, StaticVerdict
      <4>2. s.in.path # "trigger"
        BY <2>0, <3>0, <3>4 DEF ReplyOf
      <4> HIDE DEF clean, after, verdict
      <4>3. /\ Consumed(s.fallback, s.key, clock).status = "consumed"
            /\ Consumed(s.fallback, s.key, clock) \in Record
        BY <1>0, <2>0, RecordTypes DEF Consumed, Record, TypeOK
      <4>4. /\ after[s.req].status = "consumed" /\ after[s.req] \in Record
            /\ \A x \in Requests \ {s.req} : after[x] = clean[x]
        BY <2>0, <3>2, <4>1, <4>3
      <4>5. \A x \in Requests \ {s.req} : after[x] = store[x] \/ after[x].status = "none"
        BY <2>c, <4>4 DEF clean
      <4> QED BY <2>3, <3>0, <3>1, <4>1, <4>2, <4>4, <4>5
    <3>5. CASE clean[s.req].status = "consumed" \/ (clean[s.req].status = "none" /\ s.fallback.status = "none")
      <4>1. after = clean /\ verdict \in Outcomes \ {"accepted"}
        BY <3>5 DEF StaticConsume, StaticVerdict, Outcomes
      <4> HIDE DEF after, verdict
      <4> QED BY <2>2, <2>c, <3>0, <3>1, <4>1
    <3> QED BY <3>2, <3>3, <3>4, <3>5
  <2>9. CASE UpdatePending(h)
    <3>0. s.pc \in Consuming /\ s.outcome = "none" /\ s.key \in Keys
      BY <2>0, <2>9 DEF UpdatePending, ReplyOf, Consuming
    <3>1. CASE UpdateMatches(store[s.req])
      <4>1. /\ store' = [store EXCEPT ![s.req] = Consumed(store[s.req], s.key, clock)]
            /\ Accept(h, store[s.req]) /\ store[s.req].session = TRUE
        BY <1>0, <2>0, <2>9, <3>1 DEF UpdatePending, UpdateMatches, PendingNamed, Record
      <4>2. store'[s.req].status = "consumed" /\ \A x \in Requests \ {s.req} : store'[x] = store[x]
        BY <2>0, <4>1 DEF Consumed, Record
      <4> QED BY <2>0, <2>3, <3>0, <4>1, <4>2
    <3>2. CASE ~UpdateMatches(store[s.req])
      BY <2>1, <2>9, <3>0, <3>2 DEF UpdatePending, PCs, Consuming
    <3> QED BY <3>1, <3>2
  <2>10. CASE SelectExisting(h) \/ SelectRaced(h)
    <3>0. s.pc \in Consuming /\ s.outcome = "none" /\ store' = store
      BY <2>0, <2>10 DEF SelectExisting, SelectRaced, ReplyOf, Consuming
    <3>1. RowVerdict(store[s.req], s.key) \in Outcomes \ {"accepted"} /\ "missing" \in Outcomes \ {"accepted"}
      BY DEF RowVerdict, Outcomes
    <3>2. \/ Goto(h, "insert") /\ s.fallback.status # "none"
          \/ \E o \in Outcomes \ {"accepted"} : Finish(h, o)
      BY <2>10, <3>1 DEF SelectExisting, SelectRaced
    <3> QED BY <2>1, <2>2, <3>0, <3>2 DEF PCs, Consuming
  <2>11. CASE InsertFallback(h)
    <3>0. s.pc \in Consuming /\ s.outcome = "none" /\ s.key \in Keys
      BY <2>0, <2>11 DEF InsertFallback, ReplyOf, Consuming
    <3>1. CASE InsertMatches(store[s.req])
      <4>1. /\ store' = [store EXCEPT ![s.req] = Consumed(s.fallback, s.key, clock)]
            /\ Accept(h, s.fallback) /\ s.fallback.session \in BOOLEAN
        BY <2>0, <2>11, <3>1 DEF InsertFallback, Record
      <4>2. store'[s.req].status = "consumed" /\ \A x \in Requests \ {s.req} : store'[x] = store[x]
        BY <2>0, <4>1 DEF Consumed, Record
      <4>3. s.in.path # "trigger"
        BY <2>0, <2>11 DEF InsertFallback, ReplyOf, Consuming
      <4> QED BY <2>0, <2>3, <3>0, <4>1, <4>2, <4>3
    <3>2. CASE ~InsertMatches(store[s.req])
      BY <2>1, <2>11, <3>0, <3>2 DEF InsertFallback, PCs, Consuming
    <3> QED BY <3>1, <3>2
  <2>12. CASE Emit(h)
    BY <2>1, <2>12 DEF Emit, PCs
  <2>13. CASE HandlerFails(h)
    <3> DEFINE t == [s EXCEPT !.pc = "failed",
                              !.outcome = IF s.pc = "accepted" THEN "lost" ELSE s.outcome]
    <3>1. Become(h, t) /\ store' = store
      BY <2>13 DEF HandlerFails
    <3>2. ReplyOf(t)
      BY <2>0 DEF ReplyOf, HandlerState, Looking, Consuming
    <3> HIDE DEF t
    <3> QED BY <1>0, <3>1, <3>2, ReplyKept
  <2> QED BY <1>4, <2>5, <2>6, <2>7, <2>8, <2>9, <2>10, <2>11, <2>12, <2>13
         DEF HandlerStep
<1> QED BY <1>1, <1>2, <1>3, <1>4 DEF Next

(* A trigger's answer names the session to resume, with either store: what  *)
(* it consumes is a record execute() saved, since it brings none itself.    *)
THEOREM TriggersResume == Spec => []TriggerRepliesResume
<1>1. ReplyInv => TriggerRepliesResume
  BY DEF ReplyInv, ReplyOf, TriggerRepliesResume
<1> QED BY <1>1, ReplyInit, ReplyNext, PTL DEF Spec

-----------------------------------------------------------------------------
(***************************************************************************)
(* The Postgres store as a write-once register.                            *)
(***************************************************************************)
Answering == {"update", "select", "insert", "raced"}

(* What both invariants say of a handler and its row.                       *)
LEMMA PostgresHandler ==
    ASSUME ConsumeInv, ReplyInv, NEW h \in Handlers
    PROVE  LET s == handler[h] IN
           /\ s \in HandlerState /\ s.req \in Requests /\ store[s.req] \in Record
           /\ handler \in [Handlers -> HandlerState] /\ store \in [Requests -> Record]
           /\ s.pc \in {"idle"} \cup Looking => s.key = NoKey /\ s.outcome = "none"
           /\ s.pc \in Answering => s.key \in Keys /\ s.outcome = "none"
           /\ store[s.req].status \in {"none", "pending", "consumed"}
           /\ store[s.req].status = "consumed" <=> store[s.req].key # NoKey
           /\ s.pc = "select" => store[s.req].status # "pending"
           /\ s.pc = "raced" => store[s.req].status = "consumed"
           /\ s.pc = "accepted" => s.outcome = "accepted"
           /\ s.pc # "consume" /\ node.backend = "postgres"
<1>1. /\ handler[h] \in HandlerState /\ handler[h].req \in Requests
      /\ store[handler[h].req] \in Record
      /\ handler \in [Handlers -> HandlerState] /\ store \in [Requests -> Record]
  BY HandlerParts DEF ConsumeInv, TypeOK
<1>2. ReplyOf(handler[h]) /\ HandlerShape(h) /\ RowShape(handler[h].req)
      /\ DispatchShape(handler[h].req) /\ node.backend = "postgres"
  BY <1>1 DEF ConsumeInv, ReplyInv
<1>3. store[handler[h].req].status \in {"none", "pending", "consumed"}
  BY <1>1 DEF Record
<1>4. handler[h].pc = "raced" => store[handler[h].req].status = "consumed"
  BY <1>2, <1>3 DEF HandlerShape, DispatchShape
<1> QED BY <1>1, <1>2, <1>3, <1>4 DEF ReplyOf, HandlerShape, RowShape, Answering, Looking, Consuming

(* What the register's three variables are, of one row and one handler.     *)
AskedOf(s) == IF s.key = NoKey THEN <<>> ELSE <<s.req, s.key>>
VerdictOf(s) == IF s.outcome = "missing" THEN "refused" ELSE s.outcome

OnceVars == <<[r \in Requests |-> store[r].key],
              [h \in Handlers |-> IF handler[h].key = NoKey THEN <<>>
                                                            ELSE <<handler[h].req, handler[h].key>>],
              [h \in Handlers |-> IF handler[h].outcome = "missing" THEN "refused"
                                                                    ELSE handler[h].outcome]>>

(* The step writes no decision.                                             *)
KeysStay == [x \in Requests |-> store'[x].key] = [x \in Requests |-> store[x].key]

LEMMA RegisterMoves ==
    ASSUME TypeOK, NEW h \in Handlers, NEW t, Become(h, t)
    PROVE  handler'[h] = t /\ \A g \in Handlers : g # h => handler'[g] = handler[g]
<1>1. handler \in [Handlers -> HandlerState]
  BY DEF TypeOK
<1> QED BY <1>1 DEF Become

(* The steps of the register, in terms of the handler that takes them.      *)
LEMMA AskStep ==
    ASSUME TypeOK, NEW h \in Handlers, NEW q \in Requests, NEW k \in Keys, NEW t,
           Become(h, t), KeysStay, handler[h].key = NoKey,
           AskedOf(t) = <<q, k>>, VerdictOf(t) = VerdictOf(handler[h])
    PROVE  Once!Ask(h, q, k)
<1>1. [g \in Handlers |-> AskedOf(handler[g])][h] = <<>>
  BY DEF AskedOf
<1>2. [g \in Handlers |-> AskedOf(handler'[g])]
        = [[g \in Handlers |-> AskedOf(handler[g])] EXCEPT ![h] = <<q, k>>]
  BY RegisterMoves
<1>3. [g \in Handlers |-> VerdictOf(handler'[g])] = [g \in Handlers |-> VerdictOf(handler[g])]
  BY RegisterMoves
<1> QED BY <1>1, <1>2, <1>3 DEF Once!Ask, KeysStay, AskedOf, VerdictOf

LEMMA RefuseStep ==
    ASSUME TypeOK, NEW h \in Handlers, NEW t,
           Become(h, t), KeysStay, handler[h].outcome = "none",
           AskedOf(t) = AskedOf(handler[h]), t.outcome \in {"refused", "missing"}
    PROVE  Once!Refuse(h)
<1>1. [g \in Handlers |-> VerdictOf(handler[g])][h] = "none"
  BY DEF VerdictOf
<1>2. [g \in Handlers |-> AskedOf(handler'[g])] = [g \in Handlers |-> AskedOf(handler[g])]
  BY RegisterMoves
<1>3. [g \in Handlers |-> VerdictOf(handler'[g])]
        = [[g \in Handlers |-> VerdictOf(handler[g])] EXCEPT ![h] = "refused"]
  BY RegisterMoves DEF VerdictOf
<1> QED BY <1>1, <1>2, <1>3 DEF Once!Refuse, KeysStay, AskedOf, VerdictOf

LEMMA AnswerStep ==
    ASSUME TypeOK, NEW h \in Handlers, NEW t, Become(h, t),
           handler[h].outcome = "none", handler[h].key \in Keys,
           AskedOf(t) = AskedOf(handler[h]),
           LET r == handler[h].req
               k == handler[h].key
           IN  \/ /\ store[r].key = NoKey /\ t.outcome = "accepted"
                  /\ [x \in Requests |-> store'[x].key]
                       = [[x \in Requests |-> store[x].key] EXCEPT ![r] = k]
               \/ /\ store[r].key # NoKey /\ KeysStay
                  /\ t.outcome = IF store[r].key = k THEN "duplicate" ELSE "conflict"
    PROVE  Once!Answer(h)
<1> DEFINE r == handler[h].req
           k == handler[h].key
           asked == [g \in Handlers |-> AskedOf(handler[g])]
           verdict == [g \in Handlers |-> VerdictOf(handler[g])]
           decision == [x \in Requests |-> store[x].key]
<1>0. r \in Requests /\ k # NoKey
  BY HandlerParts DEF Keys, Approvals, NoKey
<1>1. asked[h] = <<r, k>> /\ verdict[h] = "none"
  BY <1>0 DEF AskedOf, VerdictOf
<1>2. asked[h] # <<>> /\ asked[h][1] = r /\ asked[h][2] = k
  BY <1>1
<1>3. [g \in Handlers |-> AskedOf(handler'[g])] = asked
  BY RegisterMoves
<1>4. [g \in Handlers |-> VerdictOf(handler'[g])] = [verdict EXCEPT ![h] = VerdictOf(t)]
  <2>1. ASSUME NEW g \in Handlers PROVE VerdictOf(handler'[g]) = [verdict EXCEPT ![h] = VerdictOf(t)][g]
    <3>1. CASE g = h
      BY <3>1, RegisterMoves
    <3>2. CASE g # h
      BY <3>2, RegisterMoves
    <3> QED BY <3>1, <3>2
  <2> QED BY <2>1
<1>5. decision[r] = store[r].key
  BY <1>0
<1>6. CASE /\ store[r].key = NoKey /\ t.outcome = "accepted"
           /\ [x \in Requests |-> store'[x].key] = [decision EXCEPT ![r] = k]
  <2>1. VerdictOf(t) = "accepted"
    BY <1>6 DEF VerdictOf
  <2> QED BY <1>1, <1>2, <1>3, <1>4, <1>5, <1>6, <2>1 DEF Once!Answer, AskedOf, VerdictOf
<1>7. CASE /\ store[r].key # NoKey /\ KeysStay
           /\ t.outcome = IF store[r].key = k THEN "duplicate" ELSE "conflict"
  <2>1. VerdictOf(t) = IF decision[r] = k THEN "duplicate" ELSE "conflict"
    BY <1>5, <1>7 DEF VerdictOf
  <2> QED BY <1>1, <1>2, <1>3, <1>4, <1>5, <1>7, <2>1 DEF Once!Answer, KeysStay, AskedOf, VerdictOf
<1> QED BY <1>6, <1>7

LEMMA LoseStep ==
    ASSUME TypeOK, NEW h \in Handlers, NEW t, Become(h, t), KeysStay,
           handler[h].outcome = "accepted", AskedOf(t) = AskedOf(handler[h]), t.outcome = "lost"
    PROVE  Once!Lose(h)
<1>1. [g \in Handlers |-> VerdictOf(handler[g])][h] = "accepted"
  BY DEF VerdictOf
<1>2. [g \in Handlers |-> AskedOf(handler'[g])] = [g \in Handlers |-> AskedOf(handler[g])]
  BY RegisterMoves
<1>3. [g \in Handlers |-> VerdictOf(handler'[g])]
        = [[g \in Handlers |-> VerdictOf(handler[g])] EXCEPT ![h] = "lost"]
  BY RegisterMoves DEF VerdictOf
<1> QED BY <1>1, <1>2, <1>3 DEF Once!Lose, KeysStay, AskedOf, VerdictOf

(* A step the register does not see.                                        *)
LEMMA SilentStep ==
    ASSUME TypeOK, NEW h \in Handlers, NEW t, Become(h, t), KeysStay,
           AskedOf(t) = AskedOf(handler[h]), VerdictOf(t) = VerdictOf(handler[h])
    PROVE  UNCHANGED OnceVars
<1>1. [g \in Handlers |-> AskedOf(handler'[g])] = [g \in Handlers |-> AskedOf(handler[g])]
  BY RegisterMoves
<1>2. [g \in Handlers |-> VerdictOf(handler'[g])] = [g \in Handlers |-> VerdictOf(handler[g])]
  BY RegisterMoves
<1> QED BY <1>1, <1>2 DEF OnceVars, KeysStay, AskedOf, VerdictOf

(* execute() writes no decision and changes none.                           *)
LEMMA SavesKeepKeys ==
    ASSUME ConsumeInv, NEW r \in Requests, DispatchStep(r)
    PROVE  handler' = handler /\ KeysStay
<1>0. /\ store \in [Requests -> Record] /\ store[r] \in Record /\ node.backend = "postgres"
      /\ store[r].status \in {"none", "pending", "consumed"} /\ RowShape(r) /\ TypeOK
  BY DEF ConsumeInv, TypeOK, Record
<1>1. ASSUME NEW n \in Nat, NEW b \in BOOLEAN, handler' = handler,
             store' = Saved(r, RequestRecord(r, node.timeoutMs, n, b))
      PROVE  \A x \in Requests : store'[x].key = store[x].key
  <2> DEFINE rec == RequestRecord(r, node.timeoutMs, n, b)
  <2>1. rec.key = NoKey
    BY DEF RequestRecord, NoRecord
  <2>2. store' = [store EXCEPT ![r] = UpsertRow(store[r], rec)]
    BY <1>0, <1>1 DEF Saved
  <2>3. UpsertRow(store[r], rec).key = store[r].key
    <3>1. rec \in Record
      BY <1>0, RecordTypes, LostKnown
    <3>2. store[r].status # "consumed" => store[r].key = NoKey
      BY <1>0 DEF RowShape
    <3>3. CASE store[r].status = "pending"
      <4>1. UpsertRow(store[r], rec)
              = [rec EXCEPT !.createdAt = store[r].createdAt,
                            !.messageId = rec.messageId \/ store[r].messageId]
        BY <3>3 DEF UpsertRow
      <4> HIDE DEF rec
      <4> QED BY <2>1, <3>1, <3>2, <3>3, <4>1 DEF Record
    <3>4. CASE store[r].status = "none"
      BY <2>1, <3>2, <3>4 DEF UpsertRow
    <3>5. CASE store[r].status = "consumed"
      BY <3>5 DEF UpsertRow
    <3> QED BY <1>0, <3>3, <3>4, <3>5
  <2> HIDE DEF rec
  <2> QED BY <1>0, <2>2, <2>3
<1>2. CASE SavePending(r) \/ SaveMessageId(r)
  <2>1. clock \in Nat /\ dispatch[r].createdAt \in Nat
    BY <1>0 DEF TypeOK
  <2>2. \A x \in Requests : store'[x].key = store[x].key
    BY <1>1, <1>2, <2>1 DEF SavePending, SaveMessageId
  <2> QED BY <1>2, <2>2 DEF SavePending, SaveMessageId, KeysStay
<1>3. CASE SendMessage(r) \/ SaveFails(r) \/ RetryDispatch(r)
  BY <1>3 DEF SendMessage, SaveFails, RetryDispatch, KeysStay
<1> QED BY <1>2, <1>3 DEF DispatchStep

(* Every step of the node is a step of the register or does not show in it. *)
LEMMA RegisterStep ==
    ConsumeInv /\ ReplyInv /\ [Next]_vars => Once!Next \/ UNCHANGED OnceVars
<1> SUFFICES ASSUME ConsumeInv, ReplyInv, [Next]_vars PROVE Once!Next \/ UNCHANGED OnceVars
  OBVIOUS
<1>0. TypeOK /\ (store' = store => KeysStay)
  BY DEF ReplyInv, KeysStay
<1>1. CASE Tick \/ UNCHANGED vars
  BY <1>1 DEF Tick, vars, dispatchVars, OnceVars
<1>2. ASSUME NEW r \in Requests, DispatchStep(r) PROVE UNCHANGED OnceVars
  BY <1>2, SavesKeepKeys DEF KeysStay, OnceVars
<1>3. ASSUME NEW h \in Handlers, NEW d \in Deliveries, Receive(h, d)
      PROVE  Once!Next \/ UNCHANGED OnceVars
  <2> DEFINE s == handler[h]
             refused == [s EXCEPT !.in = d, !.req = d.target, !.pc = "done", !.outcome = "refused"]
             started == [s EXCEPT !.in = d, !.req = d.target, !.pc = FirstLookup(d)]
  <2>1. /\ s \in HandlerState /\ s.key = NoKey /\ s.outcome = "none" /\ store' = store
    BY <1>3, PostgresHandler DEF Receive
  <2>2. /\ refused.key = NoKey /\ refused.outcome = "refused"
        /\ started.key = NoKey /\ started.outcome = "none"
    BY <2>1 DEF HandlerState
  <2>3. Become(h, refused) \/ Become(h, started)
    BY <1>3 DEF Receive
  <2> HIDE DEF refused, started
  <2>4. CASE Become(h, refused)
    <3>1. Once!Refuse(h)
      BY <2>1, <2>2, <2>4, <1>0, RefuseStep DEF AskedOf
    <3> QED BY <3>1 DEF Once!Next
  <2>5. CASE Become(h, started)
    BY <2>1, <2>2, <2>5, <1>0, SilentStep DEF AskedOf, VerdictOf
  <2> QED BY <2>3, <2>4, <2>5
<1>4. ASSUME NEW h \in Handlers, HandlerStep(h) \/ HandlerFails(h)
      PROVE  Once!Next \/ UNCHANGED OnceVars
  <2> DEFINE s == handler[h]
  <2>0. /\ s \in HandlerState /\ s.req \in Requests /\ store[s.req] \in Record
        /\ store \in [Requests -> Record] /\ s.in.target \in Requests /\ s.fallback \in Record
        /\ TypeOK
    BY PostgresHandler, HandlerParts DEF ConsumeInv
  <2>1. ASSUME NEW pc, Goto(h, pc), store' = store PROVE UNCHANGED OnceVars
    <3> DEFINE t == [s EXCEPT !.pc = pc]
    <3>1. t.key = s.key /\ t.req = s.req /\ t.outcome = s.outcome /\ Become(h, t)
      BY <2>0, <2>1 DEF HandlerState, Goto
    <3> HIDE DEF t
    <3> QED BY <2>1, <3>1, <1>0, SilentStep DEF AskedOf, VerdictOf
  <2>2. ASSUME NEW o \in {"refused", "missing"}, Finish(h, o), store' = store, s.outcome = "none"
        PROVE  Once!Next
    <3> DEFINE t == [s EXCEPT !.pc = "done", !.outcome = o]
    <3>1. t.key = s.key /\ t.req = s.req /\ t.outcome = o /\ Become(h, t)
      BY <2>0, <2>2 DEF HandlerState, Finish
    <3> HIDE DEF t
    <3>2. Once!Refuse(h)
      BY <2>2, <3>1, <1>0, RefuseStep DEF AskedOf
    <3> QED BY <3>2 DEF Once!Next
  <2>3. ASSUME Finish(h, RowVerdict(store[s.req], s.key)), store' = store,
               s.outcome = "none", s.key \in Keys, store[s.req].status = "consumed"
        PROVE  Once!Next
    <3> DEFINE t == [s EXCEPT !.pc = "done", !.outcome = RowVerdict(store[s.req], s.key)]
    <3>1. t.key = s.key /\ t.req = s.req /\ t.outcome = RowVerdict(store[s.req], s.key) /\ Become(h, t)
      BY <2>0, <2>3 DEF HandlerState, Finish
    <3>2. RowVerdict(store[s.req], s.key) = IF store[s.req].key = s.key THEN "duplicate" ELSE "conflict"
      BY <2>3 DEF RowVerdict
    <3>3. store[s.req].key # NoKey
      BY <2>3, PostgresHandler
    <3> HIDE DEF t
    <3>4. AskedOf(t) = AskedOf(s)
      BY <3>1 DEF AskedOf
    <3>5. Once!Answer(h)
      BY <2>3, <3>1, <3>2, <3>3, <3>4, <1>0, AnswerStep
    <3> QED BY <3>5 DEF Once!Next
  <2>4. ASSUME NEW rec \in Record, Accept(h, rec), s.outcome = "none", s.key \in Keys,
               store[s.req].status # "consumed",
               store' = [store EXCEPT ![s.req] = Consumed(rec, s.key, clock)]
        PROVE  Once!Next
    <3> DEFINE t == [s EXCEPT !.pc = "accepted", !.outcome = "accepted", !.resumable = rec.session]
    <3>1. t.key = s.key /\ t.req = s.req /\ t.outcome = "accepted" /\ Become(h, t)
      BY <2>0, <2>4 DEF HandlerState, Accept
    <3>2. store[s.req].key = NoKey
      BY <2>4, PostgresHandler
    <3>3. Consumed(rec, s.key, clock).key = s.key
      BY <2>4 DEF Consumed, Record
    <3>4. [x \in Requests |-> store'[x].key]
            = [[x \in Requests |-> store[x].key] EXCEPT ![s.req] = s.key]
      BY <2>0, <2>4, <3>3
    <3> HIDE DEF t
    <3>5. AskedOf(t) = AskedOf(s)
      BY <3>1 DEF AskedOf
    <3>6. Once!Answer(h)
      BY <2>4, <3>1, <3>2, <3>4, <3>5, <1>0, AnswerStep
    <3> QED BY <3>6 DEF Once!Next
  <2>5. ASSUME NEW r \in Requests, Decide(h, r, store[r]), s.pc \in Looking, store' = store
        PROVE  Once!Next
    <3>1. s.key = NoKey /\ s.outcome = "none"
      BY <2>5, PostgresHandler
    <3>2. store[r] \in Record
      BY <2>0
    <3>3. CASE Finish(h, "refused")
      BY <2>2, <2>5, <3>1, <3>3
    <3>4. ASSUME NEW q \in Requests, NEW k \in Keys, NEW f \in Record, ProceedWith(h, q, k, f)
          PROVE  Once!Next
      <4> DEFINE t == [s EXCEPT !.pc = ConsumePc, !.req = q, !.key = k, !.fallback = f]
      <4>1. t.key = k /\ t.req = q /\ t.outcome = s.outcome /\ Become(h, t) /\ k # NoKey
        BY <2>0, <3>4 DEF HandlerState, ProceedWith, Keys, Approvals, NoKey
      <4> HIDE DEF t
      <4>2. Once!Ask(h, q, k)
        BY <2>5, <3>1, <4>1, <1>0, AskStep DEF AskedOf, VerdictOf
      <4> QED BY <4>2 DEF Once!Next
    <3> QED BY <2>0, <2>5, <3>2, <3>3, <3>4, DecideCases
  <2>6. CASE GetPending(h)
    <3>1. store' = store /\ Decide(h, s.in.target, store[s.in.target]) /\ s.pc \in Looking
      BY <2>6, PostgresHandler DEF GetPending, Looking
    <3> QED BY <2>0, <2>5, <3>1
  <2>7. CASE GetByProviderMessageId(h)
    <3>1. /\ store' = store /\ s.pc \in Looking
          /\ Decide(h, s.in.target, store[s.in.target]) \/ Goto(h, "byRecipient")
      BY <2>7 DEF GetByProviderMessageId, Looking
    <3> QED BY <2>0, <2>1, <2>5, <3>1
  <2>8. CASE GetLatestByRecipient(h)
    <3>1. /\ store' = store /\ s.pc \in Looking
          /\ Finish(h, "refused") \/ \E r \in Requests : Decide(h, r, store[r])
      BY <2>8 DEF GetLatestByRecipient, LatestByRecipient, PendingOf, Looking
    <3>2. s.outcome = "none"
      BY <3>1, PostgresHandler
    <3> QED BY <2>2, <2>5, <3>1, <3>2
  <2>9. CASE UpdatePending(h)
    <3>1. s.outcome = "none" /\ s.key \in Keys
      BY <2>9, PostgresHandler DEF UpdatePending, Answering
    <3> QED BY <2>0, <2>1, <2>4, <2>9, <3>1 DEF UpdatePending, UpdateMatches
  <2>10. CASE InsertFallback(h)
    <3>1. s.outcome = "none" /\ s.key \in Keys
      BY <2>10, PostgresHandler DEF InsertFallback, Answering
    <3> QED BY <2>0, <2>1, <2>4, <2>10, <3>1 DEF InsertFallback, InsertMatches
  <2>11. CASE SelectExisting(h)
    <3>1. /\ s.outcome = "none" /\ s.key \in Keys /\ store' = store
          /\ store[s.req].status \in {"none", "consumed"}
      BY <2>11, PostgresHandler DEF SelectExisting, Answering
    <3> QED BY <2>1, <2>2, <2>3, <2>11, <3>1 DEF SelectExisting
  <2>12. CASE SelectRaced(h)
    <3>1. /\ s.outcome = "none" /\ s.key \in Keys /\ store' = store
          /\ store[s.req].status = "consumed"
      BY <2>12, PostgresHandler DEF SelectRaced, Answering
    <3> QED BY <2>3, <2>12, <3>1 DEF SelectRaced
  <2>13. CASE Emit(h)
    BY <2>1, <2>13 DEF Emit
  <2>14. ~ConsumeStatic(h)
    BY PostgresHandler DEF ConsumeStatic
  <2>15. CASE HandlerFails(h)
    <3> DEFINE t == [s EXCEPT !.pc = "failed",
                              !.outcome = IF s.pc = "accepted" THEN "lost" ELSE s.outcome]
    <3>1. Become(h, t) /\ store' = store
      BY <2>15 DEF HandlerFails
    <3>2. /\ t.key = s.key /\ t.req = s.req
          /\ t.outcome = s.outcome \/ (s.pc = "accepted" /\ t.outcome = "lost")
      BY <2>0 DEF HandlerState
    <3> HIDE DEF t
    <3>3. AskedOf(t) = AskedOf(s)
      BY <3>2 DEF AskedOf
    <3>4. CASE t.outcome = s.outcome
      <4>1. VerdictOf(t) = VerdictOf(s)
        BY <3>4 DEF VerdictOf
      <4> QED BY <1>0, <3>1, <3>3, <4>1, SilentStep
    <3>5. CASE s.pc = "accepted" /\ t.outcome = "lost"
      <4>1. Once!Lose(h)
        BY <1>0, <3>1, <3>3, <3>5, PostgresHandler, LoseStep
      <4> QED BY <4>1 DEF Once!Next
    <3> QED BY <3>2, <3>4, <3>5
  <2> QED BY <1>4, <2>6, <2>7, <2>8, <2>9, <2>10, <2>11, <2>12, <2>13, <2>14, <2>15
         DEF HandlerStep
<1> QED BY <1>1, <1>2, <1>3, <1>4 DEF Next

(* "Each HITL request should be consumed once": the Postgres consume, four  *)
(* statements that other handlers, late saves, retries and failures come    *)
(* between, implements a register that is written once per request.         *)
THEOREM PostgresImplementsOnce ==
    Spec /\ node.backend = "postgres" => ImplementsOnceDecision
<1>1. Init => Once!Init
  BY DEF Init, Once!Init, NoRecord
<1>2. ConsumeInv /\ [Next]_vars => ConsumeInv'
  BY ConsumeInvNext
<1>3. ConsumeInv /\ ReplyInv /\ [Next]_vars => [Once!Next]_OnceVars
  BY RegisterStep
<1> QED
  BY <1>1, <1>2, <1>3, ConsumeInvInit, ReplyInit, ReplyNext, PTL
  DEF Spec, ImplementsOnceDecision, Once!Spec, OnceVars

(* With the Postgres store a row that is consumed stays as it is, whatever  *)
(* execute() saves late or a retry saves again.                             *)
LEMMA ConsumedRowsStay ==
    ConsumeInv /\ [Next]_vars =>
        \A r \in Requests : store[r].status = "consumed" => store'[r] = store[r]
<1> SUFFICES ASSUME ConsumeInv, [Next]_vars, NEW r \in Requests, store[r].status = "consumed"
             PROVE  store'[r] = store[r]
  OBVIOUS
<1>0. store \in [Requests -> Record] /\ node.backend = "postgres" /\ TypeOK
  BY DEF ConsumeInv, TypeOK
<1>1. CASE Tick \/ UNCHANGED vars \/ \E h \in Handlers, d \in Deliveries : Receive(h, d)
  BY <1>1 DEF Tick, vars, Receive
<1>2. ASSUME NEW x \in Requests, DispatchStep(x) PROVE store'[r] = store[r]
  <2>1. ASSUME NEW n, NEW b, store' = Saved(x, RequestRecord(x, node.timeoutMs, n, b))
        PROVE  store'[r] = store[r]
    BY <1>0, <2>1 DEF Saved, UpsertRow
  <2> QED BY <1>2, <2>1 DEF DispatchStep, SavePending, SaveMessageId, SendMessage, SaveFails,
                           RetryDispatch
<1>3. ASSUME NEW h \in Handlers, HandlerStep(h) \/ HandlerFails(h) PROVE store'[r] = store[r]
  <2>1. HandlerShape(h)
    BY DEF ConsumeInv
  <2>2. ~ConsumeStatic(h)
    BY <2>1 DEF HandlerShape, ConsumeStatic
  <2>3. CASE UpdatePending(h) \/ InsertFallback(h)
    BY <1>0, <2>3 DEF UpdatePending, InsertFallback, UpdateMatches, InsertMatches
  <2> QED BY <1>0, <1>3, <2>2, <2>3
          DEF HandlerStep, HandlerFails, GetPending, GetByProviderMessageId, GetLatestByRecipient,
              SelectExisting, SelectRaced, Emit
<1> QED BY <1>1, <1>2, <1>3 DEF Next

(* With the Postgres store a recorded decision is never changed or dropped. *)
THEOREM DecisionsAreFinal ==
    Spec /\ node.backend = "postgres" => DecisionIsFinal
<1>1. ConsumeInv /\ [Next]_vars => ConsumeInv'
  BY ConsumeInvNext
<1>2. ConsumeInv /\ [Next]_vars =>
        [\A r \in Requests : store[r].status = "consumed" =>
            store'[r].status = "consumed" /\ store'[r].key = store[r].key]_store
  BY ConsumedRowsStay
<1> QED BY <1>1, <1>2, ConsumeInvInit, PTL DEF Spec, DecisionIsFinal

-----------------------------------------------------------------------------
(***************************************************************************)
(* For either store: the decision fits what was asked.  Only execute()     *)
(* writes pending records, so a pending record has its request's kind; a   *)
(* reply found by its sender or by the message it quotes meets only        *)
(* pending records, and a reply that names its request carries words of    *)
(* that request's kind.                                                    *)
(***************************************************************************)
FitsKind(r, k) == KindOf[r] = "approval" <=> k \in Approvals

PendingKinds(rows) == \A r \in Requests : rows[r].status = "pending" => rows[r].kind = KindOf[r]

FitOf(n, s) ==
    /\ s.pc # "idle" => WellFormed(n, s.in)
    /\ s.pc = "byRequest" => s.in.how = "request"
    /\ s.key # NoKey /\ s.in.path # "inbound" => FitsKind(s.req, s.key)
    /\ s.outcome = "accepted" => s.key # NoKey

FitInv == /\ ReplyInv
          /\ PendingKinds(store)
          /\ \A h \in Handlers : FitOf(node, handler[h])

(* The key a lookup takes out of a delivery fits the request it found.      *)
LEMMA DecideFits ==
    ASSUME TypeOK, NEW h \in Handlers, NEW r \in Requests, NEW rec \in Record, Decide(h, r, rec),
           WellFormed(node, handler[h].in),
           \/ handler[h].in.how = "request" /\ r = handler[h].in.target
           \/ rec.status = "pending" /\ rec.kind = KindOf[r]
    PROVE  \/ Finish(h, "refused")
           \/ \E q \in Requests, k \in Keys, f \in Record :
                 /\ ProceedWith(h, q, k, f)
                 /\ handler[h].in.path # "inbound" => FitsKind(q, k)
<1> DEFINE d == handler[h].in
<1>0. /\ d \in Delivery /\ d.target \in Requests
      /\ d.approval \in Approvals \cup {NoKey} /\ d.answer \in Answers \cup {NoKey}
      /\ clock \in Nat
  BY HandlerParts DEF TypeOK
<1>1. ASSUME NEW kind \in Kinds
      PROVE  Fallback(d, kind) \in Record
  <2>1. (d.path = "inbound" /\ d.how # "sender") \in BOOLEAN
    OBVIOUS
  <2> QED BY <1>0, <2>1 DEF Fallback, Record, NoRecord
<1>2. "approval" \in Kinds /\ "question" \in Kinds /\ NoRecord \in Record
  BY RecordTypes DEF Kinds
<1>3. /\ d.approval # NoKey => d.approval \in Keys /\ d.approval \in Approvals
      /\ d.answer # NoKey => d.answer \in Keys /\ d.answer \notin Approvals
  BY <1>0 DEF Keys
<1>4. KindOf[d.target] \in Kinds /\ KindOf[r] \in Kinds
  BY <1>0
<1>5. CASE d.path = "callback"
  <2>1. DecideCallback(h, rec) /\ IsToken(d)
    BY <1>0, <1>5 DEF Decide, DecideTap, SlackCallback, DiscordCallback, TelegramCallback, Delivery
  <2>2. /\ d.approval # NoKey => FitsKind(d.target, d.approval)
        /\ d.approval = NoKey => d.answer # NoKey /\ FitsKind(d.target, d.answer)
    BY <1>3, <2>1 DEF IsToken, FitsKind
  <2>3. CASE d.approval # NoKey
    BY <1>0, <1>1, <1>2, <1>3, <2>1, <2>2, <2>3 DEF DecideCallback, DecideApprovalToken
  <2>4. CASE d.approval = NoKey
    BY <1>0, <1>1, <1>2, <1>3, <2>1, <2>2, <2>4 DEF DecideCallback, DecideOptionToken
  <2> QED BY <2>3, <2>4
<1>6. CASE d.path = "query"
  <2>1. Finish(h, "refused") \/ DecideLink(h, rec)
    BY <1>6 DEF Decide, DecideQuery, SlackQuery, DiscordQuery, TelegramQuery, WoztellQuery,
                WhatsAppQuery, EmailQuery, GmailQuery
  <2>2. KindOf[d.target] = "approval" <=> d.approval # NoKey
    BY <1>6 DEF WellFormed, QueryDelivery
  <2>3. /\ d.approval # NoKey => FitsKind(d.target, d.approval)
        /\ d.approval = NoKey /\ d.answer # NoKey => FitsKind(d.target, d.answer)
    BY <1>3, <2>2 DEF FitsKind
  <2>4. CASE DecideLinkApproval(h)
    BY <1>0, <1>1, <1>2, <1>3, <2>3, <2>4 DEF DecideLinkApproval
  <2>5. CASE d.approval = NoKey /\ DecideLinkAnswers(h)
    BY <1>0, <1>1, <1>2, <1>3, <2>3, <2>5 DEF DecideLinkAnswers
  <2> QED BY <2>1, <2>4, <2>5 DEF DecideLink, LinkIsApproval
<1>7. CASE d.path = "inbound"
  BY <1>7, DecideCases
<1>8. CASE d.path = "trigger"
  <2> DEFINE k == IF rec.kind = "approval" THEN d.approval ELSE d.answer
  <2>1. DecideTrigger(h, r, rec)
    BY <1>8 DEF Decide, WhatsAppTriggerReply, WoztellTriggerReply
  <2>2. ASSUME k # NoKey
        PROVE  k \in Keys /\ FitsKind(r, k)
    <3>1. CASE rec.status = "pending" /\ rec.kind = KindOf[r]
      BY <1>3, <2>2, <3>1 DEF FitsKind
    <3>2. CASE d.how = "request" /\ r = d.target
      <4>1. IsToken(d) \/ (d.approval = NoKey /\ d.answer = NoKey)
        BY <1>8, <3>2 DEF WellFormed, WoztellTrigger, WhatsAppTrigger, WhatsAppInbound, ChatMessage
      <4> QED BY <1>3, <2>2, <3>2, <4>1 DEF IsToken, FitsKind
    <3> QED BY <3>1, <3>2
  <2>3. Finish(h, "refused") \/ (ProceedWith(h, r, k, NoRecord) /\ k # NoKey)
    BY <2>1 DEF DecideTrigger
  <2> HIDE DEF k
  <2> QED BY <1>2, <2>2, <2>3
<1> QED BY <1>0, <1>5, <1>6, <1>7, <1>8 DEF Delivery

(* Only execute() writes pending records.                                   *)
LEMMA SavedPending ==
    ASSUME TypeOK, NEW r \in Requests, NEW rec \in Record
    PROVE  \A x \in Requests : Saved(r, rec)[x].status = "pending" =>
              Saved(r, rec)[x] = store[x] \/ (x = r /\ Saved(r, rec)[x].kind = rec.kind)
<1> DEFINE rows == Saved(r, rec)
           clean == CleanupExpired(store, clock)
<1>0. /\ store \in [Requests -> Record] /\ store[r].status \in {"none", "pending", "consumed"}
      /\ clock \in Nat
  BY DEF TypeOK, Record
<1>1. CASE node.backend = "postgres"
  <2>1. rows = [store EXCEPT ![r] = UpsertRow(store[r], rec)]
    BY <1>1 DEF Saved
  <2>2. UpsertRow(store[r], rec) = store[r] \/ UpsertRow(store[r], rec).kind = rec.kind
    <3>1. CASE store[r].status = "pending"
      <4>1. UpsertRow(store[r], rec)
              = [rec EXCEPT !.createdAt = store[r].createdAt,
                            !.messageId = rec.messageId \/ store[r].messageId]
        BY <3>1 DEF UpsertRow
      <4> QED BY <4>1 DEF Record
    <3>2. CASE store[r].status # "pending"
      BY <1>0, <3>2 DEF UpsertRow
    <3> QED BY <3>1, <3>2
  <2> HIDE DEF rows
  <2>3. rows[r] = UpsertRow(store[r], rec) /\ \A x \in Requests : x # r => rows[x] = store[x]
    BY <1>0, <2>1
  <2> QED BY <2>2, <2>3 DEF rows
<1>2. CASE node.backend # "postgres"
  <2>1. rows = IF clean[r].status = "consumed" THEN clean ELSE [clean EXCEPT ![r] = rec]
    BY <1>2 DEF Saved, StaticSave
  <2>2. /\ clean \in [Requests -> Record]
        /\ \A x \in Requests : clean[x] = store[x] \/ clean[x].status = "none"
    <3>1. clean \in [Requests -> Record]
      BY <1>0, StaticTypes
    <3>2. NoRecord.status = "none"
      BY DEF NoRecord
    <3> QED BY <3>1, <3>2 DEF CleanupExpired
  <2> HIDE DEF rows, clean
  <2>3. \A x \in Requests : rows[x] = clean[x] \/ (x = r /\ rows[x] = rec)
    BY <2>1, <2>2
  <2> QED BY <2>2, <2>3 DEF rows
<1> QED BY <1>1, <1>2

LEMMA HandlersAddNoPending ==
    ASSUME TypeOK, NEW h \in Handlers, HandlerStep(h) \/ HandlerFails(h)
    PROVE  \A x \in Requests : store'[x] = store[x] \/ store'[x].status # "pending"
<1> DEFINE s == handler[h]
           clean == CleanupExpired(store, clock)
<1>0. /\ s.req \in Requests /\ store \in [Requests -> Record] /\ store[s.req] \in Record
      /\ s.fallback \in Record /\ clock \in Nat
  BY HandlerParts DEF TypeOK
<1>1. /\ clean \in [Requests -> Record]
      /\ \A x \in Requests : clean[x] = store[x] \/ clean[x].status # "pending"
  <2>1. clean \in [Requests -> Record]
    BY <1>0, StaticTypes
  <2>2. NoRecord.status = "none"
    BY DEF NoRecord
  <2> QED BY <2>1, <2>2 DEF CleanupExpired
<1>2. ASSUME NEW rec \in Record, NEW rows \in {store, clean},
             store' = [rows EXCEPT ![s.req] = Consumed(rec, s.key, clock)]
      PROVE  \A x \in Requests : store'[x] = store[x] \/ store'[x].status # "pending"
  <2>1. Consumed(rec, s.key, clock).status = "consumed"
    BY <1>2 DEF Consumed, Record
  <2> HIDE DEF clean
  <2> QED BY <1>0, <1>1, <1>2, <2>1
<1>3. CASE ConsumeStatic(h)
  <2>1. store' = StaticConsume(store, s.req, s.key, s.fallback, clock)
    BY <1>3 DEF ConsumeStatic
  <2>2. \/ store' = clean
        \/ store' = [clean EXCEPT ![s.req] = Consumed(clean[s.req], s.key, clock)]
        \/ store' = [clean EXCEPT ![s.req] = Consumed(s.fallback, s.key, clock)]
    BY <2>1 DEF StaticConsume
  <2>3. clean[s.req] \in Record
    BY <1>0, <1>1
  <2> QED BY <1>0, <1>1, <1>2, <2>2, <2>3
<1>4. CASE UpdatePending(h) \/ InsertFallback(h)
  BY <1>0, <1>2, <1>4 DEF UpdatePending, InsertFallback
<1>5. CASE GetPending(h)
  BY <1>1, <1>5 DEF GetPending
<1> QED BY <1>3, <1>4, <1>5
        DEF HandlerStep, HandlerFails, GetByProviderMessageId, GetLatestByRecipient,
            SelectExisting, SelectRaced, Emit

LEMMA FitInit == Init => FitInv
<1> SUFFICES ASSUME Init PROVE FitInv
  OBVIOUS
<1>1. ReplyInv
  BY ReplyInit
<1>2. \A r \in Requests : store[r].status = "none"
  BY DEF Init, NoRecord
<1>3. \A h \in Handlers : FitOf(node, handler[h])
  BY DEF Init, FitOf
<1> QED BY <1>1, <1>2, <1>3 DEF FitInv, PendingKinds

(* A handler becomes t, and knows what t does.                              *)
LEMMA FitKept ==
    ASSUME FitInv, ReplyInv', node' = node, NEW h \in Handlers, NEW t, Become(h, t),
           FitOf(node, t), \A x \in Requests : store'[x] = store[x] \/ store'[x].status # "pending"
    PROVE  FitInv'
<1>1. /\ handler'[h] = t
      /\ \A g \in Handlers : g # h => handler'[g] = handler[g]
  BY DEF Become, FitInv, ReplyInv, TypeOK
<1>2. \A g \in Handlers : FitOf(node, handler'[g])
  BY <1>1 DEF FitInv
<1>3. PendingKinds(store')
  BY DEF FitInv, PendingKinds
<1> QED BY <1>2, <1>3 DEF FitInv, PendingKinds, FitOf

LEMMA FitNext == FitInv /\ [Next]_vars => FitInv'
<1> SUFFICES ASSUME FitInv, [Next]_vars PROVE FitInv'
  OBVIOUS
<1>0. ReplyInv /\ ReplyInv' /\ TypeOK /\ PendingKinds(store)
  BY ReplyNext DEF FitInv, ReplyInv
<1>q. ASSUME node' = node, handler' = handler, PendingKinds(store') PROVE FitInv'
  BY <1>0, <1>q DEF FitInv, PendingKinds, FitOf
<1>1. CASE Tick \/ UNCHANGED vars
  BY <1>0, <1>1, <1>q DEF Tick, vars, dispatchVars
<1>2. ASSUME NEW r \in Requests, DispatchStep(r) PROVE FitInv'
  <2>1. ASSUME NEW n \in Nat, NEW b \in BOOLEAN,
               store' = Saved(r, RequestRecord(r, node.timeoutMs, n, b))
        PROVE  PendingKinds(store')
    <3> DEFINE rec == RequestRecord(r, node.timeoutMs, n, b)
    <3>1. rec \in Record
      BY <1>0, RecordTypes, LostKnown
    <3>2. rec.kind = KindOf[r]
      BY DEF RequestRecord, NoRecord
    <3> HIDE DEF rec
    <3>3. store' = Saved(r, rec)
      BY <2>1 DEF rec
    <3> QED BY <1>0, <3>1, <3>2, <3>3, SavedPending DEF PendingKinds
  <2>2. clock \in Nat /\ dispatch[r].createdAt \in Nat
    BY <1>0 DEF TypeOK
  <2>3. CASE SavePending(r) \/ SaveMessageId(r)
    BY <1>q, <2>1, <2>2, <2>3 DEF SavePending, SaveMessageId
  <2>4. CASE SendMessage(r) \/ SaveFails(r) \/ RetryDispatch(r)
    <3>1. UNCHANGED <<node, store, handler>>
      BY <2>4 DEF SendMessage, SaveFails, RetryDispatch
    <3> QED BY <1>0, <1>q, <3>1
  <2> QED BY <1>2, <2>3, <2>4 DEF DispatchStep
<1>3. ASSUME NEW h \in Handlers, NEW d \in Deliveries, Receive(h, d) PROVE FitInv'
  <2> DEFINE s == handler[h]
             refused == [s EXCEPT !.in = d, !.req = d.target, !.pc = "done", !.outcome = "refused"]
             started == [s EXCEPT !.in = d, !.req = d.target, !.pc = FirstLookup(d)]
  <2>0. /\ s \in HandlerState /\ s.pc = "idle" /\ ReplyOf(s) /\ store' = store /\ node' = node
        /\ WellFormed(node, d)
    BY <1>0, <1>3, HandlerParts DEF Receive, ReplyInv, dispatchVars, CanArrive
  <2>1. FitOf(node, refused) /\ FitOf(node, started)
    BY <2>0 DEF FitOf, ReplyOf, HandlerState, FirstLookup
  <2>2. Become(h, refused) \/ Become(h, started)
    BY <1>3 DEF Receive
  <2> HIDE DEF refused, started
  <2> QED BY <1>0, <2>0, <2>1, <2>2, FitKept
<1>4. ASSUME NEW h \in Handlers, HandlerStep(h) \/ HandlerFails(h) PROVE FitInv'
  <2> DEFINE s == handler[h]
  <2>0. /\ s \in HandlerState /\ s.req \in Requests /\ ReplyOf(s) /\ FitOf(node, s)
        /\ s.in.target \in Requests /\ store \in [Requests -> Record] /\ node' = node
    BY <1>0, <1>4, HandlerParts
    DEF FitInv, ReplyInv, TypeOK, HandlerStep, HandlerFails, GetPending, GetByProviderMessageId,
        GetLatestByRecipient, ConsumeStatic, UpdatePending, SelectExisting, InsertFallback,
        SelectRaced, Emit, dispatchVars
  <2>r. \A x \in Requests : store'[x] = store[x] \/ store'[x].status # "pending"
    BY <1>0, <1>4, HandlersAddNoPending
  <2>1. ASSUME NEW pc, Goto(h, pc), pc # "byRequest", s.pc # "idle" PROVE FitInv'
    <3> DEFINE t == [s EXCEPT !.pc = pc]
    <3>1. FitOf(node, t) /\ Become(h, t)
      BY <2>0, <2>1 DEF FitOf, HandlerState, Goto
    <3> HIDE DEF t
    <3> QED BY <1>0, <2>0, <2>r, <3>1, FitKept
  <2>2. ASSUME NEW o \in Outcomes \ {"accepted"}, Finish(h, o), s.pc # "idle" PROVE FitInv'
    <3> DEFINE t == [s EXCEPT !.pc = "done", !.outcome = o]
    <3>1. FitOf(node, t) /\ Become(h, t)
      BY <2>0, <2>2 DEF FitOf, HandlerState, Finish
    <3> HIDE DEF t
    <3> QED BY <1>0, <2>0, <2>r, <3>1, FitKept
  <2>3. ASSUME NEW rec, Accept(h, rec), s.pc \in Consuming PROVE FitInv'
    <3> DEFINE t == [s EXCEPT !.pc = "accepted", !.outcome = "accepted", !.resumable = rec.session]
    <3>0. s.key # NoKey
      BY <2>0, <2>3 DEF ReplyOf, Keys, Approvals, NoKey
    <3>1. FitOf(node, t) /\ Become(h, t)
      BY <2>0, <2>3, <3>0 DEF FitOf, HandlerState, Accept, Consuming
    <3> HIDE DEF t
    <3> QED BY <1>0, <2>0, <2>r, <3>1, FitKept
  <2>4. ASSUME NEW r \in Requests, NEW rec \in Record, Decide(h, r, rec), s.pc \in Looking,
               \/ s.in.how = "request" /\ r = s.in.target
               \/ rec.status = "pending" /\ rec.kind = KindOf[r]
        PROVE  FitInv'
    <3>0. WellFormed(node, s.in) /\ s.pc # "idle"
      BY <2>0, <2>4 DEF FitOf, Looking
    <3>1. CASE Finish(h, "refused")
      BY <2>2, <3>0, <3>1 DEF Outcomes
    <3>2. ASSUME NEW q \in Requests, NEW k \in Keys, NEW f \in Record, ProceedWith(h, q, k, f),
                 s.in.path # "inbound" => FitsKind(q, k)
          PROVE  FitInv'
      <4> DEFINE t == [s EXCEPT !.pc = ConsumePc, !.req = q, !.key = k, !.fallback = f]
      <4>1. s.outcome = "none"
        BY <2>0, <2>4 DEF ReplyOf
      <4>2. FitOf(node, t)
        BY <2>0, <3>0, <3>2, <4>1 DEF FitOf, HandlerState, ConsumePc
      <4>3. Become(h, t)
        BY <3>2 DEF ProceedWith
      <4> HIDE DEF t
      <4> QED BY <1>0, <2>0, <2>r, <4>2, <4>3, FitKept
    <3> QED BY <1>0, <2>4, <3>0, <3>1, <3>2, DecideFits
  <2>5. CASE GetPending(h)
    <3>1. /\ Decide(h, s.in.target, store'[s.in.target]) /\ s.pc \in Looking /\ s.in.how = "request"
      BY <2>0, <2>5 DEF GetPending, Looking, FitOf
    <3>2. store' \in [Requests -> Record]
      BY <1>0 DEF ReplyInv, TypeOK
    <3> QED BY <2>0, <2>4, <3>1, <3>2
  <2>6. CASE GetByProviderMessageId(h)
    <3>1. /\ s.pc = "byMessage" /\ s.pc \in Looking
          /\ \/ Goto(h, "byRecipient")
             \/ Decide(h, s.in.target, store[s.in.target]) /\ store[s.in.target].status = "pending"
      BY <2>6 DEF GetByProviderMessageId, ByProviderMessageId, Looking
    <3> QED BY <1>0, <2>0, <2>1, <2>4, <3>1 DEF PendingKinds
  <2>7. CASE GetLatestByRecipient(h)
    <3>1. /\ s.pc = "byRecipient" /\ s.pc \in Looking
          /\ \/ Finish(h, "refused")
             \/ \E r \in Requests : Decide(h, r, store[r]) /\ store[r].status = "pending"
      BY <2>7 DEF GetLatestByRecipient, LatestByRecipient, PendingOf, Looking
    <3> QED BY <1>0, <2>0, <2>2, <2>4, <3>1 DEF PendingKinds, Outcomes
  <2>8. CASE ConsumeStatic(h)
    <3> DEFINE verdict == StaticVerdict(store, s.req, s.key, s.fallback, clock)
               after == StaticConsume(store, s.req, s.key, s.fallback, clock)
    <3>1. /\ s.pc \in Consuming /\ s.pc # "idle"
          /\ verdict = "accepted" => Accept(h, after[s.req])
          /\ verdict # "accepted" => Finish(h, verdict)
      BY <2>8 DEF ConsumeStatic, Consuming
    <3>2. verdict \in Outcomes
      BY DEF StaticVerdict, Outcomes
    <3> HIDE DEF verdict, after
    <3> QED BY <2>2, <2>3, <3>1, <3>2
  <2>9. CASE UpdatePending(h) \/ InsertFallback(h)
    BY <2>1, <2>3, <2>9 DEF UpdatePending, InsertFallback, Consuming
  <2>10. CASE SelectExisting(h) \/ SelectRaced(h)
    <3>1. RowVerdict(store[s.req], s.key) \in Outcomes \ {"accepted"} /\ "missing" \in Outcomes \ {"accepted"}
      BY DEF RowVerdict, Outcomes
    <3> QED BY <2>1, <2>2, <2>10, <3>1 DEF SelectExisting, SelectRaced
  <2>11. CASE Emit(h)
    BY <2>1, <2>11 DEF Emit
  <2>12. CASE HandlerFails(h)
    <3> DEFINE t == [s EXCEPT !.pc = "failed",
                              !.outcome = IF s.pc = "accepted" THEN "lost" ELSE s.outcome]
    <3>1. Become(h, t) /\ s.pc # "idle"
      BY <2>12 DEF HandlerFails
    <3>2. FitOf(node, t)
      BY <2>0, <3>1 DEF FitOf, HandlerState
    <3> HIDE DEF t
    <3> QED BY <1>0, <2>0, <2>r, <3>1, <3>2, FitKept
  <2> QED BY <1>4, <2>5, <2>6, <2>7, <2>8, <2>9, <2>10, <2>11, <2>12 DEF HandlerStep
<1> QED BY <1>1, <1>2, <1>3, <1>4 DEF Next

(* What is accepted for a request is a decision of its kind, with either    *)
(* store and however the reply was matched to its request.                  *)
THEOREM DecisionsFit == Spec => []DecisionFitsRequest
<1>1. FitInv => DecisionFitsRequest
  BY DEF FitInv, FitOf, FitsKind, DecisionFitsRequest
<1> QED BY <1>1, FitInit, FitNext, PTL DEF Spec

-----------------------------------------------------------------------------
(* Static data.  A tombstone is dropped when it is older than               *)
(* ConsumedMaxAge; until then it is as final as a row of the table.         *)
Young(rec) == rec.status = "consumed" /\ clock - rec.consumedAt <= ConsumedMaxAge

(* Cleaning up keeps a young tombstone, and adds no other.                  *)
LEMMA CleanupKeepsYoung ==
    ASSUME TypeOK, NEW r \in Requests
    PROVE  LET clean == CleanupExpired(store, clock) IN
           /\ clean \in [Requests -> Record]
           /\ Young(store[r]) => clean[r] = store[r]
           /\ clean[r] = store[r] \/ clean[r].status = "none"
<1> DEFINE clean == CleanupExpired(store, clock)
<1>0. /\ store \in [Requests -> Record] /\ clock \in Nat /\ NoRecord.status = "none"
      /\ store[r].consumedAt \in Nat
  BY DEF TypeOK, NoRecord, Record
<1>1. clean \in [Requests -> Record]
  BY <1>0, StaticTypes
<1>2. clean[r] = IF Expired(store[r], clock) THEN NoRecord ELSE store[r]
  BY DEF CleanupExpired
<1>3. Young(store[r]) => ~Expired(store[r], clock)
  BY <1>0 DEF Young, Expired
<1> QED BY <1>0, <1>1, <1>2, <1>3

(* A save leaves a young tombstone alone.                                   *)
LEMMA SaveKeepsYoung ==
    ASSUME TypeOK, node.backend # "postgres", NEW x \in Requests, NEW rec,
           NEW r \in Requests, Young(store[r])
    PROVE  Saved(x, rec)[r] = store[r]
<1> DEFINE clean == CleanupExpired(store, clock)
<1>1. clean \in [Requests -> Record] /\ clean[r] = store[r]
  BY CleanupKeepsYoung
<1>2. Saved(x, rec) = IF clean[x].status = "consumed" THEN clean ELSE [clean EXCEPT ![x] = rec]
  BY DEF Saved, StaticSave
<1>3. store[r].status = "consumed"
  BY DEF Young
<1> HIDE DEF clean
<1>4. CASE x = r
  BY <1>1, <1>2, <1>3, <1>4
<1>5. CASE x # r
  BY <1>1, <1>2, <1>5
<1> QED BY <1>4, <1>5

(* What the static consume answers and leaves, by what the cleanup leaves.  *)
LEMMA ConsumeCases ==
    ASSUME TypeOK, NEW h \in Handlers, ConsumeStatic(h), handler[h].key \in Keys
    PROVE  LET s     == handler[h]
               clean == CleanupExpired(store, clock)
           IN  \/ /\ clean[s.req].status \in {"none", "pending"}
                  /\ store'[s.req].status = "consumed" /\ store'[s.req].key = s.key
                  /\ store'[s.req].consumedAt = clock
                  /\ \A x \in Requests \ {s.req} : store'[x] = clean[x]
                  /\ Accept(h, store'[s.req]) /\ store'[s.req] \in Record
               \/ /\ clean[s.req].status = "none" /\ store' = clean /\ Finish(h, "missing")
               \/ /\ clean[s.req].status = "consumed" /\ store' = clean
                  /\ Finish(h, IF clean[s.req].key = s.key THEN "duplicate" ELSE "conflict")
<1> DEFINE s       == handler[h]
           clean   == CleanupExpired(store, clock)
           verdict == StaticVerdict(store, s.req, s.key, s.fallback, clock)
           after   == StaticConsume(store, s.req, s.key, s.fallback, clock)
<1>0. /\ s.req \in Requests /\ s.fallback \in Record /\ clock \in Nat
      /\ clean \in [Requests -> Record] /\ after \in [Requests -> Record]
  BY HandlerParts, StaticTypes DEF TypeOK
<1>1. /\ store' = after
      /\ verdict = "accepted" => Accept(h, after[s.req])
      /\ verdict # "accepted" => Finish(h, verdict)
  BY DEF ConsumeStatic
<1>2. clean[s.req] \in Record /\ clean[s.req].status \in {"none", "pending", "consumed"}
  BY <1>0 DEF Record
<1>3. ASSUME NEW rec \in Record
      PROVE  /\ Consumed(rec, s.key, clock).status = "consumed" /\ Consumed(rec, s.key, clock).key = s.key
             /\ Consumed(rec, s.key, clock).consumedAt = clock
  BY DEF Consumed, Record
<1>4. ASSUME NEW rec \in Record, verdict = "accepted", clean[s.req].status # "consumed",
             after = [clean EXCEPT ![s.req] = Consumed(rec, s.key, clock)]
      PROVE  /\ store'[s.req].status = "consumed" /\ store'[s.req].key = s.key
             /\ store'[s.req].consumedAt = clock
             /\ \A x \in Requests \ {s.req} : store'[x] = clean[x]
             /\ Accept(h, store'[s.req]) /\ store'[s.req] \in Record
  <2> HIDE DEF clean, verdict, after
  <2> QED BY <1>0, <1>1, <1>3, <1>4
<1>5. CASE clean[s.req].status = "pending"
  <2>1. after = [clean EXCEPT ![s.req] = Consumed(clean[s.req], s.key, clock)] /\ verdict = "accepted"
    BY <1>5 DEF StaticConsume, StaticVerdict
  <2> HIDE DEF clean, verdict, after
  <2> QED BY <1>2, <1>4, <1>5, <2>1 DEF clean
<1>6. CASE clean[s.req].status = "none" /\ s.fallback.status # "none"
  <2>1. after = [clean EXCEPT ![s.req] = Consumed(s.fallback, s.key, clock)] /\ verdict = "accepted"
    BY <1>6 DEF StaticConsume, StaticVerdict
  <2> HIDE DEF clean, verdict, after
  <2> QED BY <1>0, <1>4, <1>6, <2>1 DEF clean
<1>7. CASE clean[s.req].status = "none" /\ s.fallback.status = "none"
  <2>1. after = clean /\ verdict = "missing"
    BY <1>7 DEF StaticConsume, StaticVerdict
  <2> HIDE DEF clean, verdict, after
  <2> QED BY <1>1, <1>7, <2>1 DEF clean
<1>8. CASE clean[s.req].status = "consumed"
  <2>1. after = clean /\ verdict = IF clean[s.req].key = s.key THEN "duplicate" ELSE "conflict"
    BY <1>8 DEF StaticConsume, StaticVerdict
  <2> HIDE DEF clean, verdict, after
  <2> QED BY <1>1, <1>8, <2>1 DEF clean
<1> QED BY <1>2, <1>5, <1>6, <1>7, <1>8

(* Static data has no statements to come between: handlers consume in one   *)
(* step, and none fails.                                                    *)
StaticInv == /\ ReplyInv
             /\ node.backend # "postgres"
             /\ \A h \in Handlers : handler[h].pc \notin Answering /\ handler[h].outcome # "lost"

LEMMA StaticInit == Init /\ node.backend # "postgres" => StaticInv
BY ReplyInit DEF StaticInv, Init, Answering

(* Every step of a handler, with what it says and what it leaves.           *)
LEMMA StaticSteps ==
    ASSUME StaticInv, NEW h \in Handlers,
           HandlerStep(h) \/ HandlerFails(h) \/ \E d \in Deliveries : Receive(h, d)
    PROVE  \E t \in HandlerState :
             /\ Become(h, t) /\ t.pc \notin Answering
             /\ \A r \in Requests : Young(store[r]) => store'[r] = store[r]
             /\ \/ t.outcome \in {"none", "refused", "missing"}
                \/ /\ t.outcome = handler[h].outcome
                   /\ t.req = handler[h].req /\ t.key = handler[h].key
                \/ /\ t.outcome = "accepted" /\ ~Young(store[t.req])
                   /\ store'[t.req].status = "consumed" /\ store'[t.req].key = t.key
                   /\ store'[t.req].consumedAt = clock
                \/ /\ store'[t.req].status = "consumed"
                   /\ t.outcome = IF store'[t.req].key = t.key THEN "duplicate" ELSE "conflict"
<1> DEFINE s == handler[h]
           clean == CleanupExpired(store, clock)
           Step(t) ==
             /\ Become(h, t) /\ t.pc \notin Answering
             /\ \A r \in Requests : Young(store[r]) => store'[r] = store[r]
             /\ \/ t.outcome \in {"none", "refused", "missing"}
                \/ t.outcome = s.outcome /\ t.req = s.req /\ t.key = s.key
                \/ /\ t.outcome = "accepted" /\ ~Young(store[t.req])
                   /\ store'[t.req].status = "consumed" /\ store'[t.req].key = t.key
                   /\ store'[t.req].consumedAt = clock
                \/ /\ store'[t.req].status = "consumed"
                   /\ t.outcome = IF store'[t.req].key = t.key THEN "duplicate" ELSE "conflict"
<1> SUFFICES \E t \in HandlerState : Step(t)
  OBVIOUS
<1>0. /\ TypeOK /\ node.backend # "postgres" /\ ReplyOf(s) /\ s.pc \notin Answering
      /\ s \in HandlerState /\ s.req \in Requests /\ s.in.target \in Requests
      /\ store \in [Requests -> Record]
  BY HandlerParts DEF StaticInv, ReplyInv, TypeOK
<1>c. /\ clean \in [Requests -> Record]
      /\ \A r \in Requests : Young(store[r]) => clean[r] = store[r]
      /\ \A r \in Requests : clean[r] = store[r] \/ clean[r].status = "none"
  BY <1>0, CleanupKeepsYoung
<1>1. ASSUME NEW pc \in PCs \ Answering, Goto(h, pc), store' = store PROVE \E t \in HandlerState : Step(t)
  <2> DEFINE t == [s EXCEPT !.pc = pc]
  <2>1. /\ t \in HandlerState /\ t.outcome = s.outcome /\ t.req = s.req /\ t.key = s.key
        /\ t.pc = pc /\ Become(h, t)
    <3>1. t \in HandlerState
      BY <1>0, HandlerUpdate
    <3>2. t.outcome = s.outcome /\ t.req = s.req /\ t.key = s.key /\ t.pc = pc
      BY <1>0 DEF HandlerState
    <3> QED BY <1>1, <3>1, <3>2 DEF Goto
  <2> HIDE DEF t
  <2> QED BY <1>1, <2>1
<1>2. ASSUME NEW o \in Outcomes, Finish(h, o), \A r \in Requests : Young(store[r]) => store'[r] = store[r],
             \/ o \in {"refused", "missing"}
             \/ /\ store'[s.req].status = "consumed"
                /\ o = IF store'[s.req].key = s.key THEN "duplicate" ELSE "conflict"
      PROVE  \E t \in HandlerState : Step(t)
  <2> DEFINE t == [s EXCEPT !.pc = "done", !.outcome = o]
  <2>1. /\ t \in HandlerState /\ t.outcome = o /\ t.req = s.req /\ t.key = s.key
        /\ t.pc = "done" /\ Become(h, t)
    <3>1. t \in HandlerState
      BY <1>0, HandlerUpdate DEF PCs
    <3>2. t.outcome = o /\ t.req = s.req /\ t.key = s.key /\ t.pc = "done"
      BY <1>0 DEF HandlerState
    <3> QED BY <1>2, <3>1, <3>2 DEF Finish
  <2> HIDE DEF t
  <2> QED BY <1>2, <2>1 DEF Answering
<1>3. ASSUME NEW r \in Requests, NEW rec \in Record, Decide(h, r, rec), s.outcome = "none",
             store' \in {store, clean}
      PROVE  \E t \in HandlerState : Step(t)
  <2>1. CASE Finish(h, "refused")
    BY <1>2, <1>3, <1>c, <2>1 DEF Outcomes
  <2>2. ASSUME NEW q \in Requests, NEW k \in Keys, NEW f \in Record, ProceedWith(h, q, k, f)
        PROVE  \E t \in HandlerState : Step(t)
    <3> DEFINE t == [s EXCEPT !.pc = ConsumePc, !.req = q, !.key = k, !.fallback = f]
    <3>1. t \in HandlerState
      BY <1>0, <2>2, HandlerUpdate
    <3>2. t.outcome = "none" /\ t.pc = "consume" /\ Become(h, t)
      BY <1>0, <1>3, <2>2 DEF HandlerState, ProceedWith, ConsumePc
    <3> HIDE DEF t
    <3> QED BY <1>3, <1>c, <3>1, <3>2 DEF Answering
  <2> QED BY <1>0, <1>3, <2>1, <2>2, DecideCases
<1>4. CASE \E d \in Deliveries : Receive(h, d)
  <2>0. PICK d \in Deliveries : Receive(h, d)
    BY <1>4
  <2> DEFINE refused == [s EXCEPT !.in = d, !.req = d.target, !.pc = "done", !.outcome = "refused"]
             started == [s EXCEPT !.in = d, !.req = d.target, !.pc = FirstLookup(d)]
  <2>1. d \in Delivery /\ FirstLookup(d) \in PCs \ Answering /\ s.outcome = "none" /\ store' = store
    BY <1>0, <2>0, DeliveriesAssumption DEF FirstLookup, PCs, Answering, Receive, ReplyOf
  <2>2. /\ refused \in HandlerState /\ refused.pc = "done" /\ refused.outcome = "refused"
        /\ started \in HandlerState /\ started.pc = FirstLookup(d) /\ started.outcome = "none"
    <3>1. d.target \in Requests
      BY <2>1 DEF Delivery
    <3>2. refused \in HandlerState
      BY <1>0, <2>1, <3>1, HandlerUpdate DEF PCs, Outcomes
    <3>3. started \in HandlerState
      BY <1>0, <2>1, <3>1, HandlerUpdate
    <3>4. refused.pc = "done" /\ refused.outcome = "refused"
      BY <1>0 DEF HandlerState
    <3>5. started.pc = FirstLookup(d) /\ started.outcome = "none"
      BY <1>0, <2>1 DEF HandlerState
    <3> QED BY <3>2, <3>3, <3>4, <3>5
  <2>3. Become(h, refused) \/ Become(h, started)
    BY <2>0 DEF Receive
  <2> HIDE DEF refused, started
  <2> QED BY <2>1, <2>2, <2>3 DEF Answering
<1>5. CASE GetPending(h)
  <2>1. /\ Decide(h, s.in.target, store'[s.in.target]) /\ s.outcome = "none" /\ store' = clean
    BY <1>0, <1>5 DEF GetPending, ReplyOf, Looking
  <2> QED BY <1>0, <1>3, <1>c, <2>1
<1>6. CASE GetByProviderMessageId(h)
  <2>1. /\ s.outcome = "none" /\ store' = store
        /\ Decide(h, s.in.target, store[s.in.target]) \/ Goto(h, "byRecipient")
    BY <1>0, <1>6 DEF GetByProviderMessageId, ReplyOf, Looking
  <2> QED BY <1>0, <1>1, <1>3, <2>1 DEF PCs, Answering
<1>7. CASE GetLatestByRecipient(h)
  <2>1. /\ s.outcome = "none" /\ store' = store
        /\ Finish(h, "refused") \/ \E r \in Requests : Decide(h, r, store[r])
    BY <1>0, <1>7 DEF GetLatestByRecipient, LatestByRecipient, PendingOf, ReplyOf, Looking
  <2> QED BY <1>0, <1>2, <1>3, <2>1 DEF Outcomes
<1>8. CASE ConsumeStatic(h)
  <2>0. s.key \in Keys
    BY <1>0, <1>8 DEF ConsumeStatic, ReplyOf, Consuming
  <2>1. CASE /\ clean[s.req].status \in {"none", "pending"}
             /\ store'[s.req].status = "consumed" /\ store'[s.req].key = s.key
             /\ store'[s.req].consumedAt = clock
             /\ \A x \in Requests \ {s.req} : store'[x] = clean[x]
             /\ Accept(h, store'[s.req]) /\ store'[s.req] \in Record
    <3> DEFINE t == [s EXCEPT !.pc = "accepted", !.outcome = "accepted",
                              !.resumable = store'[s.req].session]
    <3>1. /\ t \in HandlerState /\ t.outcome = "accepted" /\ t.pc = "accepted"
          /\ t.req = s.req /\ t.key = s.key /\ Become(h, t)
      <4>1. t \in HandlerState
        <5> DEFINE rec == store'[s.req]
        <5>1. rec \in Record
          BY <2>1
        <5> HIDE DEF rec
        <5>2. [s EXCEPT !.pc = "accepted", !.outcome = "accepted", !.resumable = rec.session] \in HandlerState
          BY <1>0, <5>1, HandlerUpdate
        <5> QED BY <5>2 DEF rec
      <4>2. t.outcome = "accepted" /\ t.pc = "accepted" /\ t.req = s.req /\ t.key = s.key
        BY <1>0 DEF HandlerState
      <4> QED BY <2>1, <4>1, <4>2 DEF Accept
    <3>2. ~Young(store[s.req])
      BY <1>0, <1>c, <2>1 DEF Young
    <3> HIDE DEF t, clean
    <3>3. \A r \in Requests : Young(store[r]) => store'[r] = store[r]
      BY <1>c, <2>1, <3>2
    <3> QED BY <2>1, <3>1, <3>2, <3>3 DEF Answering
  <2>2. CASE clean[s.req].status = "none" /\ store' = clean /\ Finish(h, "missing")
    BY <1>2, <1>c, <2>2 DEF Outcomes
  <2>3. CASE /\ clean[s.req].status = "consumed" /\ store' = clean
             /\ Finish(h, IF clean[s.req].key = s.key THEN "duplicate" ELSE "conflict")
    <3> DEFINE o == IF clean[s.req].key = s.key THEN "duplicate" ELSE "conflict"
    <3>1. o \in Outcomes
      BY DEF Outcomes
    <3>2. Finish(h, o) /\ o = IF store'[s.req].key = s.key THEN "duplicate" ELSE "conflict"
      BY <2>3
    <3>3. /\ store'[s.req].status = "consumed"
          /\ \A r \in Requests : Young(store[r]) => store'[r] = store[r]
      BY <1>c, <2>3
    <3> HIDE DEF o, clean
    <3> QED BY <1>2, <3>1, <3>2, <3>3
  <2> HIDE DEF clean
  <2> QED BY <1>0, <1>8, <2>0, <2>1, <2>2, <2>3, ConsumeCases DEF clean
<1>9. CASE Emit(h)
  BY <1>1, <1>9 DEF Emit, PCs, Answering
<1>10. CASE HandlerFails(h)
  BY <1>0, <1>10 DEF HandlerFails
<1>11. CASE UpdatePending(h) \/ SelectExisting(h) \/ InsertFallback(h) \/ SelectRaced(h)
  BY <1>0, <1>11 DEF UpdatePending, SelectExisting, InsertFallback, SelectRaced, Answering
<1> QED BY <1>4, <1>5, <1>6, <1>7, <1>8, <1>9, <1>10, <1>11 DEF HandlerStep

(* Other steps leave the handlers and the young tombstones alone.           *)
LEMMA StaticSaves ==
    ASSUME StaticInv, Tick \/ UNCHANGED vars \/ \E r \in Requests : DispatchStep(r)
    PROVE  /\ handler' = handler /\ node' = node
           /\ \A r \in Requests : Young(store[r]) => store'[r] = store[r]
<1>1. CASE Tick \/ UNCHANGED vars
  BY <1>1 DEF Tick, vars, dispatchVars
<1>2. ASSUME NEW x \in Requests, DispatchStep(x)
      PROVE  /\ handler' = handler /\ node' = node
             /\ \A r \in Requests : Young(store[r]) => store'[r] = store[r]
  <2>0. TypeOK /\ node.backend # "postgres"
    BY DEF StaticInv, ReplyInv
  <2>1. ASSUME NEW rec, store' = Saved(x, rec)
        PROVE  \A r \in Requests : Young(store[r]) => store'[r] = store[r]
    BY <2>0, <2>1, SaveKeepsYoung
  <2> QED BY <1>2, <2>1 DEF DispatchStep, SavePending, SaveMessageId, SendMessage, SaveFails,
                           RetryDispatch
<1> QED BY <1>1, <1>2

LEMMA StaticNext == StaticInv /\ [Next]_vars => StaticInv'
<1> SUFFICES ASSUME StaticInv, [Next]_vars PROVE StaticInv'
  OBVIOUS
<1>0. ReplyInv' /\ handler \in [Handlers -> HandlerState]
  BY ReplyNext DEF StaticInv, ReplyInv, TypeOK
<1>1. CASE Tick \/ UNCHANGED vars \/ \E r \in Requests : DispatchStep(r)
  BY <1>0, <1>1, StaticSaves DEF StaticInv
<1>2. ASSUME NEW h \in Handlers,
             HandlerStep(h) \/ HandlerFails(h) \/ \E d \in Deliveries : Receive(h, d)
      PROVE  StaticInv'
  <2>1. PICK t \in HandlerState : Become(h, t) /\ t.pc \notin Answering /\ t.outcome # "lost"
    <3>1. handler[h].outcome # "lost"
      BY DEF StaticInv
    <3> QED BY <1>2, <3>1, StaticSteps
  <2>2. \A g \in Handlers : handler'[g].pc \notin Answering /\ handler'[g].outcome # "lost"
    BY <1>0, <2>1 DEF Become, StaticInv
  <2>3. node' = node
    BY <1>2 DEF HandlerStep, HandlerFails, Receive, GetPending, GetByProviderMessageId,
                GetLatestByRecipient, ConsumeStatic, UpdatePending, SelectExisting,
                InsertFallback, SelectRaced, Emit, dispatchVars
  <2> QED BY <1>0, <2>2, <2>3 DEF StaticInv
<1> QED BY <1>1, <1>2 DEF Next

(* With static data, and whatever the time, a tombstone stays as it is      *)
(* until it is older than CONSUMED_MAX_AGE_MS: no late save, no retry and   *)
(* no other decision replaces it, and no cleanup drops it.                  *)
THEOREM TombstonesStay ==
    Spec /\ node.backend # "postgres" =>
        [][\A r \in Requests : Young(store[r]) => store'[r] = store[r]]_vars
<1>1. StaticInv /\ [Next]_vars => \A r \in Requests : Young(store[r]) => store'[r] = store[r]
  BY StaticSaves, StaticSteps DEF Next
<1> QED BY <1>1, StaticInit, StaticNext, PTL DEF Spec

(* What holds for as long as no tombstone can be too old.                   *)
InWindow == clock <= ConsumedMaxAge => AtMostOneAccepted /\ VerdictsMatchStore

LEMMA YoungInWindow ==
    ASSUME TypeOK, clock <= ConsumedMaxAge, NEW r \in Requests, store[r].status = "consumed"
    PROVE  Young(store[r])
BY DEF TypeOK, Record, Young

LEMMA WindowNext == StaticInv /\ InWindow /\ [Next]_vars => InWindow'
<1> SUFFICES ASSUME StaticInv, InWindow, [Next]_vars, clock' <= ConsumedMaxAge
             PROVE  AtMostOneAccepted' /\ VerdictsMatchStore'
  BY DEF InWindow
<1>0. TypeOK /\ clock \in Nat /\ handler \in [Handlers -> HandlerState]
  BY DEF StaticInv, ReplyInv, TypeOK
<1>1. clock' \in {clock, clock + 1}
  BY DEF Next, Tick, vars, DispatchStep, SavePending, SendMessage, SaveMessageId, SaveFails,
         RetryDispatch, Receive, HandlerStep, HandlerFails, GetPending, GetByProviderMessageId,
         GetLatestByRecipient, ConsumeStatic, UpdatePending, SelectExisting, InsertFallback,
         SelectRaced, Emit
<1>2. AtMostOneAccepted /\ VerdictsMatchStore /\ clock <= ConsumedMaxAge
  BY <1>0, <1>1 DEF InWindow
<1>3. ASSUME NEW r \in Requests, store[r].status = "consumed"
      PROVE  Young(store[r])
  BY <1>0, <1>2, <1>3, YoungInWindow
<1>4. ASSUME NEW h \in Handlers
      PROVE  /\ handler[h].req \in Requests
             /\ handler[h].outcome \in {"accepted", "lost", "duplicate"} =>
                   store[handler[h].req].status = "consumed" /\ store[handler[h].req].key = handler[h].key
             /\ handler[h].outcome = "conflict" =>
                   store[handler[h].req].status = "consumed" /\ store[handler[h].req].key # handler[h].key
  BY <1>0, <1>2 DEF HandlerState, VerdictsMatchStore, VerdictMatches
<1>l. \A h \in Handlers : handler[h].outcome # "lost"
  BY DEF StaticInv
<1>5. CASE Tick \/ UNCHANGED vars \/ \E r \in Requests : DispatchStep(r)
  <2>1. handler' = handler /\ \A r \in Requests : Young(store[r]) => store'[r] = store[r]
    BY <1>5, StaticSaves
  <2>2. AtMostOneAccepted'
    BY <1>2, <2>1 DEF AtMostOneAccepted, Winners
  <2>3. VerdictsMatchStore'
    BY <1>3, <1>4, <2>1 DEF VerdictsMatchStore, VerdictMatches
  <2> QED BY <2>2, <2>3
<1>6. ASSUME NEW h \in Handlers,
             HandlerStep(h) \/ HandlerFails(h) \/ \E d \in Deliveries : Receive(h, d)
      PROVE  AtMostOneAccepted' /\ VerdictsMatchStore'
  <2>0. PICK t \in HandlerState :
          /\ Become(h, t)
          /\ \A r \in Requests : Young(store[r]) => store'[r] = store[r]
          /\ \/ t.outcome \in {"none", "refused", "missing"}
             \/ t.outcome = handler[h].outcome /\ t.req = handler[h].req /\ t.key = handler[h].key
             \/ /\ t.outcome = "accepted" /\ ~Young(store[t.req])
                /\ store'[t.req].status = "consumed" /\ store'[t.req].key = t.key
             \/ /\ store'[t.req].status = "consumed"
                /\ t.outcome = IF store'[t.req].key = t.key THEN "duplicate" ELSE "conflict"
    BY <1>6, StaticSteps
  <2>1. handler'[h] = t /\ \A g \in Handlers \ {h} : handler'[g] = handler[g]
    BY <1>0, <2>0 DEF Become
  <2>2. ASSUME NEW g \in Handlers \ {h}
        PROVE  VerdictMatches(g)'
    BY <1>3, <1>4, <2>0, <2>1 DEF VerdictMatches
  <2>3. VerdictMatches(h)'
    BY <1>3, <1>4, <1>l, <2>0, <2>1 DEF VerdictMatches
  (* The new winner found no tombstone, so nobody had won before.           *)
  <2>4. ASSUME NEW g \in Handlers \ {h}, handler[g].outcome = "accepted",
               t.outcome = "accepted", t.req = handler[g].req
        PROVE  FALSE
    <3>1. Young(store[t.req])
      BY <1>3, <1>4, <2>4
    <3>2. handler[h].outcome = "accepted" /\ handler[h].req = handler[g].req
      BY <2>0, <2>4, <3>1
    <3> QED BY <1>2, <1>4, <2>4, <3>2 DEF AtMostOneAccepted, Winners
  <2>5. AtMostOneAccepted'
    <3>1. t.outcome # "lost"
      BY <1>l, <2>0
    <3> QED BY <1>2, <1>l, <2>1, <2>4, <3>1 DEF AtMostOneAccepted, Winners
  <2> QED BY <2>2, <2>3, <2>5 DEF VerdictsMatchStore
<1> QED BY <1>5, <1>6 DEF Next

LEMMA WindowInit == Init => InWindow
BY DEF Init, InWindow, AtMostOneAccepted, Winners, VerdictsMatchStore, VerdictMatches

(* "Each HITL request should be consumed once", with static data: however   *)
(* many deliveries race and whatever records expire in between, at most one *)
(* handler of a request is told 'accepted', until the first tombstone may   *)
(* be dropped.                                                              *)
THEOREM StaticAcceptedOnce ==
    Spec /\ node.backend # "postgres" => [](clock <= ConsumedMaxAge => AtMostOneAccepted)
<1>1. InWindow => (clock <= ConsumedMaxAge => AtMostOneAccepted)
  BY DEF InWindow
<1> QED BY <1>1, StaticInit, StaticNext, WindowInit, WindowNext, PTL DEF Spec

(* And until then what each human was told of the decision, accepted,       *)
(* duplicate or conflict, stays true of the records.                        *)
THEOREM StaticVerdictsTrue ==
    Spec /\ node.backend # "postgres" => [](clock <= ConsumedMaxAge => VerdictsMatchStore)
<1>1. InWindow => (clock <= ConsumedMaxAge => VerdictsMatchStore)
  BY DEF InWindow
<1> QED BY <1>1, StaticInit, StaticNext, WindowInit, WindowNext, PTL DEF Spec

-----------------------------------------------------------------------------
(***************************************************************************)
(* Static data implements the register too, until the first tombstone may  *)
(* be dropped.  Its cleanup writes the store in lookups, saves and         *)
(* consumes; the keys of the records do not show it.                       *)
(***************************************************************************)
KeyedRecords == \A r \in Requests : store[r].status = "consumed" <=> store[r].key # NoKey

LEMMA CleanupKeys ==
    ASSUME TypeOK, KeyedRecords, NEW r \in Requests
    PROVE  LET clean == CleanupExpired(store, clock) IN
           /\ clean[r].status = "consumed" <=> clean[r].key # NoKey
           /\ clock <= ConsumedMaxAge => clean[r].key = store[r].key
<1> DEFINE clean == CleanupExpired(store, clock)
<1>1. clean[r] = store[r] \/ clean[r] = NoRecord
  BY DEF CleanupExpired
<1>2. NoRecord.status = "none" /\ NoRecord.key = NoKey
  BY DEF NoRecord
<1>3. store[r].status = "consumed" /\ clock <= ConsumedMaxAge => clean[r] = store[r]
  BY YoungInWindow, CleanupKeepsYoung
<1> HIDE DEF clean
<1>4. store[r].status = "consumed" <=> store[r].key # NoKey
  BY DEF KeyedRecords
<1>5. clean[r].status = "consumed" <=> clean[r].key # NoKey
  BY <1>1, <1>2, <1>4
<1>6. clock <= ConsumedMaxAge => clean[r].key = store[r].key
  BY <1>1, <1>2, <1>3, <1>4
<1> QED BY <1>5, <1>6 DEF clean

(* A save adds a pending record, which has no key, or nothing.              *)
LEMMA StaticSaveKeys ==
    ASSUME TypeOK, node.backend # "postgres", KeyedRecords, NEW x \in Requests, NEW n, NEW b,
           store' = Saved(x, RequestRecord(x, node.timeoutMs, n, b))
    PROVE  KeyedRecords' /\ (clock <= ConsumedMaxAge => KeysStay)
<1> DEFINE clean == CleanupExpired(store, clock)
           rec   == RequestRecord(x, node.timeoutMs, n, b)
<1>1. /\ clean \in [Requests -> Record]
      /\ \A r \in Requests : /\ clean[r].status = "consumed" <=> clean[r].key # NoKey
                             /\ clock <= ConsumedMaxAge => clean[r].key = store[r].key
  BY CleanupKeepsYoung, CleanupKeys
<1>2. rec.status = "pending" /\ rec.key = NoKey
  BY DEF RequestRecord, NoRecord
<1>3. store' = IF clean[x].status = "consumed" THEN clean ELSE [clean EXCEPT ![x] = rec]
  BY DEF Saved, StaticSave
<1> HIDE DEF clean, rec
<1>4. ASSUME NEW r \in Requests
      PROVE  /\ store'[r].status = "consumed" <=> store'[r].key # NoKey
             /\ clock <= ConsumedMaxAge => store'[r].key = store[r].key
  <2>1. store'[r] = clean[r] \/ (r = x /\ clean[r].status # "consumed" /\ store'[r] = rec)
    BY <1>1, <1>3
  <2> QED BY <1>1, <1>2, <2>1
<1>5. clock <= ConsumedMaxAge => KeysStay
  BY <1>4 DEF KeysStay
<1> QED BY <1>4, <1>5 DEF KeyedRecords

(* A lookup only cleans up.                                                 *)
LEMMA CleanupStep ==
    ASSUME TypeOK, KeyedRecords, store' \in {store, CleanupExpired(store, clock)}
    PROVE  KeyedRecords' /\ (clock <= ConsumedMaxAge => KeysStay)
<1>1. ASSUME NEW r \in Requests
      PROVE  /\ store'[r].status = "consumed" <=> store'[r].key # NoKey
             /\ clock <= ConsumedMaxAge => store'[r].key = store[r].key
  BY <1>1, CleanupKeys DEF KeyedRecords
<1>2. clock <= ConsumedMaxAge => KeysStay
  BY <1>1 DEF KeysStay
<1> QED BY <1>1, <1>2 DEF KeyedRecords

(* What the static consume is to the register.                              *)
LEMMA StaticAnswer ==
    ASSUME StaticInv, KeyedRecords, NEW h \in Handlers, ConsumeStatic(h)
    PROVE  /\ KeyedRecords'
           /\ clock <= ConsumedMaxAge => Once!Next
<1> DEFINE s == handler[h]
           clean == CleanupExpired(store, clock)
<1>0. /\ TypeOK /\ s.key \in Keys /\ s.outcome = "none" /\ s \in HandlerState /\ s.req \in Requests
      /\ NoKey \notin Keys
  BY HandlerParts DEF StaticInv, ReplyInv, ReplyOf, ConsumeStatic, Consuming, Keys, Approvals, NoKey
<1>1. /\ clean \in [Requests -> Record]
      /\ \A r \in Requests : /\ clean[r].status = "consumed" <=> clean[r].key # NoKey
                             /\ clock <= ConsumedMaxAge => clean[r].key = store[r].key
  BY <1>0, CleanupKeepsYoung, CleanupKeys
<1>2. ASSUME NEW o \in {"missing", "duplicate", "conflict"}, Finish(h, o)
      PROVE  \E t : /\ Become(h, t) /\ t.outcome = o /\ AskedOf(t) = AskedOf(s)
  <2> DEFINE t == [s EXCEPT !.pc = "done", !.outcome = o]
  <2>1. t.key = s.key /\ t.req = s.req /\ t.outcome = o /\ Become(h, t)
    BY <1>0, <1>2 DEF HandlerState, Finish
  <2> HIDE DEF t
  <2> QED BY <2>1 DEF AskedOf
<1>3. CASE /\ clean[s.req].status \in {"none", "pending"}
           /\ store'[s.req].status = "consumed" /\ store'[s.req].key = s.key
           /\ \A x \in Requests \ {s.req} : store'[x] = clean[x]
           /\ Accept(h, store'[s.req]) /\ store'[s.req] \in Record
  <2> DEFINE t == [s EXCEPT !.pc = "accepted", !.outcome = "accepted",
                            !.resumable = store'[s.req].session]
  <2>1. t.key = s.key /\ t.req = s.req /\ t.outcome = "accepted" /\ Become(h, t)
    BY <1>0, <1>3 DEF HandlerState, Accept
  <2> HIDE DEF t, clean
  <2>2. KeyedRecords'
    BY <1>0, <1>1, <1>3 DEF KeyedRecords
  <2>3. ASSUME clock <= ConsumedMaxAge PROVE Once!Next
    <3>1. store[s.req].key = NoKey
      BY <1>0, <1>1, <1>3, <2>3
    <3>2. [x \in Requests |-> store'[x].key]
            = [[x \in Requests |-> store[x].key] EXCEPT ![s.req] = s.key]
      <4>1. \A x \in Requests \ {s.req} : store'[x].key = store[x].key
        BY <1>1, <1>3, <2>3
      <4>2. store'[s.req].key = s.key
        BY <1>3
      <4> QED BY <4>1, <4>2
    <3>3. AskedOf(t) = AskedOf(s)
      BY <2>1 DEF AskedOf
    <3>4. Once!Answer(h)
      BY <1>0, <2>1, <3>1, <3>2, <3>3, AnswerStep
    <3> QED BY <3>4 DEF Once!Next
  <2> QED BY <2>2, <2>3
<1>4. CASE clean[s.req].status = "none" /\ store' = clean /\ Finish(h, "missing")
  <2>1. KeyedRecords' /\ (clock <= ConsumedMaxAge => KeysStay)
    BY <1>0, <1>4, CleanupStep
  <2>2. PICK t : Become(h, t) /\ t.outcome = "missing" /\ AskedOf(t) = AskedOf(s)
    BY <1>2, <1>4
  <2>3. ASSUME clock <= ConsumedMaxAge PROVE Once!Next
    <3>1. Once!Refuse(h)
      BY <1>0, <2>1, <2>2, <2>3, RefuseStep
    <3> QED BY <3>1 DEF Once!Next
  <2> QED BY <2>1, <2>3
<1>5. CASE /\ clean[s.req].status = "consumed" /\ store' = clean
           /\ Finish(h, IF clean[s.req].key = s.key THEN "duplicate" ELSE "conflict")
  <2> DEFINE o == IF clean[s.req].key = s.key THEN "duplicate" ELSE "conflict"
  <2>1. KeyedRecords' /\ (clock <= ConsumedMaxAge => KeysStay)
    BY <1>0, <1>5, CleanupStep
  <2>2. PICK t : Become(h, t) /\ t.outcome = o /\ AskedOf(t) = AskedOf(s)
    <3>1. Finish(h, o) /\ o \in {"missing", "duplicate", "conflict"}
      BY <1>5
    <3> HIDE DEF o
    <3> QED BY <1>2, <3>1
  <2>3. ASSUME clock <= ConsumedMaxAge PROVE Once!Next
    <3>1. store[s.req].key = clean[s.req].key /\ store[s.req].key # NoKey
      <4> HIDE DEF clean
      <4> QED BY <1>0, <1>1, <1>5, <2>3
    <3>2. t.outcome = IF store[s.req].key = s.key THEN "duplicate" ELSE "conflict"
      BY <2>2, <3>1
    <3>3. KeysStay
      BY <2>1, <2>3
    <3>4. Once!Answer(h)
      BY <1>0, <2>2, <3>1, <3>2, <3>3, AnswerStep
    <3> QED BY <3>4 DEF Once!Next
  <2> QED BY <2>1, <2>3
<1> HIDE DEF clean
<1> QED BY <1>0, <1>3, <1>4, <1>5, ConsumeCases DEF clean

(* Every step over static data is one of the register, or does not show.    *)
LEMMA StaticRegisterStep ==
    ASSUME StaticInv, KeyedRecords, [Next]_vars
    PROVE  /\ KeyedRecords'
           /\ clock <= ConsumedMaxAge => Once!Next \/ UNCHANGED OnceVars
<1> DEFINE Shown == clock <= ConsumedMaxAge => Once!Next \/ UNCHANGED OnceVars
<1>0. TypeOK /\ node.backend # "postgres"
  BY DEF StaticInv, ReplyInv
<1>1. ASSUME store' \in {store, CleanupExpired(store, clock)}
      PROVE  KeyedRecords' /\ (clock <= ConsumedMaxAge => KeysStay)
  BY <1>0, <1>1, CleanupStep
<1>2. ASSUME Tick \/ UNCHANGED vars PROVE KeyedRecords' /\ Shown
  <2>1. store' = store /\ handler' = handler
    BY <1>2 DEF Tick, vars, dispatchVars
  <2>2. KeyedRecords' /\ Shown
    BY <2>1 DEF KeyedRecords, OnceVars
  <2> QED BY <2>2
<1>3. ASSUME NEW r \in Requests, DispatchStep(r) PROVE KeyedRecords' /\ Shown
  <2>1. handler' = handler
    BY <1>3 DEF DispatchStep, SavePending, SaveMessageId, SendMessage, SaveFails, RetryDispatch
  <2>2. CASE store' = store
    BY <2>1, <2>2 DEF KeyedRecords, OnceVars
  <2>3. ASSUME NEW n, NEW b, store' = Saved(r, RequestRecord(r, node.timeoutMs, n, b))
        PROVE  KeyedRecords' /\ Shown
    <3>1. KeyedRecords' /\ (clock <= ConsumedMaxAge => KeysStay)
      BY <1>0, <2>3, StaticSaveKeys
    <3> QED BY <2>1, <3>1 DEF KeysStay, OnceVars
  <2> QED BY <1>3, <2>2, <2>3 DEF DispatchStep, SavePending, SaveMessageId, SendMessage,
                                  SaveFails, RetryDispatch
<1>4. ASSUME NEW h \in Handlers,
             HandlerStep(h) \/ HandlerFails(h) \/ \E d \in Deliveries : Receive(h, d)
      PROVE  KeyedRecords' /\ Shown
  <2> DEFINE s == handler[h]
             clean == CleanupExpired(store, clock)
  <2>0. /\ s \in HandlerState /\ s.req \in Requests /\ s.in.target \in Requests
        /\ ReplyOf(s) /\ s.pc \notin Answering
        /\ store \in [Requests -> Record] /\ clean \in [Requests -> Record]
        /\ \A k \in Keys : k # NoKey
    BY <1>0, HandlerParts, CleanupKeepsYoung DEF StaticInv, ReplyInv, TypeOK, Keys, Approvals, NoKey
  <2>1. ASSUME NEW pc, Goto(h, pc), KeysStay PROVE UNCHANGED OnceVars
    <3> DEFINE t == [s EXCEPT !.pc = pc]
    <3>1. t.key = s.key /\ t.req = s.req /\ t.outcome = s.outcome /\ Become(h, t)
      BY <2>0, <2>1 DEF HandlerState, Goto
    <3> HIDE DEF t
    <3> QED BY <1>0, <2>1, <3>1, SilentStep DEF AskedOf, VerdictOf
  <2>2. ASSUME NEW r \in Requests, NEW rec \in Record, Decide(h, r, rec), KeysStay,
               s.key = NoKey, s.outcome = "none"
        PROVE  Once!Next
    <3>1. CASE Finish(h, "refused")
      <4> DEFINE t == [s EXCEPT !.pc = "done", !.outcome = "refused"]
      <4>1. t.key = s.key /\ t.req = s.req /\ t.outcome = "refused" /\ Become(h, t)
        BY <2>0, <3>1 DEF HandlerState, Finish
      <4> HIDE DEF t
      <4>2. Once!Refuse(h)
        BY <1>0, <2>2, <4>1, RefuseStep DEF AskedOf
      <4> QED BY <4>2 DEF Once!Next
    <3>2. ASSUME NEW q \in Requests, NEW k \in Keys, NEW f \in Record, ProceedWith(h, q, k, f)
          PROVE  Once!Next
      <4> DEFINE t == [s EXCEPT !.pc = ConsumePc, !.req = q, !.key = k, !.fallback = f]
      <4>1. t.key = k /\ t.req = q /\ t.outcome = s.outcome /\ Become(h, t) /\ k # NoKey
        BY <2>0, <3>2 DEF HandlerState, ProceedWith
      <4> HIDE DEF t
      <4>2. Once!Ask(h, q, k)
        BY <1>0, <2>2, <4>1, AskStep DEF AskedOf, VerdictOf
      <4> QED BY <4>2 DEF Once!Next
    <3> QED BY <1>0, <2>2, <3>1, <3>2, DecideCases
  <2>3. CASE \E d \in Deliveries : Receive(h, d)
    <3>0. PICK d \in Deliveries : Receive(h, d)
      BY <2>3
    <3> DEFINE refused == [s EXCEPT !.in = d, !.req = d.target, !.pc = "done", !.outcome = "refused"]
               started == [s EXCEPT !.in = d, !.req = d.target, !.pc = FirstLookup(d)]
    <3>1. s.key = NoKey /\ s.outcome = "none" /\ store' = store
      BY <2>0, <3>0 DEF Receive, ReplyOf
    <3>2. /\ refused.key = NoKey /\ refused.outcome = "refused"
          /\ started.key = NoKey /\ started.outcome = "none"
      BY <2>0, <3>1 DEF HandlerState
    <3>3. Become(h, refused) \/ Become(h, started)
      BY <3>0 DEF Receive
    <3>4. KeyedRecords' /\ (clock <= ConsumedMaxAge => KeysStay)
      BY <1>1, <3>1
    <3> HIDE DEF refused, started
    <3>5. ASSUME Become(h, refused), KeysStay PROVE Once!Next
      <4>1. Once!Refuse(h)
        BY <1>0, <3>1, <3>2, <3>5, RefuseStep DEF AskedOf
      <4> QED BY <4>1 DEF Once!Next
    <3>6. ASSUME Become(h, started), KeysStay PROVE UNCHANGED OnceVars
      BY <1>0, <3>1, <3>2, <3>6, SilentStep DEF AskedOf, VerdictOf
    <3> QED BY <3>3, <3>4, <3>5, <3>6
  <2>4. ASSUME NEW r \in Requests, NEW rec \in Record, Decide(h, r, rec), s.pc \in Looking,
               store' \in {store, clean}
        PROVE  KeyedRecords' /\ Shown
    <3>1. s.key = NoKey /\ s.outcome = "none"
      BY <2>0, <2>4 DEF ReplyOf
    <3>2. KeyedRecords' /\ (clock <= ConsumedMaxAge => KeysStay)
      BY <1>1, <2>4
    <3> QED BY <2>2, <2>4, <3>1, <3>2
  <2>5. CASE GetPending(h)
    <3>1. store' = clean /\ Decide(h, s.in.target, clean[s.in.target]) /\ s.pc \in Looking
      BY <1>0, <2>5 DEF GetPending, Looking
    <3>2. clean[s.in.target] \in Record
      BY <2>0
    <3> HIDE DEF clean
    <3> QED BY <2>0, <2>4, <3>1, <3>2
  <2>6. CASE GetByProviderMessageId(h)
    <3>1. /\ store' = store /\ s.pc \in Looking
          /\ Decide(h, s.in.target, store[s.in.target]) \/ Goto(h, "byRecipient")
      BY <2>6 DEF GetByProviderMessageId, Looking
    <3>2. store[s.in.target] \in Record /\ (KeyedRecords' /\ (clock <= ConsumedMaxAge => KeysStay))
      BY <1>1, <2>0, <3>1
    <3> QED BY <2>0, <2>1, <2>4, <3>1, <3>2
  <2>7. CASE GetLatestByRecipient(h)
    <3>1. /\ store' = store /\ s.pc \in Looking
          /\ Finish(h, "refused") \/ \E r \in Requests : Decide(h, r, store[r])
      BY <2>7 DEF GetLatestByRecipient, LatestByRecipient, PendingOf, Looking
    <3>2. CASE Finish(h, "refused")
      <4> DEFINE t == [s EXCEPT !.pc = "done", !.outcome = "refused"]
      <4>1. t.key = s.key /\ t.req = s.req /\ t.outcome = "refused" /\ Become(h, t)
        BY <2>0, <3>2 DEF HandlerState, Finish
      <4>2. KeyedRecords' /\ (clock <= ConsumedMaxAge => KeysStay) /\ s.outcome = "none"
        BY <1>1, <2>0, <3>1 DEF ReplyOf
      <4> HIDE DEF t
      <4>3. KeysStay => Once!Refuse(h)
        BY <1>0, <4>1, <4>2, RefuseStep DEF AskedOf
      <4> QED BY <4>2, <4>3 DEF Once!Next
    <3>3. ASSUME NEW r \in Requests, Decide(h, r, store[r]) PROVE KeyedRecords' /\ Shown
      <4>1. store[r] \in Record
        BY <2>0
      <4> QED BY <2>4, <3>1, <3>3, <4>1
    <3> QED BY <3>1, <3>2, <3>3
  <2>8. CASE ConsumeStatic(h)
    BY <2>8, StaticAnswer
  <2>9. CASE Emit(h)
    <3>1. store' = store /\ Goto(h, "emitted")
      BY <2>9 DEF Emit
    <3>2. KeyedRecords' /\ (clock <= ConsumedMaxAge => KeysStay)
      BY <1>1, <3>1
    <3> QED BY <2>1, <3>1, <3>2
  <2>10. ~HandlerFails(h)
    BY <1>0 DEF HandlerFails
  <2>11. ~(UpdatePending(h) \/ SelectExisting(h) \/ InsertFallback(h) \/ SelectRaced(h))
    BY <2>0 DEF UpdatePending, SelectExisting, InsertFallback, SelectRaced, Answering
  <2> QED BY <1>4, <2>3, <2>5, <2>6, <2>7, <2>8, <2>9, <2>10, <2>11 DEF HandlerStep
<1>5. \/ Tick \/ UNCHANGED vars
      \/ \E r \in Requests : DispatchStep(r)
      \/ \E h \in Handlers :
            HandlerStep(h) \/ HandlerFails(h) \/ \E d \in Deliveries : Receive(h, d)
  BY DEF Next
<1>6. KeyedRecords' /\ Shown
  <2> HIDE DEF Shown
  <2> QED BY <1>2, <1>3, <1>4, <1>5
<1> QED BY <1>6

(* Over static data a decision is as final as over Postgres, and the        *)
(* consume implements the same register, until the first tombstone may be   *)
(* dropped.                                                                 *)
THEOREM StaticImplementsOnce ==
    Spec /\ node.backend # "postgres" /\ [](clock <= ConsumedMaxAge) => ImplementsOnceDecision
<1>1. Init => Once!Init /\ KeyedRecords
  BY DEF Init, Once!Init, NoRecord, KeyedRecords
<1>2. StaticInv /\ KeyedRecords /\ [Next]_vars => KeyedRecords'
  BY StaticRegisterStep
<1>3. StaticInv /\ KeyedRecords /\ clock <= ConsumedMaxAge /\ [Next]_vars => [Once!Next]_OnceVars
  BY StaticRegisterStep
<1> QED
  BY <1>1, <1>2, <1>3, StaticInit, StaticNext, PTL
  DEF Spec, ImplementsOnceDecision, Once!Spec, OnceVars

THEOREM StaticDecisionsAreFinal ==
    Spec /\ node.backend # "postgres" /\ [](clock <= ConsumedMaxAge) => DecisionIsFinal
<1>1. StaticInv /\ clock <= ConsumedMaxAge /\ [Next]_vars =>
        [\A r \in Requests : store[r].status = "consumed" =>
            store'[r].status = "consumed" /\ store'[r].key = store[r].key]_store
  <2> SUFFICES ASSUME StaticInv, clock <= ConsumedMaxAge, [Next]_vars,
                      NEW r \in Requests, store[r].status = "consumed"
               PROVE  store'[r] = store[r]
    OBVIOUS
  <2>1. Young(store[r])
    BY YoungInWindow DEF StaticInv, ReplyInv
  <2> QED BY <2>1, StaticSaves, StaticSteps DEF Next
<1> QED BY <1>1, StaticInit, StaticNext, PTL DEF Spec, DecisionIsFinal

-----------------------------------------------------------------------------
(***************************************************************************)
(* The decisions in time, with either store.  The two stores differ in     *)
(* what they keep and agree in what is argued from it: a kept record stays *)
(* as it is, and a handler answers from the record it leaves.              *)
(***************************************************************************)
TimedInv == /\ ReplyInv
            /\ ConsumeInv \/ StaticInv
            /\ decidedAt \in [Handlers -> Nat]
            /\ VerdictsLast
            /\ AcceptancesApart

(* What the store still keeps of a decision.                                *)
KeptRecord(r) == store[r].status = "consumed" /\ (node.backend = "postgres" \/ Young(store[r]))

LEMMA TimedSteps == [TimedNext]_timedVars => [Next]_vars /\ (Remember \/ UNCHANGED <<handler, decidedAt>>)
BY DEF TimedNext, Next, timedVars, vars

(* Remembering the times adds no behaviour: what is proved of the channel   *)
(* nodes holds of them with their history.                                  *)
THEOREM TimesAreHistory == TimedSpec => Spec
<1>1. TimedInit => Init
  BY DEF TimedInit
<1>2. [TimedNext]_timedVars => [Next]_vars
  BY TimedSteps
<1> QED BY <1>1, <1>2, PTL DEF TimedSpec, Spec

LEMMA ClockMoves == TypeOK /\ [Next]_vars => clock \in Nat /\ clock' \in {clock, clock + 1}
BY DEF TypeOK, Next, Tick, vars, DispatchStep, SavePending, SendMessage, SaveMessageId, SaveFails,
       RetryDispatch, Receive, HandlerStep, HandlerFails, GetPending, GetByProviderMessageId,
       GetLatestByRecipient, ConsumeStatic, UpdatePending, SelectExisting, InsertFallback,
       SelectRaced, Emit

LEMMA NodeFixed == [Next]_vars => node' = node
BY DEF Next, Tick, vars, dispatchVars, DispatchStep, SavePending, SendMessage, SaveMessageId, SaveFails,
       RetryDispatch, Receive, HandlerStep, HandlerFails, GetPending, GetByProviderMessageId,
       GetLatestByRecipient, ConsumeStatic, UpdatePending, SelectExisting, InsertFallback,
       SelectRaced, Emit

(* A step of a handler changes that handler only.                           *)
LEMMA OneHandlerMoves ==
    ASSUME TypeOK, NEW h \in Handlers, HandlerStep(h)
    PROVE  \E s : Become(h, s)
<1>0. /\ handler[h] \in HandlerState /\ handler[h].in.target \in Requests
      /\ store \in [Requests -> Record] /\ clock \in Nat
  BY HandlerParts DEF TypeOK
<1>1. ASSUME NEW r \in Requests, NEW rec \in Record, Decide(h, r, rec) PROVE \E s : Become(h, s)
  <2>1. \/ Finish(h, "refused")
        \/ \E q \in Requests, k \in Keys, f \in Record : ProceedWith(h, q, k, f)
    BY <1>1, DecideCases
  <2> QED BY <2>1 DEF Finish, ProceedWith
<1>2. CASE GetPending(h)
  <2> DEFINE after == IF node.backend = "postgres" THEN store ELSE CleanupExpired(store, clock)
  <2>1. after \in [Requests -> Record]
    BY <1>0, CleanupKeepsYoung, StaticTypes
  <2>2. Decide(h, handler[h].in.target, after[handler[h].in.target])
    BY <1>2 DEF GetPending
  <2> HIDE DEF after
  <2> QED BY <1>0, <1>1, <2>1, <2>2
<1>3. CASE GetByProviderMessageId(h)
  BY <1>0, <1>1, <1>3 DEF GetByProviderMessageId, Goto
<1>4. CASE GetLatestByRecipient(h)
  BY <1>0, <1>1, <1>4 DEF GetLatestByRecipient, LatestByRecipient, PendingOf, Finish
<1>5. CASE ConsumeStatic(h) \/ UpdatePending(h) \/ InsertFallback(h)
  BY <1>5 DEF ConsumeStatic, UpdatePending, InsertFallback, Accept, Finish, Goto
<1>6. CASE SelectExisting(h) \/ SelectRaced(h) \/ Emit(h)
  BY <1>6 DEF SelectExisting, SelectRaced, Emit, Finish, Goto
<1> QED BY <1>2, <1>3, <1>4, <1>5, <1>6 DEF HandlerStep

(* A handler that knows a decision keeps it, or loses it before it tells    *)
(* its human.                                                               *)
LEMMA ToldStays ==
    ASSUME ReplyInv, [Next]_vars, NEW h \in Handlers, handler[h].outcome \in Told
    PROVE  /\ handler'[h].outcome \in {handler[h].outcome, "lost"}
           /\ handler'[h].req = handler[h].req /\ handler'[h].key = handler[h].key
<1>0. /\ handler \in [Handlers -> HandlerState] /\ ReplyOf(handler[h])
      /\ handler[h].pc \notin {"idle"} \cup Looking \cup Consuming
  BY DEF ReplyInv, TypeOK, ReplyOf, Told
<1>1. CASE Tick \/ UNCHANGED vars \/ \E r \in Requests : DispatchStep(r)
  BY <1>1 DEF Tick, vars, DispatchStep, SavePending, SendMessage, SaveMessageId, SaveFails, RetryDispatch
<1>2. ASSUME NEW g \in Handlers,
             HandlerStep(g) \/ HandlerFails(g) \/ \E d \in Deliveries : Receive(g, d)
      PROVE  /\ handler'[h].outcome \in {handler[h].outcome, "lost"}
             /\ handler'[h].req = handler[h].req /\ handler'[h].key = handler[h].key
  <2>1. CASE Emit(g) \/ HandlerFails(g)
    <3>1. handler[g] \in HandlerState
      BY <1>0
    <3>2. PICK pc, o : /\ o \in {handler[g].outcome, "lost"}
                       /\ handler' = [handler EXCEPT ![g] = [handler[g] EXCEPT !.pc = pc, !.outcome = o]]
      <4>1. CASE Emit(g)
        <5>1. [handler[g] EXCEPT !.pc = "emitted"]
                = [handler[g] EXCEPT !.pc = "emitted", !.outcome = handler[g].outcome]
          BY <3>1 DEF HandlerState
        <5> QED BY <4>1, <5>1 DEF Emit, Goto, Become
      <4>2. CASE HandlerFails(g)
        BY <4>2 DEF HandlerFails, Become
      <4> QED BY <2>1, <4>1, <4>2
    <3> QED BY <1>0, <3>1, <3>2 DEF HandlerState
  <2>2. CASE ~(Emit(g) \/ HandlerFails(g))
    <3>1. handler[g].pc \in {"idle"} \cup Looking \cup Consuming
      BY <1>2, <2>2 DEF HandlerStep, Receive, GetPending, GetByProviderMessageId, GetLatestByRecipient,
                        ConsumeStatic, UpdatePending, SelectExisting, InsertFallback, SelectRaced,
                        Looking, Consuming
    <3>2. \E s : handler' = [handler EXCEPT ![g] = s]
      <4>1. CASE \E d \in Deliveries : Receive(g, d)
        BY <4>1 DEF Receive, Become
      <4>2. CASE HandlerStep(g)
        BY <4>2, OneHandlerMoves DEF ReplyInv, Become
      <4> QED BY <1>2, <2>2, <4>1, <4>2
    <3> QED BY <1>0, <3>1, <3>2
  <2> QED BY <2>1, <2>2
<1> QED BY <1>1, <1>2 DEF Next

(* What the store still keeps, a step leaves as it is.                      *)
LEMMA RecordsKept ==
    ASSUME ConsumeInv \/ StaticInv, [Next]_vars, NEW r \in Requests, KeptRecord(r)
    PROVE  store'[r] = store[r]
<1>1. CASE ConsumeInv
  BY <1>1, ConsumedRowsStay DEF KeptRecord
<1>2. CASE StaticInv
  <2>1. Young(store[r])
    BY <1>2 DEF StaticInv, KeptRecord
  <2> QED BY <1>2, <2>1, StaticSaves, StaticSteps DEF Next
<1> QED BY <1>1, <1>2

(* What a handler tells its human, it reads off the record it leaves.  With *)
(* static data a new winner has consumed it at this moment, and found no    *)
(* young tombstone.                                                         *)
LEMMA Learns ==
    ASSUME ReplyInv, ConsumeInv \/ StaticInv, [Next]_vars, NEW h \in Handlers,
           handler'[h].outcome \in Told \ {handler[h].outcome}
    PROVE  LET r == handler'[h].req IN
           /\ store'[r].status = "consumed"
           /\ handler'[h].outcome = "conflict" <=> store'[r].key # handler'[h].key
           /\ StaticInv => /\ \A g \in Handlers \ {h} : handler'[g] = handler[g]
                           /\ handler'[h].outcome = "accepted" =>
                                 store'[r].consumedAt = clock /\ ~Young(store[r])
<1>0. handler \in [Handlers -> HandlerState]
  BY DEF ReplyInv, TypeOK
<1>1. CASE ConsumeInv
  <2>1. VerdictMatches(h)'
    BY <1>1, ConsumeInvNext DEF ConsumeInv
  <2>2. ~StaticInv
    BY <1>1 DEF ConsumeInv, StaticInv
  <2> QED BY <2>1, <2>2 DEF VerdictMatches, Told
<1>2. CASE StaticInv
  <2>1. PICK g \in Handlers : HandlerStep(g) \/ HandlerFails(g) \/ \E d \in Deliveries : Receive(g, d)
    <3>1. handler' # handler
      OBVIOUS
    <3> QED BY <1>2, <3>1, StaticSaves DEF Next
  <2>2. PICK t \in HandlerState :
          /\ Become(g, t)
          /\ \/ t.outcome \in {"none", "refused", "missing"}
             \/ t.outcome = handler[g].outcome /\ t.req = handler[g].req /\ t.key = handler[g].key
             \/ /\ t.outcome = "accepted" /\ ~Young(store[t.req])
                /\ store'[t.req].status = "consumed" /\ store'[t.req].key = t.key
                /\ store'[t.req].consumedAt = clock
             \/ /\ store'[t.req].status = "consumed"
                /\ t.outcome = IF store'[t.req].key = t.key THEN "duplicate" ELSE "conflict"
    BY <1>2, <2>1, StaticSteps
  <2>3. handler'[g] = t /\ \A x \in Handlers \ {g} : handler'[x] = handler[x]
    BY <1>0, <2>2 DEF Become
  <2>4. g = h
    BY <2>3
  <2>5. CASE t.outcome = "accepted" /\ ~Young(store[t.req])
             /\ store'[t.req].status = "consumed" /\ store'[t.req].key = t.key
             /\ store'[t.req].consumedAt = clock
    BY <2>3, <2>4, <2>5
  <2>6. CASE store'[t.req].status = "consumed"
             /\ t.outcome = IF store'[t.req].key = t.key THEN "duplicate" ELSE "conflict"
    BY <2>3, <2>4, <2>6
  <2> QED BY <2>2, <2>3, <2>4, <2>5, <2>6 DEF Told
<1> QED BY <1>1, <1>2

(* The moment a handler remembers.                                          *)
LEMMA Remembered ==
    ASSUME [TimedNext]_timedVars, decidedAt \in [Handlers -> Nat], NEW h \in Handlers
    PROVE  \/ /\ handler'[h].outcome \in Told \ {handler[h].outcome}
              /\ decidedAt'[h] = store'[handler'[h].req].consumedAt
           \/ /\ handler'[h].outcome \notin Told \ {handler[h].outcome}
              /\ decidedAt'[h] = decidedAt[h]
<1>1. CASE Remember
  BY <1>1 DEF Remember
<1>2. CASE UNCHANGED <<handler, decidedAt>>
  BY <1>2
<1> QED BY <1>1, <1>2, TimedSteps

LEMMA VerdictsStep ==
    ASSUME TimedInv, [TimedNext]_timedVars, NEW h \in Handlers
    PROVE  VerdictLasts(h)'
<1>0. /\ [Next]_vars /\ ReplyInv /\ (ConsumeInv \/ StaticInv) /\ VerdictLasts(h)
      /\ decidedAt \in [Handlers -> Nat] /\ TypeOK
      /\ handler[h].req \in Requests /\ ConsumedMaxAge \in Nat
  BY TimedSteps, HandlerParts DEF TimedInv, VerdictsLast, ReplyInv
<1>1. node' = node /\ clock \in Nat /\ clock' \in {clock, clock + 1}
  BY <1>0, ClockMoves, NodeFixed
<1>2. CASE handler'[h].outcome \in Told \ {handler[h].outcome}
  <2>1. decidedAt'[h] = store'[handler'[h].req].consumedAt
    BY <1>0, <1>2, Remembered
  <2>2. /\ store'[handler'[h].req].status = "consumed"
        /\ handler'[h].outcome = "conflict" <=> store'[handler'[h].req].key # handler'[h].key
    BY <1>0, <1>2, Learns
  <2> QED BY <2>1, <2>2 DEF VerdictLasts
<1>3. CASE handler'[h].outcome \in Told /\ handler'[h].outcome = handler[h].outcome
  <2>1. /\ decidedAt'[h] = decidedAt[h] /\ decidedAt[h] \in Nat
        /\ handler'[h].req = handler[h].req /\ handler'[h].key = handler[h].key
    BY <1>0, <1>3, Remembered, ToldStays
  <2>2. SUFFICES ASSUME node.backend = "postgres" \/ clock' - decidedAt[h] <= ConsumedMaxAge
                 PROVE  VerdictLasts(h)'
    BY <1>1, <2>1 DEF VerdictLasts
  <2>3. node.backend = "postgres" \/ clock - decidedAt[h] <= ConsumedMaxAge
    BY <1>0, <1>1, <2>1, <2>2
  <2> DEFINE r == handler[h].req
  <2>4. /\ store[r].status = "consumed" /\ store[r].consumedAt = decidedAt[h]
        /\ handler[h].outcome = "conflict" <=> store[r].key # handler[h].key
    BY <1>0, <1>3, <2>3 DEF VerdictLasts
  <2>5. KeptRecord(r)
    BY <2>3, <2>4 DEF KeptRecord, Young
  <2>6. store'[r] = store[r]
    BY <1>0, <2>5, RecordsKept
  <2> QED BY <1>3, <2>1, <2>4, <2>6 DEF VerdictLasts
<1>4. CASE handler'[h].outcome \notin Told
  BY <1>4 DEF VerdictLasts
<1> QED BY <1>2, <1>3, <1>4

(* A new winner over static data comes later than any other of its request  *)
(* by more than a tombstone's age.                                          *)
LEMMA NewWinnerApart ==
    ASSUME TimedInv, StaticInv, [TimedNext]_timedVars, NEW g \in Handlers, NEW h \in Handlers, g # h,
           handler'[h].outcome = "accepted", handler[h].outcome # "accepted",
           handler'[g].outcome = "accepted", handler'[g].req = handler'[h].req
    PROVE  decidedAt'[h] - decidedAt'[g] > ConsumedMaxAge
<1> DEFINE r == handler'[h].req
<1>0. /\ [Next]_vars /\ ReplyInv /\ VerdictLasts(g) /\ TypeOK /\ clock \in Nat
      /\ decidedAt \in [Handlers -> Nat] /\ ConsumedMaxAge \in Nat
      /\ handler'[h].outcome \in Told \ {handler[h].outcome}
  BY TimedSteps DEF TimedInv, VerdictsLast, ReplyInv, TypeOK, Told
<1>1. /\ handler'[g] = handler[g]
      /\ store'[r].consumedAt = clock /\ ~Young(store[r])
  BY <1>0, Learns
<1>2. decidedAt'[h] = clock /\ decidedAt'[g] = decidedAt[g]
  BY <1>0, <1>1, Remembered
<1>3. ~(clock - decidedAt[g] <= ConsumedMaxAge)
  BY <1>0, <1>1 DEF VerdictLasts, Told, Young
<1>4. decidedAt[g] \in Nat
  BY <1>0
<1> QED BY <1>0, <1>2, <1>3, <1>4

LEMMA ApartStep ==
    ASSUME TimedInv, [TimedNext]_timedVars
    PROVE  AcceptancesApart'
<1>0. /\ [Next]_vars /\ ReplyInv /\ (ConsumeInv \/ StaticInv) /\ AcceptancesApart
      /\ decidedAt \in [Handlers -> Nat]
  BY TimedSteps DEF TimedInv
<1>1. CASE ConsumeInv
  <2>1. AtMostOneAccepted'
    BY <1>0, <1>1, ConsumeInvNext DEF ConsumeInv
  <2> QED BY <2>1 DEF AtMostOneAccepted, AcceptancesApart
<1>2. CASE StaticInv
  <2> SUFFICES ASSUME NEW r \in Requests, NEW g \in Winners(r)', NEW h \in Winners(r)', g # h
               PROVE  node'.backend # "postgres" /\ Apart(decidedAt'[g], decidedAt'[h])
    BY DEF AcceptancesApart, Apart
  <2>1. /\ g \in Handlers /\ handler'[g].outcome = "accepted" /\ handler'[g].req = r
        /\ h \in Handlers /\ handler'[h].outcome = "accepted" /\ handler'[h].req = r
    BY <1>0, <1>2, StaticNext DEF Winners, StaticInv
  <2>2. node'.backend # "postgres"
    BY <1>0, <1>2, NodeFixed DEF StaticInv
  <2>3. CASE handler[h].outcome # "accepted"
    BY <1>2, <2>1, <2>2, <2>3, NewWinnerApart DEF Apart
  <2>4. CASE handler[g].outcome # "accepted"
    BY <1>2, <2>1, <2>2, <2>4, NewWinnerApart DEF Apart
  <2>5. CASE handler[g].outcome = "accepted" /\ handler[h].outcome = "accepted"
    <3>1. handler[g].req = r /\ handler[h].req = r
      BY <1>0, <2>1, <2>5, ToldStays DEF Told
    <3>2. decidedAt'[g] = decidedAt[g] /\ decidedAt'[h] = decidedAt[h]
      BY <1>0, <2>1, <2>5, Remembered
    <3>3. Apart(decidedAt[g], decidedAt[h])
      BY <1>0, <2>1, <2>5, <3>1 DEF AcceptancesApart, Winners
    <3> QED BY <2>2, <3>2, <3>3
  <2> QED BY <2>3, <2>4, <2>5
<1> QED BY <1>0, <1>1, <1>2

LEMMA TimedInvInit == TimedInit => TimedInv
<1> SUFFICES ASSUME TimedInit PROVE TimedInv
  OBVIOUS
<1>1. Init /\ decidedAt = [h \in Handlers |-> 0]
  BY DEF TimedInit
<1>2. ReplyInv /\ (ConsumeInv \/ StaticInv)
  BY <1>1, ReplyInit, ConsumeInvInit, StaticInit
<1>3. \A h \in Handlers : handler[h].outcome = "none"
  BY <1>1 DEF Init
<1>4. VerdictsLast
  BY <1>3 DEF VerdictsLast, VerdictLasts, Told
<1>5. AcceptancesApart
  BY <1>3 DEF AcceptancesApart, Winners
<1> QED BY <1>1, <1>2, <1>4, <1>5 DEF TimedInv

LEMMA TimedInvNext == TimedInv /\ [TimedNext]_timedVars => TimedInv'
<1> SUFFICES ASSUME TimedInv, [TimedNext]_timedVars PROVE TimedInv'
  OBVIOUS
<1>0. [Next]_vars /\ ReplyInv /\ (ConsumeInv \/ StaticInv) /\ decidedAt \in [Handlers -> Nat]
  BY TimedSteps DEF TimedInv
<1>1. ReplyInv' /\ (ConsumeInv' \/ StaticInv')
  BY <1>0, ReplyNext, ConsumeInvNext, StaticNext
<1>2. decidedAt' \in [Handlers -> Nat]
  <2>1. \A h \in Handlers : store'[handler'[h].req].consumedAt \in Nat
    BY <1>1 DEF ReplyInv, TypeOK, HandlerState, Record
  <2>2. CASE Remember
    BY <1>0, <2>1, <2>2 DEF Remember
  <2>3. CASE UNCHANGED <<handler, decidedAt>>
    BY <1>0, <2>3
  <2> QED BY <2>2, <2>3, TimedSteps
<1>3. VerdictsLast'
  BY VerdictsStep DEF VerdictsLast
<1>4. AcceptancesApart'
  BY ApartStep
<1> QED BY <1>1, <1>2, <1>3, <1>4 DEF TimedInv

(* "Each HITL request should be consumed once": over Postgres it is, and    *)
(* over static data a second acceptance of a request comes more than        *)
(* CONSUMED_MAX_AGE_MS after the first, at any time, for any number of      *)
(* deliveries, late saves, retries and expired requests.                    *)
THEOREM AcceptedOncePerTombstone == TimedSpec => []AcceptancesApart
<1>1. TimedInv => AcceptancesApart
  BY DEF TimedInv
<1> QED BY <1>1, TimedInvInit, TimedInvNext, PTL DEF TimedSpec

(* What a human was told of a decision stays true of the store, over        *)
(* Postgres for ever and over static data for CONSUMED_MAX_AGE_MS after the *)
(* decision.                                                                *)
THEOREM VerdictsStayTrue == TimedSpec => []VerdictsLast
<1>1. TimedInv => VerdictsLast
  BY DEF TimedInv
<1> QED BY <1>1, TimedInvInit, TimedInvNext, PTL DEF TimedSpec

=============================================================================
