---------------------------- MODULE CompanionHitl ----------------------------
(***************************************************************************)
(* A channel node asks a human for a decision and takes the answer.  One   *)
(* side is execute(): it saves a pending record, sends the message and, if *)
(* the provider returned a message id, saves the record again.  The other  *)
(* side is a set of inbound deliveries, each handled by webhook() or       *)
(* handleTriggerInbound(): the handler finds the request, works out the    *)
(* decision key, and consumes the record; only the handler whose consume   *)
(* is 'accepted' returns the response envelope that resumes the agent.     *)
(*                                                                         *)
(* Providers redeliver, people click twice and answer on two devices, and  *)
(* n8n runs the handlers concurrently.  With the Postgres backend the      *)
(* consume is up to four statements and other handlers run between any two *)
(* of them; with static data each store call is one synchronous step, but  *)
(* records expire.                                                         *)
(***************************************************************************)
EXTENDS ChannelNodes

CONSTANTS Handlers,       \* inbound deliveries; each is handled once
          Deliveries,     \* the inbound deliveries considered
          MaxClock        \* bound on time, by backend

ASSUME RequestsAssumption == Requests # {}
ASSUME DeliveriesAssumption == Deliveries \subseteq Delivery
ASSUME BoundsAssumption  == MaxClock \in [Backends -> Nat]

VARIABLES node,       \* the node and its settings; they do not change
          clock,      \* Date.now()
          store,      \* the pending records of this node
          dispatch,   \* where execute() stands for each request
          retries,    \* how often n8n retried that dispatch
          sent,       \* requests whose message reached the human
          handler     \* the inbound deliveries

vars == <<node, clock, store, dispatch, retries, sent, handler>>
dispatchVars == <<node, dispatch, retries, sent>>

NoDelivery == [path |-> "query", how |-> "request", target |-> CHOOSE r \in Requests : TRUE,
               approval |-> NoKey, answer |-> NoKey, post |-> FALSE]

(* A message is answered, or quoted, after it was sent.                     *)
CanArrive(d) == WellFormed(node, d) /\ (d.how # "sender" => d.target \in sent)

(***************************************************************************)
(* A handler: its delivery, the request it resolved, the decision key and  *)
(* the fallback record it will pass to the store, and the outcome.         *)
(***************************************************************************)
PCs == {"idle", "byRequest", "byMessage", "byRecipient",
        "consume", "update", "select", "insert", "raced",
        "accepted", "emitted", "done", "failed"}

(* What the handler was told; "lost" if its decision went on record and it  *)
(* failed before it was told.                                               *)
Outcomes == {"none", "refused", "missing", "duplicate", "conflict", "accepted", "lost"}

HandlerState == [pc : PCs, in : Delivery, req : Requests, key : Keys \cup {NoKey},
                 fallback : Record, outcome : Outcomes, resumable : BOOLEAN]

TypeOK == /\ node \in Nodes
          /\ clock \in Nat
          /\ store \in [Requests -> Record]
          /\ dispatch \in [Requests -> [pc : {"new", "saved", "sentWithId", "dispatched", "failed"},
                                        createdAt : Nat]]
          /\ retries \in [Requests -> Nat]
          /\ sent \in SUBSET Requests
          /\ handler \in [Handlers -> HandlerState]

Init == /\ node \in Nodes
        /\ clock = 0
        /\ store = [r \in Requests |-> NoRecord]
        /\ dispatch = [r \in Requests |->
                         [pc |-> IF r \in node.lost THEN "dispatched" ELSE "new", createdAt |-> 0]]
        /\ retries = [r \in Requests |-> 0]
        /\ sent = node.lost
        /\ handler = [h \in Handlers |->
                 [pc |-> "idle", in |-> NoDelivery, req |-> NoDelivery.target, key |-> NoKey,
                  fallback |-> NoRecord, outcome |-> "none", resumable |-> FALSE]]

(***************************************************************************)
(* execute()                                                               *)
(***************************************************************************)

(* savePending, by backend *)
Saved(r, rec) ==
    IF node.backend = "postgres" THEN [store EXCEPT ![r] = UpsertRow(store[r], rec)]
                                 ELSE StaticSave(store, r, rec, clock)

Channel(c) == node.channel = c

DispatchTo(r, pc) == dispatch' = [dispatch EXCEPT ![r].pc = pc]

(* buildPendingRecordFromRequest and the first savePending.                 *)
SavePending(r) ==
    /\ dispatch[r].pc = "new"
    /\ store' = Saved(r, RequestRecord(r, node.timeoutMs, clock, FALSE))
    /\ dispatch' = [dispatch EXCEPT ![r] = [pc |-> "saved", createdAt |-> clock]]
    /\ UNCHANGED <<node, clock, retries, sent, handler>>

(* The provider took the message.                                           *)
Delivered(r, pc) == DispatchTo(r, pc) /\ sent' = sent \cup {r}

(* putExecutionToWait and the provider's send call.  Three transports give  *)
(* back the message's id, which is then saved, or none.                     *)
TelegramSends(r) ==
    Channel("telegram") /\ \E pc \in {"sentWithId", "dispatched"} : Delivered(r, pc)

WhatsAppSends(r) ==
    Channel("whatsapp") /\ \E pc \in {"sentWithId", "dispatched"} : Delivered(r, pc)

(* Woztell sends its companion message, if it has one, before this.         *)
WoztellSends(r) ==
    Channel("woztell") /\ \E pc \in {"sentWithId", "dispatched"} : Delivered(r, pc)

(* executeCompanionNode: Slack, Discord, Email and Gmail save no id.        *)
CompanionSends(r) == ~KnowsMessageId(node) /\ Delivered(r, "dispatched")

(* A send that throws does not say whether the message left.                *)
SendThrows(r) == DispatchTo(r, "failed") /\ sent' \in {sent, sent \cup {r}}

SendMessage(r) ==
    /\ dispatch[r].pc = "saved"
    /\ \/ TelegramSends(r) \/ WhatsAppSends(r) \/ WoztellSends(r)
       \/ CompanionSends(r) \/ SendThrows(r)
    /\ UNCHANGED <<node, clock, store, retries, handler>>

(* The second savePending: the same base record plus providerMessageId.     *)
SaveMessageId(r) ==
    /\ dispatch[r].pc = "sentWithId"
    /\ store' = Saved(r, RequestRecord(r, node.timeoutMs, dispatch[r].createdAt, TRUE))
    /\ DispatchTo(r, "dispatched")
    /\ UNCHANGED <<node, clock, retries, sent, handler>>

(* A store error in either save ends the item with an error.                *)
SaveFails(r) ==
    /\ node.backend = "postgres"
    /\ dispatch[r].pc \in {"new", "sentWithId"}
    /\ DispatchTo(r, "failed")
    /\ UNCHANGED <<node, clock, store, retries, sent, handler>>

(* n8n's Retry On Fail runs the node again with the same request envelope.  *)
RetryDispatch(r) ==
    /\ dispatch[r].pc = "failed"
    /\ retries[r] < node.retries
    /\ retries' = [retries EXCEPT ![r] = @ + 1]
    /\ DispatchTo(r, "new")
    /\ UNCHANGED <<node, clock, store, sent, handler>>

Tick == /\ clock < MaxClock[node.backend]
        /\ clock' = clock + 1
        /\ UNCHANGED <<store, dispatchVars, handler>>

(***************************************************************************)
(* Finding the request                                                     *)
(***************************************************************************)
Become(h, s) == handler' = [handler EXCEPT ![h] = s]

Goto(h, pc) == Become(h, [handler[h] EXCEPT !.pc = pc])

Finish(h, outcome) == Become(h, [handler[h] EXCEPT !.pc = "done", !.outcome = outcome])

(* The lookup a delivery starts with.                                       *)
FirstLookup(d) == IF d.how = "request" THEN "byRequest"
                  ELSE IF d.how = "message" THEN "byMessage" ELSE "byRecipient"

(* A delivery arrives: the handler refuses it or starts to look for its     *)
(* request.                                                                 *)
Receive(h, d) ==
    /\ handler[h].pc = "idle"
    /\ CanArrive(d)
    /\ \/ /\ Rejected(node, d)
          /\ Become(h, [handler[h] EXCEPT !.in = d, !.req = d.target,
                                          !.pc = "done", !.outcome = "refused"])
       \/ /\ ~Rejected(node, d)
          /\ Become(h, [handler[h] EXCEPT !.in = d, !.req = d.target, !.pc = FirstLookup(d)])
    /\ UNCHANGED <<clock, store, dispatchVars>>

(* The statement or call that starts the consume, by backend.               *)
ConsumePc == IF node.backend = "postgres" THEN "update" ELSE "consume"

(* buildFallbackApprovalPendingRecord / buildFallbackQuestionPendingRecord: *)
(* never a session, even when the caller has read one.                      *)
Fallback(d, kind) ==
    [NoRecord EXCEPT !.status = "pending", !.kind = kind, !.createdAt = clock,
                     !.messageId = (d.path = "inbound" /\ d.how # "sender")]

ProceedWith(h, r, key, fallback) ==
    Become(h, [handler[h] EXCEPT !.pc = ConsumePc, !.req = r, !.key = key, !.fallback = fallback])

(* A button tap with an approval token is consumed whether or not a record  *)
(* was found.                                                               *)
DecideApprovalToken(h) ==
    LET d == handler[h].in
    IN  ProceedWith(h, d.target, d.approval, Fallback(d, "approval"))

(* A button tap with an option token needs the record, which knows the      *)
(* options.                                                                 *)
DecideOptionToken(h, rec) ==
    LET d == handler[h].in
    IN  \/ /\ rec.status # "none" /\ rec.kind = "question"
           /\ ProceedWith(h, d.target, d.answer, Fallback(d, "question"))
        \/ /\ ~(rec.status # "none" /\ rec.kind = "question")
           /\ Finish(h, "refused")

DecideCallback(h, rec) ==
    IF handler[h].in.approval # NoKey THEN DecideApprovalToken(h) ELSE DecideOptionToken(h, rec)

(* A URL that says approved, or whose record asks for an approval, is one.  *)
LinkIsApproval(d, rec) == d.approval # NoKey \/ (rec.status # "none" /\ rec.kind = "approval")

(* The URL itself says approve or deny, so a missing record does not stop   *)
(* it; a GET renders a page and consumes nothing.                           *)
DecideLinkApproval(h) ==
    LET d == handler[h].in
    IN  \/ /\ d.approval # NoKey /\ d.post
           /\ ProceedWith(h, d.target, d.approval, Fallback(d, "approval"))
        \/ /\ ~(d.approval # NoKey /\ d.post)
           /\ Finish(h, "refused")

(* The questions come from the record or from the URL, the answers from the *)
(* submitted form.                                                          *)
DecideLinkAnswers(h) ==
    LET d == handler[h].in
    IN  \/ /\ d.answer # NoKey /\ d.post
           /\ ProceedWith(h, d.target, d.answer, Fallback(d, "question"))
        \/ /\ ~(d.answer # NoKey /\ d.post)
           /\ Finish(h, "refused")

(* The page of a response URL.                                              *)
DecideLink(h, rec) ==
    \/ LinkIsApproval(handler[h].in, rec)  /\ DecideLinkApproval(h)
    \/ ~LinkIsApproval(handler[h].in, rec) /\ DecideLinkAnswers(h)

(* WhatsApp's webhook() for a verified callback: an unknown request id is   *)
(* refused (the decision is in the body, not in the URL); text that reads   *)
(* as an approval is one, whatever the kind of the record.                  *)
DecideInbound(h, r, rec) ==
    LET d == handler[h].in
        isApproval == d.approval # NoKey \/ rec.kind = "approval"
        key == IF isApproval THEN d.approval ELSE d.answer
    IN  \/ /\ rec.status # "none" /\ key # NoKey
           /\ ProceedWith(h, r, key,
                          Fallback(d, IF isApproval THEN "approval" ELSE "question"))
        \/ /\ ~(rec.status # "none" /\ key # NoKey)
           /\ Finish(h, "refused")

(* Mutant: the trigger path passes a fallback record too.                   *)
DecideTriggerFallback(h, r, rec) ==
    LET d == handler[h].in
        key == IF rec.kind = "approval" THEN d.approval ELSE d.answer
    IN  \/ /\ rec.status # "none" /\ key # NoKey
           /\ ProceedWith(h, r, key, Fallback(d, rec.kind))
        \/ /\ ~(rec.status # "none" /\ key # NoKey)
           /\ Finish(h, "refused")

(* Mutant: text that reads as an approval is one, as in WhatsApp's webhook. *)
DecideTriggerByText(h, r, rec) ==
    LET d == handler[h].in
        key == IF d.approval # NoKey THEN d.approval ELSE d.answer
    IN  \/ /\ rec.status # "none" /\ key # NoKey
           /\ ProceedWith(h, r, key, NoRecord)
        \/ /\ ~(rec.status # "none" /\ key # NoKey)
           /\ Finish(h, "refused")

(* handleTriggerInbound: the record decides the kind; no fallback record.   *)
DecideTrigger(h, r, rec) ==
    LET d == handler[h].in
        key == IF rec.kind = "approval" THEN d.approval ELSE d.answer
    IN  \/ /\ rec.status # "none" /\ key # NoKey
           /\ ProceedWith(h, r, key, NoRecord)
        \/ /\ ~(rec.status # "none" /\ key # NoKey)
           /\ Finish(h, "refused")

(***************************************************************************)
(* webhook() and handleTriggerInbound(), channel by channel.               *)
(***************************************************************************)

(* A tap: Slack's block_actions, Discord's MESSAGE_COMPONENT, Telegram's    *)
(* callback_query.                                                          *)
SlackCallback(h, rec)    == Channel("slack")    /\ DecideCallback(h, rec)
DiscordCallback(h, rec)  == Channel("discord")  /\ DecideCallback(h, rec)
TelegramCallback(h, rec) == Channel("telegram") /\ DecideCallback(h, rec)

(* A response URL; it was refused before the lookup where it is not allowed.*)
SlackQuery(h, rec)    == Channel("slack")    /\ DecideLink(h, rec)
DiscordQuery(h, rec)  == Channel("discord")  /\ DecideLink(h, rec)
TelegramQuery(h, rec) == Channel("telegram") /\ DecideLink(h, rec)
WoztellQuery(h, rec)  == Channel("woztell")  /\ DecideLink(h, rec)

(* Email and Gmail only wait for the reply and refuse no URL.               *)
EmailQuery(h, rec) == Channel("email") /\ DecideLink(h, rec)
GmailQuery(h, rec) == Channel("gmail") /\ DecideLink(h, rec)

(* WhatsApp refuses a URL only after it has looked for the record.          *)
WhatsAppQuery(h, rec) ==
    /\ Channel("whatsapp")
    /\ \/ ~QueryAllowed(node) /\ Finish(h, "refused")
       \/ QueryAllowed(node)  /\ DecideLink(h, rec)

WhatsAppTriggerReply(h, r, rec) == Channel("whatsapp") /\ DecideTrigger(h, r, rec)
WoztellTriggerReply(h, r, rec)  == Channel("woztell")  /\ DecideTrigger(h, r, rec)

DecideTap(h, rec) == SlackCallback(h, rec) \/ DiscordCallback(h, rec) \/ TelegramCallback(h, rec)

DecideQuery(h, rec) ==
    \/ SlackQuery(h, rec) \/ DiscordQuery(h, rec) \/ TelegramQuery(h, rec)
    \/ WoztellQuery(h, rec) \/ WhatsAppQuery(h, rec)
    \/ EmailQuery(h, rec) \/ GmailQuery(h, rec)

Decide(h, r, rec) ==
    \/ handler[h].in.path = "callback" /\ DecideTap(h, rec)
    \/ handler[h].in.path = "query"    /\ DecideQuery(h, rec)
    \/ handler[h].in.path = "inbound"  /\ DecideInbound(h, r, rec)
    \/ /\ handler[h].in.path = "trigger"
       /\ WhatsAppTriggerReply(h, r, rec) \/ WoztellTriggerReply(h, r, rec)

(* getPending; the static store drops expired records first.                *)
GetPending(h) ==
    /\ handler[h].pc = "byRequest"
    /\ LET after == IF node.backend = "postgres" THEN store ELSE CleanupExpired(store, clock)
       IN  /\ store' = after
           /\ Decide(h, handler[h].in.target, after[handler[h].in.target])
    /\ UNCHANGED <<clock, dispatchVars>>

(* getPendingByProviderMessageId; a miss falls through to the sender.       *)
GetByProviderMessageId(h) ==
    LET r == handler[h].in.target
    IN  /\ handler[h].pc = "byMessage"
        /\ \/ /\ ByProviderMessageId(store, r, RecipientOf[r]) # {}
              /\ Decide(h, r, store[r])
           \/ /\ ByProviderMessageId(store, r, RecipientOf[r]) = {}
              /\ Goto(h, "byRecipient")
        /\ UNCHANGED <<clock, store, dispatchVars>>

(* getLatestPendingByRecipient; a miss passes the message through.          *)
GetLatestByRecipient(h) ==
    LET latest == LatestByRecipient(store, RecipientOf[handler[h].in.target])
    IN  /\ handler[h].pc = "byRecipient"
        /\ \/ \E r \in latest : Decide(h, r, store[r])
           \/ latest = {} /\ Finish(h, "refused")
        /\ UNCHANGED <<clock, store, dispatchVars>>

(***************************************************************************)
(* Consuming the record                                                    *)
(***************************************************************************)
(* Mutant: a record that cannot name its session is refused after it was    *)
(* consumed.                                                                *)
AcceptResumable(h, rec) ==
    Become(h, [handler[h] EXCEPT !.pc = IF rec.session THEN "accepted" ELSE "done",
                                 !.outcome = IF rec.session THEN "accepted" ELSE "refused",
                                 !.resumable = rec.session])

(* The consume returned 'accepted' and the record it consumed.              *)
Accept(h, rec) ==
    Become(h, [handler[h] EXCEPT !.pc = "accepted", !.outcome = "accepted",
                                 !.resumable = rec.session])

(* consumeWithDecision on static data: one synchronous step.                *)
ConsumeStatic(h) ==
    LET s == handler[h]
        verdict == StaticVerdict(store, s.req, s.key, s.fallback, clock)
        after == StaticConsume(store, s.req, s.key, s.fallback, clock)
    IN  /\ s.pc = "consume"
        /\ store' = after
        /\ \/ verdict = "accepted" /\ Accept(h, after[s.req])
           \/ verdict # "accepted" /\ Finish(h, verdict)
        /\ UNCHANGED <<clock, dispatchVars>>

(* The four statements of consumePendingHitlRecordWithDecisionPostgres.     *)
UpdatePending(h) ==
    LET s == handler[h] IN
    /\ s.pc = "update"
    /\ \/ /\ UpdateMatches(store[s.req])
          /\ store' = [store EXCEPT ![s.req] = Consumed(store[s.req], s.key, clock)]
          /\ Accept(h, store[s.req])
       \/ /\ ~UpdateMatches(store[s.req])
          /\ Goto(h, "select")
          /\ UNCHANGED store
    /\ UNCHANGED <<clock, dispatchVars>>

SelectExisting(h) ==
    LET s == handler[h] IN
    /\ s.pc = "select"
    /\ \/ /\ store[s.req].status # "none"
          /\ Finish(h, RowVerdict(store[s.req], s.key))
       \/ /\ store[s.req].status = "none"
          /\ IF s.fallback.status = "none" THEN Finish(h, "missing") ELSE Goto(h, "insert")
    /\ UNCHANGED <<clock, store, dispatchVars>>

InsertFallback(h) ==
    LET s == handler[h] IN
    /\ s.pc = "insert"
    /\ \/ /\ InsertMatches(store[s.req])
          /\ store' = [store EXCEPT ![s.req] = Consumed(s.fallback, s.key, clock)]
          /\ Accept(h, s.fallback)
       \/ /\ ~InsertMatches(store[s.req])
          /\ Goto(h, "raced")
          /\ UNCHANGED store
    /\ UNCHANGED <<clock, dispatchVars>>

SelectRaced(h) ==
    LET s == handler[h] IN
    /\ s.pc = "raced"
    /\ Finish(h, IF store[s.req].status = "none" THEN "missing" ELSE RowVerdict(store[s.req], s.key))
    /\ UNCHANGED <<clock, store, dispatchVars>>

(* Build the envelope and return it as workflowData (or as the trigger      *)
(* node's output): the agent resumes.                                       *)
Emit(h) ==
    /\ handler[h].pc = "accepted"
    /\ Goto(h, "emitted")
    /\ UNCHANGED <<clock, store, dispatchVars>>

(* A query fails, closing the pool fails, or the process dies: the handler  *)
(* throws, and what it already wrote stays.  A decision that was written is *)
(* lost to its handler: withPool closes the pool before the verdict is      *)
(* returned.                                                                *)
HandlerFails(h) ==
    /\ node.backend = "postgres"
    /\ handler[h].pc \in {"byRequest", "byMessage", "byRecipient", "update",
                          "select", "insert", "raced", "accepted"}
    /\ Become(h, [handler[h] EXCEPT !.pc = "failed",
                                    !.outcome = IF handler[h].pc = "accepted" THEN "lost" ELSE @])
    /\ UNCHANGED <<clock, store, dispatchVars>>

(***************************************************************************)
DispatchStep(r) == \/ SavePending(r) \/ SendMessage(r) \/ SaveMessageId(r)
                   \/ SaveFails(r) \/ RetryDispatch(r)

HandlerStep(h) ==
    \/ GetPending(h) \/ GetByProviderMessageId(h) \/ GetLatestByRecipient(h)
    \/ ConsumeStatic(h) \/ UpdatePending(h) \/ SelectExisting(h)
    \/ InsertFallback(h) \/ SelectRaced(h) \/ Emit(h)

Next == \/ Tick
        \/ \E r \in Requests : DispatchStep(r)
        \/ \E h \in Handlers : \E d \in Deliveries : Receive(h, d)
        \/ \E h \in Handlers : HandlerStep(h) \/ HandlerFails(h)

Spec == Init /\ [][Next]_vars

(* A handler that has started is run by the event loop until it returns or  *)
(* throws; nothing obliges a human to answer, a retry to happen or a send   *)
(* to be made.                                                              *)
FairSpec == Spec /\ \A h \in Handlers : WF_vars(HandlerStep(h))

(***************************************************************************)
(* Properties                                                              *)
(***************************************************************************)

(* The handlers whose decision went on record, told of it or not.          *)
Winners(r) == {h \in Handlers : handler[h].outcome \in {"accepted", "lost"} /\ handler[h].req = r}

(* "Each HITL request should be consumed once": however many deliveries    *)
(* race and fail, at most one handler's decision is taken, so at most one  *)
(* response envelope resumes the agent for a request.                      *)
AtMostOneAccepted == \A r \in Requests : \A g, h \in Winners(r) : g = h

(* The answer a handler gives its human is true of the store: 'accepted'   *)
(* means this handler's decision is on record, 'duplicate' that the same   *)
(* decision is, 'conflict' that another one is.  So is a lost decision.    *)
VerdictMatches(h) ==
    LET rec == store[handler[h].req] IN
    /\ handler[h].outcome \in {"accepted", "lost", "duplicate"} =>
           rec.status = "consumed" /\ rec.key = handler[h].key
    /\ handler[h].outcome = "conflict" =>
           rec.status = "consumed" /\ rec.key # handler[h].key

VerdictsMatchStore == \A h \in Handlers : VerdictMatches(h)

(* A recorded decision is never changed or dropped, whatever execute()     *)
(* saves late or a retry saves again.                                      *)
DecisionIsFinal ==
    [][\A r \in Requests : store[r].status = "consumed" =>
           store'[r].status = "consumed" /\ store'[r].key = store[r].key]_store

(* An envelope that cannot name the session to resume is only ever built   *)
(* for a request this store never held: a handler never falls back to its  *)
(* own record while the saved one exists.                                  *)
UnresumableOnlyForOrphans ==
    \A h \in Handlers :
        handler[h].outcome = "accepted" /\ ~handler[h].resumable => handler[h].req \in node.lost

(* handleTriggerInbound never builds an envelope without the session: its   *)
(* lookups return records that have expired, and the record may be dropped  *)
(* before the consume, but then there is nothing to fall back to.           *)
TriggerRepliesResume ==
    \A h \in Handlers :
        handler[h].in.path = "trigger" /\ handler[h].outcome = "accepted" => handler[h].resumable

(* What is accepted for a request is a decision of its kind: an approval    *)
(* is never settled by words meant for a question, nor a question by an     *)
(* approval, though a chat reply is matched to a request only by its sender *)
(* or by the message it quotes.  WhatsApp's webhook is left out: there a    *)
(* text that reads as an approval is one whatever was asked.                *)
DecisionFitsRequest ==
    \A h \in Handlers :
        handler[h].outcome = "accepted" /\ handler[h].in.path # "inbound" =>
            (KindOf[handler[h].req] = "approval" <=> handler[h].key \in Approvals)

(* "Reusing the same URL or decision after a successful submit should      *)
(* produce duplicate/conflict behavior": of two deliveries of one reply,   *)
(* naming the same request and saying the same, at most one is accepted.   *)
RepeatedReplyAcceptedOnce ==
    \A g, h \in Handlers :
        (/\ handler[g].in = handler[h].in
         /\ handler[g].in.how # "sender"
         /\ handler[g].outcome = "accepted"
         /\ handler[h].outcome = "accepted") => g = h

(* Answering decides: with the Postgres store, a handler that starts to    *)
(* consume leaves the request decided, by it or by another handler, unless *)
(* it fails itself.                                                        *)
AnsweringDecides ==
    \A h \in Handlers :
        handler[h].pc = "update" ~>
            store[handler[h].req].status = "consumed" \/ handler[h].pc = "failed"

(* Whoever is told that a request is already decided can leave it there:   *)
(* the handler that decided it resumes the agent, if it has not yet, unless*)
(* it failed between its write and being told, and then nobody ever does.  *)
AlreadyDecidedResumes ==
    \A h \in Handlers :
        handler[h].outcome \in {"duplicate", "conflict"} ~>
            \E g \in Winners(handler[h].req) :
                handler[g].pc = "emitted" \/ handler[g].outcome = "lost"

(* The store implements a write-once register per request.                 *)
Once == INSTANCE OnceDecision
           WITH decision <- [r \in Requests |-> store[r].key],
                asked    <- [h \in Handlers |->
                               IF handler[h].key = NoKey THEN <<>>
                                                         ELSE <<handler[h].req, handler[h].key>>],
                verdict  <- [h \in Handlers |->
                               IF handler[h].outcome = "missing" THEN "refused"
                                                                 ELSE handler[h].outcome]

ImplementsOnceDecision == Once!Spec
=============================================================================
