------------------------------ MODULE HitlRound ------------------------------
(***************************************************************************)
(* One execution of the Claude Agent SDK node that asks a human, over all  *)
(* its rounds: the agent calls tools, canUseTool answers or asks, the run  *)
(* ends and its one pending interaction is persisted and waited for, a     *)
(* decision arrives through the node's webhook or from a companion node,   *)
(* and the next round applies it.                                          *)
(*                                                                         *)
(* A step is what the code does from one await to the next.  canUseTool    *)
(* may be running for several tool calls at once.  A denial changes        *)
(* nothing and is not a step.  The agent, the webhook's clients and the    *)
(* host, which delivers a request to a waiting execution only, are         *)
(* external.                                                               *)
(***************************************************************************)
EXTENDS Integers, Sequences, FiniteSets, PermissionRules, QuestionAnswers, InteractionStore,
        WebhookAuth

CONSTANTS Workflows,  \* node configurations: the user's settings, and bounds of the model
          Forms,      \* the AskUserQuestion calls: sequences of questions
          PicksOf,    \* PicksOf[f]: the submissions of form f
          Slots,      \* canUseTool callbacks that can be in flight
          Handlers,   \* webhook requests that can be in flight, bounds.posts of them at a time
          MaxAsks,    \* bound on the interactions; a workflow's own is bounds.asks
          MaxClock,   \* bound on the clock; a workflow's own is bounds.clock
          NoCall

Requests == 1 .. MaxAsks

ASSUME HitlAssumption == /\ MaxAsks \in Nat /\ MaxClock \in Nat
                         /\ NoCall \notin Calls /\ DOMAIN PicksOf = Forms
                         /\ \A w \in Workflows :
                               /\ w.bounds \in [asks : 0 .. MaxAsks, clock : 0 .. MaxClock, posts : Nat]
                               /\ w.timeout \in Nat /\ w.stream \in BOOLEAN /\ w.ownsWait \in BOOLEAN
ASSUME FormsAssumption == \A f \in Forms : IsForm(f) /\ \A picks \in PicksOf[f] : IsSubmission(f, picks)

VARIABLES settings,        \* the node's configuration
          phase,
          mode,            \* the permission mode of the round's query
          round,
          approved,        \* approvalHandler's fingerprints
          queuedApproval,  \* pendingApprovalResolution
          queuedAnswer,    \* pendingQuestionResponse
          calls,           \* the callbacks in flight
          pending,         \* runtimePendingState
          asked,           \* the interactions so far; a request is an index into it
          sent,            \* the requests whose links have gone out
          waitTill,
          store, ledger,
          web,             \* the webhook requests in flight
          payload,         \* the response the next round starts with
          now,
          accepts,         \* history: the decisions accepted
          ran,             \* history: the call that ran last in this query, if any
          granted          \* history: what was approved, while every decision had its own record

agentVars == <<approved, queuedApproval, queuedAnswer, calls, pending, asked>>
storeVars == <<store, ledger>>
historyVars == <<accepts, ran, granted>>
vars == <<settings, phase, mode, round, agentVars, sent, waitTill, storeVars, web, payload, now, historyVars>>

NoFp == <<>>
NoForm == <<>>
NoAnswers == [k \in {} |-> <<>>]
NoApproval == [there |-> FALSE, fp |-> NoFp, ok |-> FALSE, input |-> NoCall]
NoAnswer == [there |-> FALSE, form |-> NoForm, picks |-> <<>>, via |-> "form", answers |-> NoAnswers]
Free == [pc |-> "free", r |-> 0]
NoDecision == [kind |-> "none", ok |-> FALSE, input |-> NoCall, picks |-> <<>>, via |-> "form"]
Idle == [pc |-> "idle", r |-> 0, decision |-> NoDecision, record |-> FALSE, fps |-> {}]
NoPayload == [there |-> FALSE, r |-> 0, decision |-> NoDecision, record |-> FALSE,
              fp |-> NoFp, fps |-> {}, override |-> "none"]

Phases == {"start", "query", "persist", "deferred", "waiting", "handed", "done", "failed", "expired"}
Never == MaxClock + 1
-----------------------------------------------------------------------------
(***************************************************************************)
(* Decisions: an approval with or without a new input, a denial, or the    *)
(* answers to a form.                                                      *)
(***************************************************************************)
InputsFor(r) == {c \in Calls \ {asked[r].call} : asked[r].call # NoCall /\ ToolOf[c] = ToolOf[asked[r].call]}
ApprovalDecisions(r) ==
    {[NoDecision EXCEPT !.kind = "approval", !.ok = ok] : ok \in BOOLEAN}
        \cup {[NoDecision EXCEPT !.kind = "approval", !.ok = TRUE, !.input = c] : c \in InputsFor(r)}
AnswerDecisions(r) ==
    IF asked[r].kind # "question" THEN {}
    ELSE {[kind |-> "question", ok |-> TRUE, input |-> NoCall, picks |-> p, via |-> v] :
              p \in PicksOf[asked[r].form], v \in {"form", "json"}}

\* handlePostQuestion: form fields are parsed, a client's own answer map is taken as it is.
AnswersGiven(form, decision) ==
    CASE decision.via = "form"  -> ParseQuestionAnswers(form, decision.picks)
      [] decision.via = "json"  -> AnswersByText(form, decision.picks)
      [] decision.via = "field" -> AnswerOfField(form, decision.picks, 1)

\* buildChannelReplyDecisionKey: two decisions are the same if what they say is.
DecisionKey(r, d) ==
    IF d.kind = "approval" THEN <<"approval", d.ok, d.input>>
    ELSE <<"question", {<<k, AnswersGiven(asked[r].form, d)[k]>> : k \in DOMAIN AnswersGiven(asked[r].form, d)}>>
-----------------------------------------------------------------------------
ParsePermissionsConfig(w) ==
    [w EXCEPT !.sandbox = ApplyOperatorPathPolicy(ParsePathSandbox(@), w.operatorPlaces),
              !.filter = ParseContentFilter(@, w.blockEnvFiles)]

\* parsePermissionsConfig and the operator's policy: the configuration of every round.
Config == ParsePermissionsConfig(settings)

Init ==
    /\ settings \in Workflows
    /\ phase = "start" /\ mode = "default" /\ round = 0
    /\ approved = {} /\ queuedApproval = NoApproval /\ queuedAnswer = NoAnswer
    /\ calls = [s \in Slots |-> Free] /\ pending = {} /\ asked = <<>>
    /\ sent = {} /\ waitTill = Never
    /\ store = [r \in Requests |-> NoRecord] /\ ledger = [r \in Requests |-> NoEntry]
    /\ web = [w \in Handlers |-> Idle]
    /\ payload = NoPayload /\ now = 0
    /\ accepts = <<>> /\ ran = {} /\ granted = {}
-----------------------------------------------------------------------------
(***************************************************************************)
(* The beginning of a round: setupInteractiveApprovals applies the         *)
(* response, if there is one, and the callback is created.  A form that    *)
(* completes the task ends the execution without a query.                  *)
(***************************************************************************)
Configurable ==
    StoreAvailable(settings.host) /\ SandboxParses(settings.sandbox) /\ AgtCompiles(settings.agt)

SetupFails ==
    /\ phase = "start"
    /\ ~Configurable
    /\ phase' = "failed"
    /\ UNCHANGED <<settings, mode, round, agentVars, sent, waitTill, storeVars, web, payload, now, historyVars>>

CanSetUp == phase = "start" /\ Configurable

\* What applyHitlResponse makes of the payload of an approval.
ApprovalOf(p) == [there |-> TRUE, fp |-> p.fp, ok |-> p.decision.ok, input |-> p.decision.input]
AnswerOf(p) == [there |-> TRUE, form |-> asked[p.r].form, picks |-> p.decision.picks,
                via |-> p.decision.via, answers |-> AnswersGiven(asked[p.r].form, p.decision)]

\* applyPermissionModeOverride, on top of the mode of a run with approvals.
OverriddenMode(p) ==
    IF /\ p.decision.kind = "approval" /\ p.decision.ok
       /\ settings.allowOverride /\ p.override \in settings.overrideModes
    THEN ClampPermissionMode(p.override, settings.operatorModes) ELSE "default"

\* Mutant: the fingerprints of the record are not restored.
RestoredNothing(p) == IF p.decision.kind = "approval" /\ p.decision.ok /\ p.fp # NoFp THEN {p.fp} ELSE {}

\* restoreApprovedFingerprints, and the fingerprint the approval itself names.
Restored(p) ==
    p.fps \cup (IF p.decision.kind = "approval" /\ p.decision.ok /\ p.fp # NoFp THEN {p.fp} ELSE {})

Complete(p) ==
    /\ p.there /\ p.decision.kind = "question"
    /\ ResolveQuestionResponseAction(asked[p.r].form, AnswersGiven(asked[p.r].form, p.decision)) = "complete"

PassThrough ==
    /\ CanSetUp /\ Complete(payload)
    /\ phase' = "done"
    /\ UNCHANGED <<settings, mode, round, agentVars, sent, waitTill, storeVars, web, payload, now, historyVars>>

\* The fingerprints approved so far; a decision without its record, or on another request
\* than the one that is waited for, forgets them.
Granted(p) ==
    IF p.there /\ ~(p.record /\ p.r \in pending) THEN {}
    ELSE granted \cup (IF p.decision.kind = "approval" /\ p.decision.ok THEN {p.fp} ELSE {})

Setup ==
    /\ CanSetUp /\ ~Complete(payload)
    /\ phase' = "query"
    /\ mode' = OverriddenMode(payload)
    /\ round' = round + 1
    /\ approved' = Restored(payload)
    /\ queuedApproval' = IF payload.decision.kind = "approval" THEN ApprovalOf(payload) ELSE NoApproval
    /\ queuedAnswer' = IF payload.decision.kind = "question" THEN AnswerOf(payload) ELSE NoAnswer
    /\ pending' = {} /\ calls' = [s \in Slots |-> Free]
    /\ granted' = Granted(payload)
    /\ payload' = NoPayload
    /\ UNCHANGED <<settings, asked, sent, waitTill, storeVars, web, now, accepts, ran>>
-----------------------------------------------------------------------------
(***************************************************************************)
(* The agent's tool calls.  What the hooks deny goes no further; a tool of *)
(* the allowed list, or one the permission mode lets through, runs without *)
(* canUseTool; every other call is answered by it.                         *)
(***************************************************************************)
Run(given, input, how) == ran' = {[given |-> given, input |-> input, how |-> how, mode |-> mode]}

ModeLets(c) == \/ mode = "bypassPermissions"
               \/ mode = "acceptEdits" /\ ToolOf[c] \in FILE_OPERATION_TOOLS

RunUnasked(c) ==
    /\ phase = "query" /\ HooksAdmit(Config, c)
    /\ ToolOf[c] \in settings.allowed \/ ModeLets(c)
    /\ Run(c, c, IF ToolOf[c] \in settings.allowed THEN "allowed" ELSE "mode")
    /\ UNCHANGED <<settings, phase, mode, round, agentVars, sent, waitTill, storeVars, web,
                   payload, now, accepts, granted>>

\* The callback is called, and nothing is pending yet.
CanUseTool(c) ==
    /\ phase = "query" /\ pending = {}
    /\ HooksAdmit(Config, c)
    /\ ToolOf[c] \notin settings.allowed /\ ~ModeLets(c)

IsQueued(c) == /\ queuedApproval.there /\ queuedApproval.fp # NoFp
               /\ queuedApproval.fp = Fingerprint(settings, c)
Candidate(c) == IF queuedApproval.input = NoCall THEN c ELSE queuedApproval.input

\* Mutant: the reviewer's input is not checked again.
ResolveQueuedUnchecked(c) ==
    /\ CanUseTool(c) /\ IsQueued(c)
    /\ queuedApproval' = NoApproval
    /\ IF queuedApproval.ok
       THEN Run(c, Candidate(c), "queued") /\ approved' = approved \cup {queuedApproval.fp}
       ELSE UNCHANGED <<ran, approved>>
    /\ UNCHANGED <<settings, phase, mode, round, queuedAnswer, calls, pending, asked, sent, waitTill,
                   storeVars, web, payload, now, accepts, granted>>

\* The call the decision was about comes again: it is denied, or runs with the reviewer's
\* input if the rules admit that.
ResolveQueued(c) ==
    /\ CanUseTool(c) /\ IsQueued(c)
    /\ queuedApproval' = NoApproval
    /\ IF queuedApproval.ok /\ CheckPermissionRules(Config, Candidate(c), "workdir") # "deny"
       THEN Run(c, Candidate(c), "queued") /\ approved' = approved \cup {queuedApproval.fp}
       ELSE UNCHANGED <<ran, approved>>
    /\ UNCHANGED <<settings, phase, mode, round, queuedAnswer, calls, pending, asked, sent, waitTill,
                   storeVars, web, payload, now, accepts, granted>>

\* Mutant: an approval of one tool lets every tool run.
RunAnyApproved(c) ==
    /\ CanUseTool(c) /\ ~IsQueued(c) /\ approved # {}
    /\ Run(c, c, "approved")
    /\ UNCHANGED <<settings, phase, mode, round, agentVars, sent, waitTill, storeVars, web,
                   payload, now, accepts, granted>>

\* An approved fingerprint lets the call through without another look at the rules.
RunApproved(c) ==
    /\ CanUseTool(c) /\ ~IsQueued(c)
    /\ Fingerprint(settings, c) \in approved
    /\ Run(c, c, "approved")
    /\ UNCHANGED <<settings, phase, mode, round, agentVars, sent, waitTill, storeVars, web,
                   payload, now, accepts, granted>>

\* Out of the approval's scope: the rules decide, and their 'ask' allows.
RunByRules(c) ==
    /\ CanUseTool(c) /\ ~IsQueued(c) /\ Fingerprint(settings, c) \notin approved
    /\ ~ToolRequiresApproval(settings, c)
    /\ CheckPermissionRules(Config, c, "process") # "deny"
    /\ Run(c, c, "rules")
    /\ UNCHANGED <<settings, phase, mode, round, agentVars, sent, waitTill, storeVars, web,
                   payload, now, accepts, granted>>

(***************************************************************************)
(* Asking: the record is saved up to the first await; the interaction      *)
(* becomes pending only after it.                                          *)
(***************************************************************************)
PendingRecord(kind, at) ==
    [NoRecord EXCEPT !.status = "pending", !.kind = kind, !.createdAt = at,
                     !.timeout = settings.timeout, !.fps = approved]

Ask(s, interaction) ==
    LET r == Len(asked) + 1
    IN  /\ calls[s].pc = "free" /\ Len(asked) < settings.bounds.asks
        /\ asked' = Append(asked, interaction)
        /\ store' = SaveInteraction(store, now, r, PendingRecord(interaction.kind, now))
        /\ calls' = [calls EXCEPT ![s] = [pc |-> "saved", r |-> r]]

AskApproval(s, c) ==
    /\ CanUseTool(c) /\ ~IsQueued(c) /\ Fingerprint(settings, c) \notin approved
    /\ ToolRequiresApproval(settings, c)
    /\ CheckPermissionRules(Config, c, "process") # "deny"
    /\ Ask(s, [kind |-> "approval", call |-> c, form |-> NoForm, fp |-> Fingerprint(settings, c),
               round |-> round, at |-> now])
    /\ UNCHANGED <<settings, phase, mode, round, approved, queuedApproval, queuedAnswer, pending, sent,
                   waitTill, ledger, web, payload, now, historyVars>>

\* AskUserQuestion: the queued answer is used up whether or not it answers every question.
Answered(f) == queuedAnswer.there /\ QueuedAnswerCompletes(f, queuedAnswer.answers)

AskQuestion(s, f) ==
    /\ phase = "query" /\ pending = {} /\ ~Answered(f)
    /\ queuedAnswer' = NoAnswer
    /\ Ask(s, [kind |-> "question", call |-> NoCall, form |-> f, fp |-> NoFp, round |-> round, at |-> now])
    /\ UNCHANGED <<settings, phase, mode, round, approved, queuedApproval, pending, sent, waitTill,
                   ledger, web, payload, now, historyVars>>

AnswerQuestion(f) ==
    /\ phase = "query" /\ pending = {} /\ Answered(f)
    /\ queuedAnswer' = NoAnswer
    /\ UNCHANGED <<settings, phase, mode, round, approved, queuedApproval, calls, pending, asked, sent,
                   waitTill, storeVars, web, payload, now, historyVars>>

AddInteraction(s) ==
    /\ phase = "query" /\ calls[s].pc = "saved"
    /\ pending' = pending \cup {calls[s].r}
    /\ calls' = [calls EXCEPT ![s] = IF settings.stream THEN [@ EXCEPT !.pc = "added"] ELSE Free]
    /\ UNCHANGED <<settings, phase, mode, round, approved, queuedApproval, queuedAnswer, asked, sent,
                   waitTill, storeVars, web, payload, now, historyVars>>

\* The in-stream preview of the links, which may fail.
Preview(s) ==
    /\ phase = "query" /\ calls[s].pc = "added"
    /\ sent' \in {sent, sent \cup {calls[s].r}}
    /\ calls' = [calls EXCEPT ![s] = Free]
    /\ UNCHANGED <<settings, phase, mode, round, approved, queuedApproval, queuedAnswer, pending, asked,
                   waitTill, storeVars, web, payload, now, historyVars>>
-----------------------------------------------------------------------------
(***************************************************************************)
(* The end of the query: waitForPendingInteractions persists what is       *)
(* pending, refuses more than one, and waits or hands the request to a     *)
(* companion node.                                                         *)
(***************************************************************************)
\* What only the query used goes with it.
EndOfQuery ==
    /\ phase = "query"
    /\ queuedApproval' = NoApproval /\ queuedAnswer' = NoAnswer /\ mode' = "default"
    /\ calls' = [s \in Slots |-> Free] /\ ran' = {}
    /\ UNCHANGED <<settings, round, approved, pending, asked, sent, waitTill, storeVars, web, payload, now,
                   accepts, granted>>

QueryEnds ==
    /\ \A s \in Slots : calls[s].pc = "free"
    /\ phase' = IF pending = {} THEN "done" ELSE "persist"
    /\ EndOfQuery

\* The query throws: a callback may be in flight, and what it saved stays saved.
QueryAborts == phase' = "failed" /\ EndOfQuery

\* persistPendingInteractions, with the fingerprints of the handler as it is now.
Persisted ==
    LET clean == CleanupExpired(store, now)
    IN  [r \in Requests |-> IF r \in pending /\ clean[r].status # "answered"
                            THEN PendingRecord(asked[r].kind, asked[r].at) ELSE clean[r]]

WaitDeadline == IF settings.timeout = 0 THEN Never ELSE now + settings.timeout

\* Mutant: several pending interactions are waited for, the last one being reported.
WaitForAll ==
    /\ phase = "persist"
    /\ store' = Persisted
    /\ waitTill' = WaitDeadline
    /\ phase' = IF settings.ownsWait THEN "deferred" ELSE "handed"
    /\ UNCHANGED <<settings, mode, round, agentVars, sent, ledger, web, payload, now, historyVars>>

WaitForPendingInteractions ==
    /\ phase = "persist"
    /\ store' = Persisted
    /\ IF Cardinality(pending) > 1
       THEN phase' = "failed" /\ UNCHANGED waitTill
       ELSE /\ phase' = IF settings.ownsWait THEN "deferred" ELSE "handed"
            /\ waitTill' = IF settings.ownsWait THEN WaitDeadline ELSE waitTill
    /\ UNCHANGED <<settings, mode, round, agentVars, sent, ledger, web, payload, now, historyVars>>

\* sendDeferredHitlNotifications: only what the preview did not send, and failures are logged.
SendDeferred ==
    /\ phase = "deferred"
    /\ sent' \in {sent, IF settings.stream THEN sent \cup pending ELSE sent}
    /\ phase' = "waiting"
    /\ UNCHANGED <<settings, mode, round, agentVars, waitTill, storeVars, web, payload, now, historyVars>>

\* The host ends a wait whose deadline has passed.
WaitExpires ==
    /\ phase = "waiting" /\ now >= waitTill
    /\ phase' = "expired"
    /\ UNCHANGED <<settings, mode, round, agentVars, sent, waitTill, storeVars, web, payload, now, historyVars>>

\* Time passes in the steps that take time: the query and the wait.
Tick ==
    /\ now < settings.bounds.clock /\ phase \in {"query", "waiting"}
    /\ now' = now + 1
    /\ UNCHANGED <<settings, phase, mode, round, agentVars, sent, waitTill, storeVars, web, payload, historyVars>>
-----------------------------------------------------------------------------
(***************************************************************************)
(* The node's webhook.  A GET shows a page and consumes nothing; a POST is *)
(* authenticated, looks the record up, consumes the decision and answers.  *)
(* An approval may be posted for any link, answers only for a form's.      *)
(***************************************************************************)
Requestors == [proof : Proofs, named : BOOLEAN]
Goes(w, l) == web' = [web EXCEPT ![w] = l]

\* webhook, GET: the lookup drops what has expired.
Visit(r) ==
    /\ phase = "waiting" /\ r \in sent
    /\ store' = CleanupExpired(store, now)
    /\ UNCHANGED <<settings, phase, mode, round, agentVars, sent, waitTill, ledger, web, payload, now, historyVars>>

Post(w, r, d) ==
    LET found == CleanupExpired(store, now)[r]
    IN  /\ phase = "waiting" /\ r \in sent /\ web[w].pc = "idle"
        /\ Cardinality({h \in Handlers : web[h].pc # "idle"}) < settings.bounds.posts
        /\ \E q \in Requestors : AuthenticateHitlWebhookRequest(settings.auth, q)
        /\ d.kind = "question" => found.kind # "approval"
        /\ store' = CleanupExpired(store, now)
        /\ Goes(w, [pc |-> "found", r |-> r, decision |-> d, record |-> found.status # "none", fps |-> {}])
        /\ UNCHANGED <<settings, phase, mode, round, agentVars, sent, waitTill, ledger, payload, now, historyVars>>

Accept(r, d) == accepts' = Append(accepts, [r |-> r, decision |-> d, at |-> now])

\* The record was there at the lookup: the store decides.
ConsumeRecord(w) ==
    LET r == web[w].r
        d == web[w].decision
        outcome == ConsumeOutcome(store, now, r, d.kind, DecisionKey(r, d))
    IN  /\ web[w].pc = "found" /\ web[w].record
        /\ store' = Consume(store, now, r, d.kind, DecisionKey(r, d))
        /\ IF outcome = "accepted"
           THEN Goes(w, [web[w] EXCEPT !.pc = "respond", !.fps = store[r].fps]) /\ Accept(r, d)
           ELSE Goes(w, Idle) /\ UNCHANGED accepts
        /\ UNCHANGED <<settings, phase, mode, round, agentVars, sent, waitTill, ledger, payload, now, ran, granted>>

\* No record at the lookup: the ledger decides.
ConsumeUnrecorded(w) ==
    LET r == web[w].r
        d == web[w].decision
        outcome == LedgerOutcome(ledger, now, r, DecisionKey(r, d))
    IN  /\ web[w].pc = "found" /\ ~web[w].record
        /\ ledger' = ConsumeLedger(ledger, now, r, DecisionKey(r, d))
        /\ IF outcome = "accepted"
           THEN Goes(w, [web[w] EXCEPT !.pc = "respond"]) /\ Accept(r, d)
           ELSE Goes(w, Idle) /\ UNCHANGED accepts
        /\ UNCHANGED <<settings, phase, mode, round, agentVars, sent, waitTill, store, payload, now, ran, granted>>

\* The payload's security-relevant fields come from the record only.
WebhookPayload(h) ==
    [there |-> TRUE, r |-> h.r, decision |-> h.decision, record |-> h.record,
     fp |-> IF h.record THEN asked[h.r].fp ELSE NoFp, fps |-> h.fps, override |-> "none"]

\* The response is sent and the host runs the node with the payload.
Respond(w) ==
    /\ web[w].pc = "respond"
    /\ Goes(w, Idle)
    /\ IF phase = "waiting"
       THEN phase' = "start" /\ payload' = WebhookPayload(web[w])
       ELSE UNCHANGED <<phase, payload>>
    /\ UNCHANGED <<settings, mode, round, agentVars, sent, waitTill, storeVars, now, historyVars>>

\* Attaching the stream fails: the decision is consumed and nothing is resumed.
RespondFails(w) ==
    /\ web[w].pc = "respond" /\ settings.stream
    /\ Goes(w, Idle)
    /\ UNCHANGED <<settings, phase, mode, round, agentVars, sent, waitTill, storeVars, payload, now, historyVars>>
-----------------------------------------------------------------------------
(***************************************************************************)
(* A companion node owns the wait: it answers once, and its envelope       *)
(* carries the fields of the request it was given and, for an approval,    *)
(* perhaps a permission mode.                                              *)
(***************************************************************************)
Envelope(r, d, override) ==
    [there |-> TRUE, r |-> r, decision |-> d, record |-> TRUE, fp |-> asked[r].fp, fps |-> approved,
     override |-> override]

LoopbackResume(r, d) ==
    /\ phase = "handed" /\ r \in pending
    /\ \E override \in {"none"} \cup settings.overrides : payload' = Envelope(r, d, override)
    /\ phase' = "start"
    /\ Accept(r, d)
    /\ UNCHANGED <<settings, mode, round, agentVars, sent, waitTill, storeVars, web, now, ran, granted>>

\* A raw WhatsApp reply reaches the node: its token has the fingerprint, if anything, and
\* it answers the first question of a form only.
WhatsAppResume(r, d) ==
    /\ phase = "handed" /\ r \in pending
    /\ d.input = NoCall
    /\ \E fp \in {NoFp, asked[r].fp} :
          payload' = [NoPayload EXCEPT !.there = TRUE, !.r = r, !.fp = fp,
                                       !.decision = IF d.kind = "question" THEN [d EXCEPT !.via = "field"] ELSE d]
    /\ phase' = "start"
    /\ Accept(r, d)
    /\ UNCHANGED <<settings, mode, round, agentVars, sent, waitTill, storeVars, web, now, ran, granted>>
-----------------------------------------------------------------------------
DecisionsOn(r) == ApprovalDecisions(r) \cup AnswerDecisions(r)
\* What a companion node answers: it knows what it was asked.
RepliesTo(r) == IF asked[r].kind = "approval" THEN ApprovalDecisions(r) ELSE AnswerDecisions(r)

AgentStep ==
    \/ SetupFails \/ PassThrough \/ Setup \/ QueryEnds \/ QueryAborts
    \/ \E c \in Calls : RunUnasked(c) \/ ResolveQueued(c) \/ RunApproved(c) \/ RunByRules(c)
    \/ \E s \in Slots, c \in Calls : AskApproval(s, c)
    \/ \E s \in Slots, f \in Forms : AskQuestion(s, f)
    \/ \E f \in Forms : AnswerQuestion(f)
    \/ \E s \in Slots : AddInteraction(s) \/ Preview(s)
    \/ WaitForPendingInteractions \/ SendDeferred
WebhookStep ==
    \/ \E w \in Handlers, r \in sent : \E d \in DecisionsOn(r) : Post(w, r, d)
    \/ \E r \in sent : Visit(r)
    \/ \E w \in Handlers : ConsumeRecord(w) \/ ConsumeUnrecorded(w) \/ Respond(w) \/ RespondFails(w)
CompanionStep == \E r \in pending : \E d \in RepliesTo(r) : LoopbackResume(r, d) \/ WhatsAppResume(r, d)

Next == AgentStep \/ WebhookStep \/ CompanionStep \/ WaitExpires \/ Tick
Spec == Init /\ [][Next]_vars
-----------------------------------------------------------------------------
Asked == 1 .. Len(asked)
Fps == Fingerprints \cup {NoFp}

Submissions == {<<>>} \cup UNION {PicksOf[f] : f \in Forms}
Inputs == Calls \cup {NoCall}
Decision == [kind : {"none", "approval", "question"}, ok : BOOLEAN, input : Inputs,
             picks : Submissions, via : {"form", "json", "field"}]
Interaction ==
    [kind : {"approval"}, call : Calls, form : {NoForm}, fp : Fingerprints, round : Nat, at : Nat]
        \cup [kind : {"question"}, call : {NoCall}, form : Forms, fp : {NoFp}, round : Nat, at : Nat]
KeysOf(f) ==
    {<<"question", {<<k, AnswersGiven(f, d)[k]>> : k \in DOMAIN AnswersGiven(f, d)}>> :
        d \in {d \in Decision : d.picks \in PicksOf[f]}}
Keys == {NoKey} \cup {"approval"} \X BOOLEAN \X Inputs \cup UNION {KeysOf(f) : f \in Forms}
Record == [status : {"none", "pending", "answered"}, kind : {"none", "approval", "question"},
           createdAt : Nat, timeout : Nat, fps : SUBSET Fingerprints, answeredAt : Nat, key : Keys]
Entry == [there : BOOLEAN, key : Keys, consumedAt : Nat]

\* The types of the variables.
TypeOK ==
    /\ settings \in Workflows
    /\ phase \in Phases /\ mode \in PermissionModes /\ round \in Nat
    /\ approved \subseteq Fingerprints /\ granted \subseteq Fps
    /\ queuedApproval \in [there : BOOLEAN, fp : Fps, ok : BOOLEAN, input : Inputs]
    /\ asked \in Seq(Interaction) /\ Len(asked) <= MaxAsks
    /\ calls \in [Slots -> [pc : {"free", "saved", "added"}, r : {0} \cup Asked]]
    /\ pending \subseteq Asked /\ sent \subseteq Asked
    /\ store \in [Requests -> Record] /\ ledger \in [Requests -> Entry]
    /\ web \in [Handlers -> [pc : {"idle", "found", "respond"}, r : {0} \cup Asked, decision : Decision,
                             record : BOOLEAN, fps : SUBSET Fingerprints]]
    /\ payload \in [there : BOOLEAN, r : {0} \cup Asked, decision : Decision, record : BOOLEAN, fp : Fps,
                    fps : SUBSET Fingerprints, override : {payload.override}]
    /\ accepts \in Seq([r : Asked, decision : Decision, at : Nat])
    /\ now \in 0 .. MaxClock /\ waitTill \in Nat

AcceptedOn(r) == \E i \in DOMAIN accepts : accepts[i].r = r
Outlived(r) == Expired(PendingRecord(asked[r].kind, asked[r].at), now)

(***************************************************************************)
(* A waiting execution waits for one interaction, whose record is there to *)
(* take the answer unless it was answered or has outlived its timeout      *)
(* (assertSinglePendingInteraction against callbacks that overlap).        *)
(***************************************************************************)
WaitsForOne ==
    phase = "waiting" =>
        \E r \in Asked : /\ pending = {r}
                        /\ (store[r].status = "pending" \/ AcceptedOn(r) \/ Outlived(r))

(***************************************************************************)
(* A call that needs approval and that the callback let run was approved   *)
(* by an accepted decision on its fingerprint, in this or an earlier       *)
(* round, and a reviewer's input is the one that decision gave; a call the *)
(* mode let run ran in a mode an approval brought and the operator allows. *)
(***************************************************************************)
ApprovedBeforeRun ==
    \A x \in ran :
        /\ x.how \in {"queued", "approved"} =>
              \E i \in DOMAIN accepts :
                  /\ accepts[i].decision.kind = "approval" /\ accepts[i].decision.ok
                  /\ asked[accepts[i].r].fp = Fingerprint(settings, x.given)
                  /\ x.input # x.given => accepts[i].decision.input = x.input
        /\ x.how = "rules" => ~ToolRequiresApproval(settings, x.given)
        /\ x.how = "mode" => /\ \E i \in DOMAIN accepts : accepts[i].decision.ok
                             /\ x.mode \in settings.overrideModes
                             /\ (settings.operatorModes # {} => x.mode \in settings.operatorModes)

(***************************************************************************)
(* What ran was admitted by the rules in the agent's directory: the input  *)
(* the agent gave by the hooks, the input a reviewer put in its place by   *)
(* the rules, although an approved fingerprint skips them.                 *)
(***************************************************************************)
RulesHold ==
    \A x \in ran : /\ HooksAdmit(Config, x.given)
                   /\ EvaluatePermissionDecision(Config, x.input, "workdir") # "deny"
                   /\ ~CheckContentFilter(x.input, Config.filter)

(***************************************************************************)
(* What was approved in an earlier round is not asked again, as long as    *)
(* every decision since was on the request that was waited for and found   *)
(* its record: the fingerprints travel through the record of each          *)
(* interaction in between.                                                 *)
(***************************************************************************)
ApprovalsAreKept == \A r \in pending : asked[r].kind = "approval" => asked[r].fp \notin granted

(***************************************************************************)
(* Two decisions on one request are accepted only if the first is older    *)
(* than what the store and the ledger remember.                            *)
(***************************************************************************)
DecidedOnce ==
    \A i, j \in DOMAIN accepts :
        i < j /\ accepts[i].r = accepts[j].r => accepts[j].at > accepts[i].at + AnsweredMaxAge

(***************************************************************************)
(* A wait is ended by a decision on the request it waits for: the links of *)
(* earlier rounds, which lead to the same execution, do not end it as long *)
(* as every decision so far is remembered.                                 *)
(***************************************************************************)
EndsOwnWait ==
    [][phase = "waiting" /\ phase' = "start" =>
          \/ payload'.r \in pending
          \/ \E i \in DOMAIN accepts : now > accepts[i].at + AnsweredMaxAge]_vars

(***************************************************************************)
(* The answers a responder gave on the form are the ones the agent gets    *)
(* when it asks the form again, if its names are distinct and its labels   *)
(* free of commas.                                                         *)
(***************************************************************************)
FormAnswerIsUsed ==
    LET f == queuedAnswer.form
        picked == Picked(f, queuedAnswer.picks)
    IN  /\ queuedAnswer.there /\ queuedAnswer.via = "form" /\ Unambiguous(f) /\ CommaFree(f)
        => \A text \in DOMAIN picked :
              picked[text] # <<>> => /\ text \in DOMAIN MappedAnswers(f, queuedAnswer.answers)
                                     /\ MappedAnswers(f, queuedAnswer.answers)[text] = picked[text]
=============================================================================
