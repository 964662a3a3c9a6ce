--------------------------- MODULE HitlRound_proofs ---------------------------
(***************************************************************************)
(* Proofs about HitlRound, for any number of tool callbacks and webhook    *)
(* requests in flight, any calls, forms and workflows, and ages, clocks    *)
(* and numbers of interactions of any size.                                *)
(***************************************************************************)
EXTENDS HitlRound, FiniteSetTheorems, SequenceTheorems, MessageFold_proofs

Active(w) == web[w].pc # "idle"
\* A decision that request r can get.
Fits(r, d) == /\ r \in Asked /\ d.kind # "none"
              /\ d.kind = "question" => /\ asked[r].kind = "question"
                                        /\ d.picks \in PicksOf[asked[r].form]

(***************************************************************************)
(* Rounds: what is in flight, pending, sent and decided belongs to this    *)
(* round or to an earlier one.                                             *)
(***************************************************************************)
OwnerInv ==
    /\ phase \in {"deferred", "waiting"} => settings.ownsWait
    /\ phase = "handed" => ~settings.ownsWait
    /\ ~settings.ownsWait => \A w \in Handlers : ~Active(w)
CallsInv ==
    /\ \A s \in Slots : calls[s].pc # "free" =>
          phase = "query" /\ calls[s].r \in Asked /\ asked[calls[s].r].round = round
    /\ \A s \in Slots : calls[s].pc = "added" => calls[s].r \in pending
PendingInv ==
    /\ \A r \in Asked : asked[r].round <= round
    /\ \A r \in pending : asked[r].round = round
    /\ phase = "persist" => pending # {}
    /\ \A r \in sent : asked[r].round < round \/ r \in pending
DecidedInv ==
    /\ \A i \in DOMAIN accepts : Fits(accepts[i].r, accepts[i].decision)
    /\ phase \in {"query", "persist", "deferred", "handed"} =>
          \A i \in DOMAIN accepts : asked[accepts[i].r].round < round
WebInv ==
    /\ \A w \in Handlers : Active(w) => web[w].r \in sent /\ Fits(web[w].r, web[w].decision)
    /\ phase \in {"query", "persist", "deferred"} =>
          \A w \in Handlers : Active(w) => asked[web[w].r].round < round
PayloadInv ==
    payload.there => Fits(payload.r, payload.decision)
RoundInv == OwnerInv /\ CallsInv /\ PendingInv /\ DecidedInv /\ WebInv /\ PayloadInv

(***************************************************************************)
(* The record and the ledger remember every decision for as long as the    *)
(* age says.                                                               *)
(***************************************************************************)
Remembered(i) ==
    LET r == accepts[i].r
    IN  \/ now > accepts[i].at + AnsweredMaxAge
        \/ store[r].status = "answered" /\ store[r].answeredAt = accepts[i].at
        \/ ledger[r].there /\ ledger[r].consumedAt = accepts[i].at
StoreInv ==
    /\ \A r \in Requests : store[r].status = "pending" => ~AcceptedOn(r)
    /\ \A r \in Requests : store[r].status = "answered" => AcceptedOn(r)
    /\ \A w \in Handlers : web[w].pc = "found" /\ ~web[w].record => store[web[w].r].status = "none"
    /\ \A i \in DOMAIN accepts : Remembered(i)
MemoryInv == (settings.ownsWait => StoreInv) /\ DecidedOnce

Awaited(r) ==
    /\ store[r].status = "none" => AcceptedOn(r) \/ Outlived(r)
    /\ store[r].status = "pending" => store[r].createdAt = asked[r].at /\ store[r].timeout = settings.timeout
WaitInv == phase \in {"deferred", "waiting"} => \E r \in Asked : pending = {r} /\ Awaited(r)

(***************************************************************************)
(* What is approved was approved by a decision.                            *)
(***************************************************************************)
Approves(i) == accepts[i].decision.kind = "approval" /\ accepts[i].decision.ok
ApprovedFp(fp) == \E i \in DOMAIN accepts : Approves(i) /\ asked[accepts[i].r].fp = fp
DecidedWith(r, d) == \E i \in DOMAIN accepts : accepts[i].r = r /\ accepts[i].decision = d

CarriedInv ==
    /\ \A fp \in approved : ApprovedFp(fp)
    /\ \A r \in Requests : \A fp \in store[r].fps : ApprovedFp(fp)
    /\ \A w \in Handlers : \A fp \in web[w].fps : ApprovedFp(fp)
    /\ \A fp \in payload.fps : ApprovedFp(fp)
ResponseInv ==
    /\ \A w \in Handlers : web[w].pc = "respond" => DecidedWith(web[w].r, web[w].decision)
    /\ payload.decision.kind = "approval" =>
          /\ payload.r \in Asked /\ DecidedWith(payload.r, payload.decision)
          /\ payload.fp \in {NoFp, asked[payload.r].fp}
QueuedInv ==
    queuedApproval.there /\ queuedApproval.ok /\ queuedApproval.fp # NoFp =>
        \E i \in DOMAIN accepts : /\ Approves(i)
                                  /\ asked[accepts[i].r].fp = queuedApproval.fp
                                  /\ accepts[i].decision.input = queuedApproval.input
ModeInv ==
    mode # "default" => /\ \E i \in DOMAIN accepts : accepts[i].decision.ok
                        /\ mode \in settings.overrideModes
                        /\ (settings.operatorModes # {} => mode \in settings.operatorModes)
ApprovalInv == CarriedInv /\ ResponseInv /\ QueuedInv /\ ModeInv /\ ApprovedBeforeRun

(***************************************************************************)
(* What was granted is approved, and travels with the record.              *)
(***************************************************************************)
HasGranted(fps) == granted \subseteq fps \cup {NoFp}
AskedAnew(r) == asked[r].kind = "approval" => asked[r].fp \notin granted
HandlerKeeps == phase \in {"query", "persist", "deferred", "handed"} => HasGranted(approved)
AsksAnew == /\ \A s \in Slots : calls[s].pc # "free" => AskedAnew(calls[s].r)
            /\ \A r \in pending : AskedAnew(r)
RecordKeeps == phase \in {"deferred", "waiting"} =>
                  \A r \in pending : store[r].status = "pending" => HasGranted(store[r].fps)
RequestKeeps == phase = "waiting" => \A w \in Handlers :
                   web[w].pc = "respond" /\ web[w].record /\ web[w].r \in pending => HasGranted(web[w].fps)
PayloadKeeps == phase = "start" =>
                   /\ ~payload.there => granted = {}
                   /\ payload.there /\ payload.record /\ payload.r \in pending => HasGranted(payload.fps)
KeptInv == HandlerKeeps /\ AsksAnew /\ RecordKeeps /\ RequestKeeps /\ PayloadKeeps

(***************************************************************************)
(* As long as every decision is remembered, what was sent in an earlier    *)
(* round is decided, and only the request waited for can be answered.      *)
(***************************************************************************)
Fresh == \A i \in DOMAIN accepts : now <= accepts[i].at + AnsweredMaxAge
Busy == {"start", "query", "persist", "deferred"}
SentInv ==
    phase \in Busy \cup {"waiting"} =>
        \A r \in sent : AcceptedOn(r) \/ (r \in pending /\ phase # "start")
AnswerInv ==
    /\ phase \in Busy => \A w \in Handlers : web[w].pc # "respond"
    /\ phase = "waiting" =>
          /\ \A w \in Handlers : web[w].pc = "respond" => web[w].r \in pending
          /\ \A g, h \in Handlers : web[g].pc = "respond" /\ web[h].pc = "respond" => g = h
FreshInv == Fresh /\ settings.ownsWait => SentInv /\ AnswerInv

-----------------------------------------------------------------------------
(***************************************************************************)
(* Types.                                                                  *)
(***************************************************************************)
LEMMA NoRecordTyped == NoRecord \in Record /\ NoEntry \in Entry /\ NoDecision \in Decision
BY DEF NoRecord, NoEntry, NoDecision, Record, Entry, Decision, Keys, NoKey, Submissions, Inputs

\* What a store holds once the expired records are gone.
LEMMA CleanupFacts ==
    ASSUME NEW s \in [Requests -> Record], NEW t \in Nat
    PROVE  /\ CleanupExpired(s, t) \in [Requests -> Record]
           /\ \A r \in Requests : CleanupExpired(s, t)[r] =
                 IF s[r].status # "none" /\ Expired(s[r], t) THEN NoRecord ELSE s[r]
BY NoRecordTyped DEF CleanupExpired

\* A request's record is saved unless it is answered.
LEMMA SaveFacts ==
    ASSUME NEW s \in [Requests -> Record], NEW t \in Nat, NEW r \in Requests, NEW rec \in Record
    PROVE  /\ SaveInteraction(s, t, r, rec) \in [Requests -> Record]
           /\ \A q \in Requests \ {r} : SaveInteraction(s, t, r, rec)[q] = CleanupExpired(s, t)[q]
           /\ SaveInteraction(s, t, r, rec)[r] =
                 IF CleanupExpired(s, t)[r].status = "answered" THEN CleanupExpired(s, t)[r] ELSE rec
<1> DEFINE clean == CleanupExpired(s, t)
<1>1. clean \in [Requests -> Record]
  BY CleanupFacts
<1> HIDE DEF clean
<1>2. SaveInteraction(s, t, r, rec) =
        [clean EXCEPT ![r] = IF clean[r].status = "answered" THEN clean[r] ELSE rec]
  BY <1>1 DEF SaveInteraction, clean
<1>3. CleanupExpired(s, t) = clean
  BY DEF clean
<1> QED
  BY <1>1, <1>2, <1>3

\* A decision is taken by a pending record of its kind.
LEMMA ConsumeFacts ==
    ASSUME NEW s \in [Requests -> Record], NEW t \in Nat, NEW r \in Requests,
           NEW kind \in {"approval", "question"}, NEW key \in Keys
    PROVE  /\ Consume(s, t, r, kind, key) \in [Requests -> Record]
           /\ \A q \in Requests \ {r} : Consume(s, t, r, kind, key)[q] = CleanupExpired(s, t)[q]
           /\ ConsumeOutcome(s, t, r, kind, key) # "accepted" =>
                 Consume(s, t, r, kind, key) = CleanupExpired(s, t)
           /\ ConsumeOutcome(s, t, r, kind, key) = "accepted" =>
                 LET old == CleanupExpired(s, t)[r]
                     new == Consume(s, t, r, kind, key)[r]
                 IN  /\ old = s[r] /\ s[r].status = "pending"
                     /\ new.status = "answered" /\ new.answeredAt = t /\ new.fps = old.fps
<1> DEFINE clean == CleanupExpired(s, t)
           outcome == ConsumeOutcome(s, t, r, kind, key)
           after == Consume(s, t, r, kind, key)
           rec == [clean[r] EXCEPT !.status = "answered", !.answeredAt = t, !.key = key]
<1>1. clean \in [Requests -> Record]
  BY CleanupFacts
<1>2. clean[r] = s[r] \/ clean[r] = NoRecord
  BY CleanupFacts
<1>3. outcome = "accepted" => clean[r].status = "pending" /\ clean[r].kind = kind
  BY <1>1 DEF ConsumeOutcome, Record
<1>4. outcome = "accepted" => clean[r] = s[r]
  BY <1>2, <1>3 DEF NoRecord
<1>5. outcome # "accepted" => after = clean
  BY DEF Consume
<1> HIDE DEF clean
<1>6. clean[r] \in Record
  BY <1>1
<1>7. /\ rec \in Record
      /\ rec.status = "answered" /\ rec.answeredAt = t /\ rec.fps = clean[r].fps
  BY <1>6 DEF Record
<1>8. ASSUME outcome = "accepted"
      PROVE  after = [clean EXCEPT ![r] = rec]
  <2>1. after = [clean EXCEPT ![r].status = "answered", ![r].answeredAt = t, ![r].key = key]
    BY <1>8 DEF Consume, clean
  <2> QED
    BY <2>1, <1>1
<1>9. CleanupExpired(s, t) = clean
  BY DEF clean
<1> HIDE DEF rec, outcome, after
<1>10. /\ after \in [Requests -> Record]
       /\ \A q \in Requests \ {r} : after[q] = clean[q]
       /\ outcome # "accepted" => after = clean
       /\ outcome = "accepted" => /\ clean[r] = s[r] /\ s[r].status = "pending"
                                  /\ after[r].status = "answered" /\ after[r].answeredAt = t
                                  /\ after[r].fps = clean[r].fps
  BY <1>1, <1>3, <1>4, <1>5, <1>7, <1>8
<1> QED
  BY <1>9, <1>10 DEF outcome, after

\* The ledger takes a decision on a request it has no fresh entry of.
LEMMA LedgerFacts ==
    ASSUME NEW l \in [Requests -> Entry], NEW t \in Nat, NEW r \in Requests, NEW key \in Keys
    PROVE  /\ ConsumeLedger(l, t, r, key) \in [Requests -> Entry]
           /\ \A q \in Requests : l[q].there =>
                 t > l[q].consumedAt + AnsweredMaxAge \/ ConsumeLedger(l, t, r, key)[q] = l[q]
           /\ LedgerOutcome(l, t, r, key) = "accepted" =>
                 /\ l[r].there => t > l[r].consumedAt + AnsweredMaxAge
                 /\ ConsumeLedger(l, t, r, key)[r].there
                 /\ ConsumeLedger(l, t, r, key)[r].consumedAt = t
<1> DEFINE clean == PurgeLedger(l, t)
           new == [there |-> TRUE, key |-> key, consumedAt |-> t]
<1>1. clean \in [Requests -> Entry]
  BY NoRecordTyped DEF PurgeLedger
<1>2. \A q \in Requests : clean[q] = IF l[q].there /\ t > l[q].consumedAt + AnsweredMaxAge THEN NoEntry ELSE l[q]
  BY DEF PurgeLedger
<1>3. new \in Entry /\ new.there /\ new.consumedAt = t
  BY DEF Entry
<1>4. LedgerOutcome(l, t, r, key) = "accepted" => ~clean[r].there
  BY DEF LedgerOutcome
<1>5. ConsumeLedger(l, t, r, key) = IF clean[r].there THEN clean ELSE [clean EXCEPT ![r] = new]
  BY DEF ConsumeLedger
<1>6. ~NoEntry.there
  BY DEF NoEntry
<1>7. \A q \in Requests : l[q].there \in BOOLEAN
  BY DEF Entry
<1> HIDE DEF clean, new
<1>8. ConsumeLedger(l, t, r, key) \in [Requests -> Entry]
  BY <1>1, <1>3, <1>5
<1>9. ASSUME NEW q \in Requests, l[q].there
      PROVE  t > l[q].consumedAt + AnsweredMaxAge \/ ConsumeLedger(l, t, r, key)[q] = l[q]
  <2>1. CASE t > l[q].consumedAt + AnsweredMaxAge
    BY <2>1
  <2>2. CASE ~(t > l[q].consumedAt + AnsweredMaxAge)
    <3>1. clean[q] = l[q]
      BY <1>2, <2>2
    <3>2. ~clean[r].there => q # r
      BY <3>1, <1>9
    <3> QED
      BY <3>1, <3>2, <1>1, <1>5
  <2> QED
    BY <2>1, <2>2
<1>10. ASSUME LedgerOutcome(l, t, r, key) = "accepted"
       PROVE  /\ l[r].there => t > l[r].consumedAt + AnsweredMaxAge
              /\ ConsumeLedger(l, t, r, key)[r].there
              /\ ConsumeLedger(l, t, r, key)[r].consumedAt = t
  <2>1. ConsumeLedger(l, t, r, key)[r] = new
    BY <1>1, <1>4, <1>5, <1>10
  <2>2. l[r].there => t > l[r].consumedAt + AnsweredMaxAge
    BY <1>2, <1>4, <1>10
  <2> QED
    BY <2>1, <2>2, <1>3
<1> QED
  BY <1>8, <1>9, <1>10

\* A decision that fits its request has a key.
LEMMA KeyTyped ==
    ASSUME NEW r, NEW d \in Decision, asked \in Seq(Interaction), Fits(r, d)
    PROVE  DecisionKey(r, d) \in Keys /\ d.kind \in {"approval", "question"}
<1>1. d.kind \in {"approval", "question"}
  BY DEF Fits, Decision
<1>2. CASE d.kind = "approval"
  <2>1. d.ok \in BOOLEAN /\ d.input \in Inputs
    BY DEF Decision
  <2>2. DecisionKey(r, d) = <<"approval", d.ok, d.input>>
    BY <1>2 DEF DecisionKey
  <2> QED
    BY <2>1, <2>2, <1>1 DEF Keys
<1>3. CASE d.kind = "question"
  <2>1. asked[r].kind = "question" /\ d.picks \in PicksOf[asked[r].form] /\ r \in Asked
    BY <1>3 DEF Fits
  <2>2. asked[r] \in Interaction
    BY <2>1 DEF Asked
  <2>3. asked[r].form \in Forms
    BY <2>1, <2>2 DEF Interaction
  <2>4. DecisionKey(r, d) \in KeysOf(asked[r].form)
    BY <1>3, <2>1 DEF DecisionKey, KeysOf
  <2> QED
    BY <2>3, <2>4, <1>1 DEF Keys
<1> QED
  BY <1>1, <1>2, <1>3

LEMMA FingerprintTyped ==
    ASSUME NEW c \in Calls
    PROVE  Fingerprint(settings, c) \in Fingerprints /\ Fingerprint(settings, c) # NoFp
BY DEF Fingerprint, Fingerprints, Tools, NoFp

LEMMA FingerprintsNamed == NoFp \notin Fingerprints
<1>1. \A t \in Tools : <<t>> # <<>>
  OBVIOUS
<1>2. \A c \in Calls : <<ToolOf[c], c>> # <<>>
  OBVIOUS
<1> QED
  BY <1>1, <1>2 DEF Fingerprints, NoFp

LEMMA SettingsTyped ==
    ASSUME TypeOK
    PROVE  /\ settings.timeout \in Nat /\ settings.stream \in BOOLEAN /\ settings.ownsWait \in BOOLEAN
           /\ settings.bounds.asks \in 0 .. MaxAsks /\ settings.bounds.clock \in 0 .. MaxClock
           /\ MaxAsks \in Nat /\ MaxClock \in Nat /\ AnsweredMaxAge \in Nat /\ now \in Nat
<1>1. settings \in Workflows /\ now \in 0 .. MaxClock
  BY DEF TypeOK
<1> QED
  BY <1>1, HitlAssumption, AgesAssumption

\* What a conjunct of TypeOK says of its variable.
LEMMA AskedTyped ==
    ASSUME TypeOK
    PROVE  /\ Len(asked) \in Nat /\ Asked \subseteq Requests
           /\ \A r \in Asked : r \in Nat /\ asked[r] \in Interaction
           /\ \A r \in Asked : /\ asked[r].kind \in {"approval", "question"} /\ asked[r].fp \in Fps
                               /\ asked[r].at \in Nat /\ asked[r].round \in Nat
                               /\ asked[r].kind = "approval" => asked[r].fp \in Fingerprints
<1>1. asked \in Seq(Interaction) /\ Len(asked) <= MaxAsks
  BY DEF TypeOK
<1>2. Len(asked) \in Nat /\ Asked \subseteq Requests
  BY <1>1, HitlAssumption DEF Asked, Requests
<1>3. \A r \in Asked : r \in Nat /\ asked[r] \in Interaction
  BY <1>1 DEF Asked
<1> QED
  BY <1>2, <1>3 DEF Interaction, Fps

LEMMA PendingRecordTyped ==
    ASSUME TypeOK, NEW kind \in {"approval", "question"}, NEW at \in Nat
    PROVE  LET rec == PendingRecord(kind, at)
           IN  /\ rec \in Record /\ rec.status = "pending" /\ rec.createdAt = at
               /\ rec.timeout = settings.timeout /\ rec.fps = approved
<1>1. approved \subseteq Fingerprints /\ settings.timeout \in Nat
  BY SettingsTyped DEF TypeOK
<1> QED
  BY <1>1, NoRecordTyped DEF PendingRecord, NoRecord, Record

\* The decisions a client may post, and what a companion may answer, fit their request.
LEMMA DecisionsFit ==
    ASSUME TypeOK, NEW r \in Asked, NEW d \in DecisionsOn(r)
    PROVE  d \in Decision /\ Fits(r, d)
<1>1. asked[r] \in Interaction
  BY AskedTyped
<1>2. CASE d \in ApprovalDecisions(r)
  <2>1. d \in Decision /\ d.kind = "approval"
    BY <1>2 DEF ApprovalDecisions, InputsFor, NoDecision, Decision, Inputs, Submissions
  <2> QED
    BY <2>1 DEF Fits
<1>3. CASE d \in AnswerDecisions(r)
  <2>1. asked[r].kind = "question"
    BY <1>3 DEF AnswerDecisions
  <2>2. PICK p \in PicksOf[asked[r].form], v \in {"form", "json"} :
           d = [kind |-> "question", ok |-> TRUE, input |-> NoCall, picks |-> p, via |-> v]
    BY <1>3, <2>1 DEF AnswerDecisions
  <2>3. asked[r].form \in Forms
    BY <1>1, <2>1 DEF Interaction
  <2>4. p \in Submissions
    BY <2>3 DEF Submissions
  <2> QED
    BY <2>1, <2>2, <2>4 DEF Decision, Fits, Inputs
<1> QED
  BY <1>2, <1>3 DEF DecisionsOn

LEMMA RepliesFit ==
    ASSUME NEW r \in Asked, NEW d \in RepliesTo(r)
    PROVE  d \in DecisionsOn(r)
BY DEF RepliesTo, DecisionsOn

LEMMA InitTypes == Init => TypeOK
<1> SUFFICES ASSUME Init PROVE TypeOK
  OBVIOUS
<1>1. asked = <<>> /\ accepts = <<>> /\ Asked = {}
  BY DEF Init, Asked
<1>2. NoPayload \in [there : BOOLEAN, r : {0} \cup Asked, decision : Decision, record : BOOLEAN, fp : Fps,
                     fps : SUBSET Fingerprints, override : {NoPayload.override}]
  BY NoRecordTyped DEF NoPayload, Fps
<1>3. Idle \in [pc : {"idle", "found", "respond"}, r : {0} \cup Asked, decision : Decision,
                record : BOOLEAN, fps : SUBSET Fingerprints]
  BY NoRecordTyped DEF Idle
<1>4. NoApproval \in [there : BOOLEAN, fp : Fps, ok : BOOLEAN, input : Inputs]
  BY DEF NoApproval, Fps, Inputs
<1>5. Free \in [pc : {"free", "saved", "added"}, r : {0} \cup Asked]
  BY DEF Free
<1>6. Never \in Nat /\ 0 \in 0 .. MaxClock /\ MaxAsks \in Nat
  BY HitlAssumption DEF Never
<1>7. /\ settings \in Workflows /\ phase \in Phases /\ mode \in PermissionModes /\ round \in Nat
      /\ approved = {} /\ granted = {} /\ pending = {} /\ sent = {}
  BY DEF Init, Phases, PermissionModes
<1>8. /\ store \in [Requests -> Record] /\ ledger \in [Requests -> Entry]
  BY NoRecordTyped DEF Init
<1>9. /\ calls = [s \in Slots |-> Free] /\ web = [w \in Handlers |-> Idle] /\ payload = NoPayload
      /\ now = 0 /\ waitTill = Never /\ queuedApproval = NoApproval
  BY DEF Init
<1>10. asked \in Seq(Interaction) /\ Len(asked) <= MaxAsks /\ accepts \in Seq([r : Asked, decision : Decision, at : Nat])
  BY <1>1, <1>6
<1>11. /\ calls \in [Slots -> [pc : {"free", "saved", "added"}, r : {0} \cup Asked]]
       /\ web \in [Handlers -> [pc : {"idle", "found", "respond"}, r : {0} \cup Asked, decision : Decision,
                                record : BOOLEAN, fps : SUBSET Fingerprints]]
  BY <1>3, <1>5, <1>9
<1> QED
  BY <1>2, <1>4, <1>6, <1>7, <1>8, <1>9, <1>10, <1>11 DEF TypeOK

CallState == [pc : {"free", "saved", "added"}, r : {0} \cup Asked]
WebState == [pc : {"idle", "found", "respond"}, r : {0} \cup Asked, decision : Decision,
             record : BOOLEAN, fps : SUBSET Fingerprints]
PayloadState(p) == p \in [there : BOOLEAN, r : {0} \cup Asked, decision : Decision, record : BOOLEAN, fp : Fps,
                          fps : SUBSET Fingerprints, override : {p.override}]

LEMMA ConstantsTyped ==
    /\ NoApproval \in [there : BOOLEAN, fp : Fps, ok : BOOLEAN, input : Inputs]
    /\ Free \in CallState /\ Idle \in WebState /\ PayloadState(NoPayload)
    /\ Free.pc = "free" /\ Idle.pc = "idle" /\ ~NoPayload.there /\ NoPayload.decision.kind = "none"
BY NoRecordTyped DEF NoApproval, Fps, Inputs, Free, CallState, Idle, WebState, NoPayload, PayloadState, NoDecision

\* A step of the query that asks nothing.
QueryStep == /\ phase = "query"
             /\ UNCHANGED <<settings, phase, mode, round, calls, pending, asked, sent, waitTill,
                            store, ledger, web, payload, now, accepts, granted>>
             /\ approved' \subseteq approved \cup
                   (IF queuedApproval.there /\ queuedApproval.ok THEN {queuedApproval.fp} \ {NoFp} ELSE {})
             /\ queuedApproval' \in {queuedApproval, NoApproval}

LEMMA QuerySteps ==
    ASSUME \/ \E c \in Calls : RunUnasked(c) \/ ResolveQueued(c) \/ RunApproved(c) \/ RunByRules(c)
           \/ \E f \in Forms : AnswerQuestion(f)
    PROVE  QueryStep
<1>1. ASSUME NEW c \in Calls, RunUnasked(c) PROVE QueryStep
  BY <1>1 DEF QueryStep, RunUnasked, agentVars, storeVars
<1>2. ASSUME NEW c \in Calls, ResolveQueued(c) PROVE QueryStep
  <2>1. queuedApproval.fp # NoFp /\ queuedApproval.there /\ phase = "query"
    BY <1>2 DEF ResolveQueued, CanUseTool, IsQueued
  <2>2. \/ approved' = approved \cup {queuedApproval.fp} /\ queuedApproval.ok
        \/ approved' = approved
    BY <1>2 DEF ResolveQueued
  <2> QED
    BY <1>2, <2>1, <2>2 DEF QueryStep, ResolveQueued, storeVars
<1>3. ASSUME NEW c \in Calls, RunApproved(c) \/ RunByRules(c) PROVE QueryStep
  BY <1>3 DEF QueryStep, RunApproved, RunByRules, CanUseTool, agentVars, storeVars
<1>4. ASSUME NEW f \in Forms, AnswerQuestion(f) PROVE QueryStep
  BY <1>4 DEF QueryStep, AnswerQuestion, historyVars, storeVars
<1> QED
  BY <1>1, <1>2, <1>3, <1>4

LEMMA AppendTyped ==
    ASSUME TypeOK, NEW r \in Asked, NEW d \in Decision, Accept(r, d)
    PROVE  /\ accepts' \in Seq([r : Asked, decision : Decision, at : Nat])
           /\ Len(accepts) \in Nat /\ DOMAIN accepts' = DOMAIN accepts \cup {Len(accepts) + 1}
           /\ Len(accepts) + 1 \notin DOMAIN accepts
           /\ \A i \in DOMAIN accepts : i \in Nat /\ i <= Len(accepts) /\ accepts'[i] = accepts[i]
           /\ accepts'[Len(accepts) + 1] = [r |-> r, decision |-> d, at |-> now]
<1>1. accepts \in Seq([r : Asked, decision : Decision, at : Nat]) /\ now \in Nat
  BY SettingsTyped DEF TypeOK
<1> QED
  BY <1>1 DEF Accept

LEMMA AskedGrows ==
    ASSUME TypeOK, NEW x \in Interaction, asked' = Append(asked, x)
    PROVE  /\ Asked' = Asked \cup {Len(asked) + 1} /\ Len(asked) + 1 \notin Asked
           /\ asked' \in Seq(Interaction) /\ Len(asked') = Len(asked) + 1
           /\ \A r \in Asked : asked'[r] = asked[r]
           /\ asked'[Len(asked) + 1] = x
<1>1. asked \in Seq(Interaction) /\ Len(asked) \in Nat
  BY AskedTyped DEF TypeOK
<1> QED
  BY <1>1 DEF Asked

\* What the two ways of asking share.
AskStep(s, x) ==
    /\ phase = "query" /\ pending = {}
    /\ x \in Interaction /\ x.round = round /\ x.at = now
    /\ x.kind = "approval" => x.fp \notin approved
    /\ Ask(s, x)
    /\ UNCHANGED <<settings, phase, mode, round, approved, queuedApproval, pending, sent, waitTill,
                   ledger, web, payload, now, accepts, ran, granted>>

LEMMA AskSteps ==
    ASSUME TypeOK, NEW s \in Slots,
           \/ \E c \in Calls : AskApproval(s, c)
           \/ \E f \in Forms : AskQuestion(s, f)
    PROVE  \E x : AskStep(s, x)
<1>0. round \in Nat /\ now \in Nat
  BY SettingsTyped DEF TypeOK
<1>1. ASSUME NEW c \in Calls, AskApproval(s, c) PROVE \E x : AskStep(s, x)
  <2> DEFINE x == [kind |-> "approval", call |-> c, form |-> NoForm, fp |-> Fingerprint(settings, c),
                   round |-> round, at |-> now]
  <2>1. x \in Interaction /\ x.round = round /\ x.at = now /\ x.fp = Fingerprint(settings, c)
    BY <1>0, FingerprintTyped DEF Interaction
  <2>2. Ask(s, x)
    BY <1>1 DEF AskApproval
  <2> HIDE DEF x
  <2>3. AskStep(s, x)
    BY <1>1, <2>1, <2>2 DEF AskStep, AskApproval, CanUseTool, historyVars
  <2> QED
    BY <2>3
<1>2. ASSUME NEW f \in Forms, AskQuestion(s, f) PROVE \E x : AskStep(s, x)
  <2> DEFINE x == [kind |-> "question", call |-> NoCall, form |-> f, fp |-> NoFp, round |-> round, at |-> now]
  <2>1. x \in Interaction /\ x.round = round /\ x.at = now /\ x.kind # "approval"
    BY <1>0 DEF Interaction
  <2>2. Ask(s, x)
    BY <1>2 DEF AskQuestion
  <2> HIDE DEF x
  <2>3. AskStep(s, x)
    BY <1>2, <2>1, <2>2 DEF AskStep, AskQuestion, historyVars
  <2> QED
    BY <2>3
<1> QED
  BY <1>1, <1>2

LEMMA AskFacts ==
    ASSUME TypeOK, NEW s \in Slots, NEW x, AskStep(s, x)
    PROVE  /\ asked' = Append(asked, x) /\ Len(asked) + 1 \in Requests
           /\ store' = SaveInteraction(store, now, Len(asked) + 1, PendingRecord(x.kind, x.at))
           /\ calls' = [calls EXCEPT ![s] = [pc |-> "saved", r |-> Len(asked) + 1]]
           /\ PendingRecord(x.kind, x.at) \in Record
<1>1. Len(asked) \in Nat /\ Len(asked) < MaxAsks /\ MaxAsks \in Nat
  BY AskedTyped, SettingsTyped DEF AskStep, Ask
<1>2. x.kind \in {"approval", "question"} /\ x.at \in Nat /\ x.at = now
  BY DEF AskStep, Interaction
<1> QED
  BY <1>1, <1>2, PendingRecordTyped DEF AskStep, Ask, Requests

(***************************************************************************)
(* A decision taken by the record or by the ledger.                        *)
(***************************************************************************)
Settles(w, accepted) ==
    /\ web[w].pc = "found"
    /\ IF accepted
       THEN /\ accepts' = Append(accepts, [r |-> web[w].r, decision |-> web[w].decision, at |-> now])
            /\ \E fps \in {web[w].fps, store[web[w].r].fps} :
                  web' = [web EXCEPT ![w] = [web[w] EXCEPT !.pc = "respond", !.fps = fps]]
       ELSE web' = [web EXCEPT ![w] = Idle] /\ UNCHANGED accepts
    /\ UNCHANGED <<settings, phase, mode, round, approved, queuedApproval, queuedAnswer, calls, pending, asked,
                   sent, waitTill, payload, now, ran, granted>>
RecordOutcome(w) ==
    ConsumeOutcome(store, now, web[w].r, web[w].decision.kind, DecisionKey(web[w].r, web[w].decision))
TakenByRecord(w) ==
    /\ web[w].record /\ Settles(w, RecordOutcome(w) = "accepted")
    /\ RecordOutcome(w) = "accepted" => web'[w].fps = store[web[w].r].fps
    /\ store' = Consume(store, now, web[w].r, web[w].decision.kind, DecisionKey(web[w].r, web[w].decision))
    /\ ledger' = ledger
EntryOutcome(w) == LedgerOutcome(ledger, now, web[w].r, DecisionKey(web[w].r, web[w].decision))
TakenByLedger(w) ==
    /\ ~web[w].record /\ Settles(w, EntryOutcome(w) = "accepted")
    /\ EntryOutcome(w) = "accepted" => web'[w].fps = web[w].fps
    /\ store' = store
    /\ ledger' = ConsumeLedger(ledger, now, web[w].r, DecisionKey(web[w].r, web[w].decision))

LEMMA WebTyped ==
    ASSUME TypeOK, NEW w \in Handlers
    PROVE  web[w] \in WebState
BY DEF TypeOK, WebState

LEMMA ConsumeSteps ==
    ASSUME TypeOK, NEW w \in Handlers, ConsumeRecord(w) \/ ConsumeUnrecorded(w)
    PROVE  TakenByRecord(w) \/ TakenByLedger(w)
<1>1. /\ web[w] \in WebState
      /\ web = [v \in Handlers |-> web[v]]
  BY WebTyped DEF TypeOK
<1>2. ASSUME NEW fps
      PROVE  [web[w] EXCEPT !.pc = "respond", !.fps = fps].fps = fps
  BY <1>1 DEF WebState
<1>3. [web[w] EXCEPT !.pc = "respond"] = [web[w] EXCEPT !.pc = "respond", !.fps = web[w].fps]
  BY <1>1 DEF WebState
<1>4. ASSUME ConsumeRecord(w) PROVE TakenByRecord(w)
  <2>1. RecordOutcome(w) = "accepted" =>
          /\ web' = [web EXCEPT ![w] = [web[w] EXCEPT !.pc = "respond", !.fps = store[web[w].r].fps]]
          /\ accepts' = Append(accepts, [r |-> web[w].r, decision |-> web[w].decision, at |-> now])
    BY <1>4 DEF ConsumeRecord, RecordOutcome, Goes, Accept
  <2>2. RecordOutcome(w) # "accepted" => web' = [web EXCEPT ![w] = Idle] /\ UNCHANGED accepts
    BY <1>4 DEF ConsumeRecord, RecordOutcome, Goes
  <2>3. RecordOutcome(w) = "accepted" => web'[w].fps = store[web[w].r].fps
    BY <2>1, <1>1, <1>2
  <2>4. Settles(w, RecordOutcome(w) = "accepted")
    BY <1>4, <2>1, <2>2 DEF ConsumeRecord, Settles, agentVars
  <2> QED
    BY <1>4, <2>3, <2>4 DEF ConsumeRecord, TakenByRecord
<1>5. ASSUME ConsumeUnrecorded(w) PROVE TakenByLedger(w)
  <2>1. EntryOutcome(w) = "accepted" =>
          /\ web' = [web EXCEPT ![w] = [web[w] EXCEPT !.pc = "respond", !.fps = web[w].fps]]
          /\ accepts' = Append(accepts, [r |-> web[w].r, decision |-> web[w].decision, at |-> now])
    BY <1>5, <1>3 DEF ConsumeUnrecorded, EntryOutcome, Goes, Accept
  <2>2. EntryOutcome(w) # "accepted" => web' = [web EXCEPT ![w] = Idle] /\ UNCHANGED accepts
    BY <1>5 DEF ConsumeUnrecorded, EntryOutcome, Goes
  <2>3. EntryOutcome(w) = "accepted" => web'[w].fps = web[w].fps
    BY <2>1, <1>1, <1>2
  <2>4. Settles(w, EntryOutcome(w) = "accepted")
    BY <1>5, <2>1, <2>2 DEF ConsumeUnrecorded, Settles, agentVars
  <2> QED
    BY <1>5, <2>3, <2>4 DEF ConsumeUnrecorded, TakenByLedger
<1> QED
  BY <1>4, <1>5

LEMMA SettledFacts ==
    ASSUME TypeOK, WebInv, NEW w \in Handlers, NEW accepted \in BOOLEAN, Settles(w, accepted)
    PROVE  /\ web[w].r \in Asked /\ web[w].r \in Requests /\ web[w].r \in sent /\ web[w].decision \in Decision
           /\ Fits(web[w].r, web[w].decision)
           /\ DecisionKey(web[w].r, web[w].decision) \in Keys
           /\ web[w].decision.kind \in {"approval", "question"}
           /\ web' \in [Handlers -> WebState]
           /\ \A v \in Handlers \ {w} : web'[v] = web[v]
           /\ accepted => /\ web'[w].pc = "respond" /\ web'[w].r = web[w].r
                          /\ web'[w].decision = web[w].decision /\ web'[w].record = web[w].record
                          /\ web'[w].fps \in {web[w].fps, store[web[w].r].fps}
                          /\ Accept(web[w].r, web[w].decision)
           /\ ~accepted => web'[w] = Idle /\ accepts' = accepts
<1>1. web[w].pc = "found" /\ Active(w)
  BY DEF Settles, Active
<1>2. /\ web[w] \in WebState /\ web \in [Handlers -> WebState]
      /\ asked \in Seq(Interaction) /\ store \in [Requests -> Record]
  BY WebTyped DEF TypeOK, WebState
<1>3. web[w].r \in sent /\ Fits(web[w].r, web[w].decision) /\ web[w].decision \in Decision
  BY <1>1, <1>2 DEF WebInv, WebState
<1>4. web[w].r \in Asked /\ web[w].r \in Requests
  BY <1>3, AskedTyped DEF Fits
<1>5. store[web[w].r].fps \subseteq Fingerprints /\ web[w].fps \subseteq Fingerprints
  BY <1>2, <1>4 DEF Record, WebState
<1>6. CASE accepted
  <2>1. PICK fps \in {web[w].fps, store[web[w].r].fps} :
           web' = [web EXCEPT ![w] = [web[w] EXCEPT !.pc = "respond", !.fps = fps]]
    BY <1>6 DEF Settles
  <2> DEFINE new == [web[w] EXCEPT !.pc = "respond", !.fps = fps]
  <2>2. /\ new \in WebState /\ new.pc = "respond" /\ new.r = web[w].r /\ new.decision = web[w].decision
        /\ new.record = web[w].record /\ new.fps = fps
    BY <1>2, <1>5 DEF WebState
  <2> HIDE DEF new
  <2>3. web' = [web EXCEPT ![w] = new]
    BY <2>1 DEF new
  <2>4. Accept(web[w].r, web[w].decision)
    BY <1>6 DEF Settles, Accept
  <2> QED
    BY <1>2, <1>3, <1>4, <1>6, <2>2, <2>3, <2>4, KeyTyped
<1>7. CASE ~accepted
  <2>1. web' = [web EXCEPT ![w] = Idle] /\ accepts' = accepts
    BY <1>7 DEF Settles
  <2> QED
    BY <1>2, <1>3, <1>4, <1>7, <2>1, KeyTyped, ConstantsTyped
<1> QED
  BY <1>6, <1>7

\* A new request of the webhook.
LEMMA PostFacts ==
    ASSUME TypeOK, NEW w \in Handlers, NEW r \in sent, NEW d \in DecisionsOn(r), Post(w, r, d)
    PROVE  /\ phase = "waiting" /\ r \in Asked /\ r \in Requests /\ d \in Decision /\ Fits(r, d)
           /\ web' \in [Handlers -> WebState]
           /\ \A v \in Handlers \ {w} : web'[v] = web[v]
           /\ web'[w].pc = "found" /\ web'[w].r = r /\ web'[w].decision = d /\ web'[w].fps = {}
           /\ web'[w].record = (CleanupExpired(store, now)[r].status # "none")
           /\ store' = CleanupExpired(store, now)
           /\ UNCHANGED <<settings, phase, mode, round, agentVars, sent, waitTill, ledger, payload, now, historyVars>>
<1>1. r \in Asked /\ r \in Requests /\ web \in [Handlers -> WebState]
  BY AskedTyped DEF TypeOK, WebState
<1>2. d \in Decision /\ Fits(r, d)
  BY <1>1, DecisionsFit
<1> DEFINE new == [pc |-> "found", r |-> r, decision |-> d,
                   record |-> CleanupExpired(store, now)[r].status # "none", fps |-> {}]
<1>3. new \in WebState /\ new.pc = "found" /\ new.r = r /\ new.decision = d /\ new.fps = {}
      /\ new.record = (CleanupExpired(store, now)[r].status # "none")
  BY <1>1, <1>2 DEF WebState
<1>4. web' = [web EXCEPT ![w] = new]
  BY DEF Post, Goes
<1> HIDE DEF new
<1>5. /\ web' \in [Handlers -> WebState] /\ web'[w] = new
      /\ \A v \in Handlers \ {w} : web'[v] = web[v]
  BY <1>1, <1>3, <1>4
<1> QED
  BY <1>1, <1>2, <1>3, <1>5 DEF Post

\* A request answered, or whose stream cannot be attached.
LEMMA RespondFacts ==
    ASSUME TypeOK, WebInv, NEW w \in Handlers, Respond(w) \/ RespondFails(w)
    PROVE  /\ web[w].pc = "respond" /\ web[w].r \in Asked /\ Fits(web[w].r, web[w].decision)
           /\ web' = [web EXCEPT ![w] = Idle] /\ web' \in [Handlers -> WebState]
           /\ \/ phase = "waiting" /\ phase' = "start" /\ payload' = WebhookPayload(web[w])
              \/ phase' = phase /\ payload' = payload /\ (RespondFails(w) \/ phase # "waiting")
           /\ UNCHANGED <<settings, mode, round, agentVars, sent, waitTill, storeVars, now, historyVars>>
           /\ PayloadState(WebhookPayload(web[w]))
<1>1. web \in [Handlers -> WebState] /\ web[w] \in WebState
  BY WebTyped DEF TypeOK, WebState
<1>2. web[w].pc = "respond" /\ web' = [web EXCEPT ![w] = Idle]
  BY DEF Respond, RespondFails, Goes
<1>3. Fits(web[w].r, web[w].decision) /\ web[w].r \in Asked
  BY <1>2 DEF WebInv, Active, Fits
<1>4. asked[web[w].r].fp \in Fps
  BY <1>3, AskedTyped
<1>5. PayloadState(WebhookPayload(web[w]))
  BY <1>1, <1>3, <1>4 DEF PayloadState, WebhookPayload, WebState, Fps
<1> QED
  BY <1>1, <1>2, <1>3, <1>5, ConstantsTyped DEF Respond, RespondFails

\* A companion's answer, or a raw reply.
LEMMA CompanionFacts ==
    ASSUME TypeOK, NEW r \in pending, NEW d \in RepliesTo(r), LoopbackResume(r, d) \/ WhatsAppResume(r, d)
    PROVE  /\ phase = "handed" /\ phase' = "start" /\ r \in Asked /\ d \in Decision /\ Fits(r, d) /\ Accept(r, d)
           /\ PayloadState(payload') /\ payload'.there /\ payload'.r = r
           /\ payload'.decision.kind = d.kind /\ payload'.decision.picks = d.picks
           /\ d.kind = "approval" => payload'.decision = d
           /\ payload'.fp \in {NoFp, asked[r].fp}
           /\ payload'.fps \subseteq approved
           /\ payload'.record => payload'.fps = approved
           /\ UNCHANGED <<settings, mode, round, agentVars, sent, waitTill, storeVars, web, now, ran, granted>>
<1>1. r \in Asked /\ approved \subseteq Fingerprints /\ asked[r].fp \in Fps
  BY AskedTyped DEF TypeOK
<1>2. d \in Decision /\ Fits(r, d)
  BY <1>1, DecisionsFit, RepliesFit
<1>3. CASE LoopbackResume(r, d)
  <2>1. PICK override : payload' = Envelope(r, d, override)
    BY <1>3 DEF LoopbackResume
  <2> QED
    BY <1>1, <1>2, <1>3, <2>1 DEF LoopbackResume, Envelope, PayloadState
<1>4. CASE WhatsAppResume(r, d)
  <2> DEFINE said == IF d.kind = "question" THEN [d EXCEPT !.via = "field"] ELSE d
  <2>1. PICK fp \in {NoFp, asked[r].fp} :
           payload' = [NoPayload EXCEPT !.there = TRUE, !.r = r, !.fp = fp, !.decision = said]
    BY <1>4 DEF WhatsAppResume
  <2>2. said \in Decision /\ said.kind = d.kind /\ said.picks = d.picks /\ (d.kind = "approval" => said = d)
    BY <1>2 DEF Decision
  <2> HIDE DEF said
  <2>3. payload' = [there |-> TRUE, r |-> r, decision |-> said, record |-> FALSE, fp |-> fp, fps |-> {},
                    override |-> "none"]
    BY <2>1 DEF NoPayload
  <2>4. fp \in Fps
    BY <1>1 DEF Fps
  <2> QED
    BY <1>1, <1>2, <1>4, <2>2, <2>3, <2>4 DEF WhatsAppResume, PayloadState
<1> QED
  BY <1>3, <1>4

LEMMA ModeTyped ==
    ASSUME NEW p
    PROVE  OverriddenMode(p) \in PermissionModes
BY DEF OverriddenMode, ClampPermissionMode, PermissionModes

\* The store as the end of the query leaves it.
LEMMA PersistedFacts ==
    ASSUME TypeOK
    PROVE  /\ Persisted \in [Requests -> Record]
           /\ \A r \in Requests \ pending : Persisted[r] = CleanupExpired(store, now)[r]
           /\ \A r \in pending : /\ r \in Requests
                                 /\ Persisted[r] = IF CleanupExpired(store, now)[r].status = "answered"
                                                   THEN CleanupExpired(store, now)[r]
                                                   ELSE PendingRecord(asked[r].kind, asked[r].at)
<1> DEFINE clean == CleanupExpired(store, now)
<1>1. clean \in [Requests -> Record]
  BY CleanupFacts, SettingsTyped DEF TypeOK
<1>2. \A r \in pending : r \in Requests /\ PendingRecord(asked[r].kind, asked[r].at) \in Record
  BY AskedTyped, PendingRecordTyped DEF TypeOK
<1> HIDE DEF clean
<1>3. Persisted = [r \in Requests |-> IF r \in pending /\ clean[r].status # "answered"
                                      THEN PendingRecord(asked[r].kind, asked[r].at) ELSE clean[r]]
  BY DEF Persisted, clean
<1>4. CleanupExpired(store, now) = clean
  BY DEF clean
<1> QED
  BY <1>1, <1>2, <1>3, <1>4

\* TypeOK is kept by a step that touches only these variables.
LEMMA TypesStep == TypeOK /\ RoundInv /\ [Next]_vars => TypeOK'
<1> SUFFICES ASSUME TypeOK, RoundInv, [Next]_vars PROVE TypeOK'
  OBVIOUS
<1>t. /\ settings \in Workflows /\ phase \in Phases /\ mode \in PermissionModes /\ round \in Nat
      /\ approved \subseteq Fingerprints /\ granted \subseteq Fps
      /\ queuedApproval \in [there : BOOLEAN, fp : Fps, ok : BOOLEAN, input : Inputs]
      /\ asked \in Seq(Interaction) /\ Len(asked) <= MaxAsks
      /\ calls \in [Slots -> CallState] /\ pending \subseteq Asked /\ sent \subseteq Asked
      /\ store \in [Requests -> Record] /\ ledger \in [Requests -> Entry]
      /\ web \in [Handlers -> WebState] /\ PayloadState(payload)
      /\ accepts \in Seq([r : Asked, decision : Decision, at : Nat])
      /\ now \in 0 .. MaxClock /\ waitTill \in Nat
  BY DEF TypeOK, CallState, WebState, PayloadState
<1>w. WebInv
  BY DEF RoundInv
<1>c. /\ MaxAsks \in Nat /\ MaxClock \in Nat /\ now \in Nat /\ settings.timeout \in Nat
      /\ settings.bounds.clock \in 0 .. MaxClock /\ CleanupExpired(store, now) \in [Requests -> Record]
  BY <1>t, SettingsTyped, CleanupFacts
\* The conjuncts of TypeOK, with what was asked unchanged.
<1>u. ASSUME UNCHANGED <<settings, asked>>,
             phase' \in Phases, mode' \in PermissionModes, round' \in Nat,
             approved' \subseteq Fingerprints, granted' \subseteq Fps,
             queuedApproval' \in [there : BOOLEAN, fp : Fps, ok : BOOLEAN, input : Inputs],
             calls' \in [Slots -> CallState], pending' \subseteq Asked, sent' \subseteq Asked,
             store' \in [Requests -> Record], ledger' \in [Requests -> Entry],
             web' \in [Handlers -> WebState], PayloadState(payload'),
             accepts' \in Seq([r : Asked, decision : Decision, at : Nat]),
             now' \in 0 .. MaxClock, waitTill' \in Nat
      PROVE  TypeOK'
  <2>1. Asked' = Asked
    BY <1>u DEF Asked
  <2> QED
    BY <1>t, <1>u, <2>1 DEF TypeOK, CallState, WebState, PayloadState
<1>1. CASE SetupFails \/ PassThrough \/ WaitExpires
  <2>1. /\ phase' \in Phases
        /\ UNCHANGED <<settings, mode, round, agentVars, sent, waitTill, storeVars, web, payload, now, historyVars>>
    BY <1>1 DEF SetupFails, PassThrough, WaitExpires, Phases
  <2> QED
    BY <1>t, <2>1, <1>u DEF agentVars, storeVars, historyVars
<1>2. CASE Setup
  <2>1. /\ UNCHANGED <<settings, asked, sent, waitTill, store, ledger, web, now, accepts, ran>>
        /\ phase' = "query" /\ mode' = OverriddenMode(payload) /\ round' = round + 1
        /\ approved' = Restored(payload) /\ pending' = {} /\ calls' = [s \in Slots |-> Free]
        /\ granted' = Granted(payload) /\ payload' = NoPayload
        /\ queuedApproval' \in {ApprovalOf(payload), NoApproval}
    BY <1>2 DEF Setup, storeVars
  <2>2. payload.fp \in Fps /\ payload.fps \subseteq Fingerprints /\ payload.decision \in Decision
    BY <1>t DEF PayloadState
  <2>3. Restored(payload) \subseteq Fingerprints /\ Granted(payload) \subseteq Fps
    BY <1>t, <2>2 DEF Restored, Granted, Fps
  <2>4. ApprovalOf(payload) \in [there : BOOLEAN, fp : Fps, ok : BOOLEAN, input : Inputs]
    BY <2>2 DEF ApprovalOf, Decision
  <2>5. round' \in Nat /\ mode' \in PermissionModes /\ phase' \in Phases
    BY <1>t, <2>1, ModeTyped DEF Phases
  <2>6. calls' \in [Slots -> CallState] /\ PayloadState(payload')
        /\ queuedApproval' \in [there : BOOLEAN, fp : Fps, ok : BOOLEAN, input : Inputs]
    BY <2>1, <2>4, ConstantsTyped
  <2> QED
    BY <1>t, <2>1, <2>3, <2>5, <2>6, <1>u
<1>3. CASE QueryEnds \/ QueryAborts
  <2>1. /\ EndOfQuery /\ phase' \in Phases
    BY <1>3 DEF QueryEnds, QueryAborts, Phases
  <2>2. calls' \in [Slots -> CallState] /\ mode' \in PermissionModes
        /\ queuedApproval' \in [there : BOOLEAN, fp : Fps, ok : BOOLEAN, input : Inputs]
    BY <2>1, ConstantsTyped DEF EndOfQuery, PermissionModes
  <2> QED
    BY <1>t, <2>1, <2>2, <1>u DEF EndOfQuery, storeVars
<1>4. CASE QueryStep
  <2>1. approved' \subseteq Fingerprints
        /\ queuedApproval' \in [there : BOOLEAN, fp : Fps, ok : BOOLEAN, input : Inputs]
    BY <1>t, <1>4, ConstantsTyped DEF QueryStep, Fps
  <2> QED
    BY <1>t, <1>4, <2>1, <1>u DEF QueryStep
<1>5. ASSUME NEW s \in Slots, NEW x, AskStep(s, x) PROVE TypeOK'
  <2>1. asked' = Append(asked, x) /\ x \in Interaction
    BY <1>5, AskFacts DEF AskStep
  <2>2. Asked' = Asked \cup {Len(asked) + 1} /\ asked' \in Seq(Interaction) /\ Len(asked') <= MaxAsks
    BY <1>5, <2>1, AskedGrows, AskFacts DEF Requests
  <2>3. store' \in [Requests -> Record]
    <3> DEFINE n == Len(asked) + 1
               rec == PendingRecord(x.kind, x.at)
    <3>1. n \in Requests /\ rec \in Record /\ store' = SaveInteraction(store, now, n, rec)
      BY <1>t, <1>5, AskFacts
    <3> HIDE DEF n, rec
    <3>2. SaveInteraction(store, now, n, rec) \in [Requests -> Record]
      BY <1>c, <1>t, <3>1, SaveFacts
    <3> QED BY <3>1, <3>2
  <2>4. calls' \in [Slots -> CallState']
    <3>1. calls' = [calls EXCEPT ![s] = [pc |-> "saved", r |-> Len(asked) + 1]]
      BY <1>5, AskFacts
    <3>2. CallState \subseteq CallState' /\ [pc |-> "saved", r |-> Len(asked) + 1] \in CallState'
      BY <2>2 DEF CallState
    <3> QED
      BY <1>t, <3>1, <3>2
  <2>5. /\ web \in [Handlers -> WebState'] /\ PayloadState(payload)'
        /\ accepts \in Seq([r : Asked', decision : Decision, at : Nat])
    <3>1. payload' = payload
      BY <1>5 DEF AskStep
    <3>2. WebState \subseteq WebState'
      BY <2>2 DEF WebState
    <3>3. PayloadState(payload)'
      BY <1>t, <2>2, <3>1 DEF PayloadState
    <3>4. [r : Asked, decision : Decision, at : Nat] \subseteq [r : Asked', decision : Decision, at : Nat]
      BY <2>2
    <3>5. ASSUME NEW A, NEW B, A \subseteq B, accepts \in Seq(A) PROVE accepts \in Seq(B)
      BY <3>5
    <3>6. accepts \in Seq([r : Asked', decision : Decision, at : Nat])
      BY <1>t, <3>4, <3>5
    <3> QED
      BY <1>t, <3>2, <3>3, <3>6
  <2>6. UNCHANGED <<settings, phase, mode, round, approved, queuedApproval, pending, sent, waitTill,
                    ledger, web, payload, now, accepts, ran, granted>>
    BY <1>5 DEF AskStep
  <2> QED
    BY <1>t, <2>2, <2>3, <2>4, <2>5, <2>6 DEF TypeOK, CallState, WebState, PayloadState
<1>6. ASSUME NEW s \in Slots, AddInteraction(s) \/ Preview(s) PROVE TypeOK'
  <2>1. calls[s].r \in Asked
    BY <1>6 DEF AddInteraction, Preview, RoundInv, CallsInv
  <2>2. calls' \in [Slots -> CallState]
    <3>1. [calls[s] EXCEPT !.pc = "added"] \in CallState /\ Free \in CallState
      BY <1>t, ConstantsTyped DEF CallState
    <3> QED
      BY <1>6, <1>t, <3>1 DEF AddInteraction, Preview
  <2>3. pending' \subseteq Asked /\ sent' \subseteq Asked
    BY <1>6, <1>t, <2>1 DEF AddInteraction, Preview
  <2>4. UNCHANGED <<settings, phase, mode, round, approved, queuedApproval, asked,
                    waitTill, store, ledger, web, payload, now, accepts, granted>>
    BY <1>6 DEF AddInteraction, Preview, storeVars, historyVars
  <2> QED
    BY <1>t, <2>2, <2>3, <2>4, <1>u
<1>7. CASE WaitForPendingInteractions
  <2>1. phase' \in Phases /\ waitTill' \in Nat
    BY <1>7, <1>t, <1>c DEF WaitForPendingInteractions, WaitDeadline, Never, Phases
  <2>2. /\ store' = Persisted
        /\ UNCHANGED <<settings, mode, round, agentVars, sent, ledger, web, payload, now, historyVars>>
    BY <1>7 DEF WaitForPendingInteractions
  <2> QED
    BY <1>t, <2>1, <2>2, PersistedFacts, <1>u DEF agentVars, historyVars
<1>8. CASE SendDeferred
  <2>1. sent' \subseteq Asked /\ phase' \in Phases
    BY <1>8, <1>t DEF SendDeferred, Phases
  <2> QED
    BY <1>8, <1>t, <2>1, <1>u DEF SendDeferred, agentVars, storeVars, historyVars
<1>9. ASSUME NEW w \in Handlers, NEW r \in sent, NEW d \in DecisionsOn(r), Post(w, r, d) PROVE TypeOK'
  BY <1>t, <1>c, <1>9, PostFacts, <1>u DEF agentVars, historyVars
<1>10. ASSUME NEW r \in sent, Visit(r) PROVE TypeOK'
  BY <1>t, <1>c, <1>10, <1>u DEF Visit, agentVars, historyVars
<1>11. ASSUME NEW w \in Handlers, ConsumeRecord(w) \/ ConsumeUnrecorded(w) PROVE TypeOK'
  <2>1. PICK accepted \in BOOLEAN : Settles(w, accepted)
    BY <1>11, ConsumeSteps DEF TakenByRecord, TakenByLedger
  <2>2. web' \in [Handlers -> WebState] /\ accepts' \in Seq([r : Asked, decision : Decision, at : Nat])
    BY <1>t, <1>w, <2>1, SettledFacts, AppendTyped
  <2>3. store' \in [Requests -> Record] /\ ledger' \in [Requests -> Entry]
    <3>1. /\ web[w].r \in Requests /\ DecisionKey(web[w].r, web[w].decision) \in Keys
          /\ web[w].decision.kind \in {"approval", "question"}
      BY <1>w, <2>1, SettledFacts
    <3>2. CASE TakenByRecord(w)
      <4>1. /\ store' = Consume(store, now, web[w].r, web[w].decision.kind,
                               DecisionKey(web[w].r, web[w].decision))
            /\ ledger' = ledger
        BY <3>2 DEF TakenByRecord
      <4>2. store \in [Requests -> Record] /\ ledger \in [Requests -> Entry] /\ now \in Nat
        BY <1>t, <1>c
      <4>3. Consume(store, now, web[w].r, web[w].decision.kind, DecisionKey(web[w].r, web[w].decision))
                \in [Requests -> Record]
        BY <3>1, <4>2, ConsumeFacts
      <4> QED
        BY <4>1, <4>2, <4>3
    <3>3. CASE TakenByLedger(w)
      <4>1. store' = store /\ ledger' = ConsumeLedger(ledger, now, web[w].r, DecisionKey(web[w].r, web[w].decision))
        BY <3>3 DEF TakenByLedger
      <4> QED
        BY <1>t, <1>c, <3>1, <4>1, LedgerFacts
    <3> QED
      BY <1>11, <3>2, <3>3, ConsumeSteps
  <2> QED
    BY <1>t, <2>1, <2>2, <2>3, <1>u DEF Settles
<1>12. ASSUME NEW w \in Handlers, Respond(w) \/ RespondFails(w) PROVE TypeOK'
  <2>1. phase' \in Phases /\ PayloadState(payload')
    BY <1>t, <1>w, <1>12, RespondFacts DEF Phases
  <2> QED
    BY <1>t, <1>w, <1>12, <2>1, RespondFacts, <1>u DEF agentVars, storeVars, historyVars
<1>13. ASSUME NEW r \in pending, NEW d \in RepliesTo(r), LoopbackResume(r, d) \/ WhatsAppResume(r, d) PROVE TypeOK'
  <2>1. phase' \in Phases
    BY <1>13, CompanionFacts DEF Phases
  <2>2. accepts' \in Seq([r : Asked, decision : Decision, at : Nat])
    BY <1>13, CompanionFacts, AppendTyped
  <2> QED
    BY <1>t, <1>13, <2>1, <2>2, CompanionFacts, <1>u DEF agentVars, storeVars
<1>14. CASE Tick
  <2>1. now' \in 0 .. MaxClock
    BY <1>14, <1>c DEF Tick
  <2> QED
    BY <1>14, <1>t, <2>1, <1>u DEF Tick, agentVars, storeVars, historyVars
<1>15. CASE UNCHANGED vars
  BY <1>15, <1>t, <1>u DEF vars, agentVars, storeVars, historyVars
<1> QED
  BY <1>1, <1>2, <1>3, <1>4, <1>5, <1>6, <1>7, <1>8, <1>9, <1>10, <1>11, <1>12, <1>13, <1>14, <1>15,
     AskSteps, QuerySteps DEF Next, AgentStep, WebhookStep, CompanionStep

-----------------------------------------------------------------------------
(***************************************************************************)
(* Rounds.                                                                 *)
(***************************************************************************)
LEMMA InitRounds == Init => RoundInv
<1> SUFFICES ASSUME Init PROVE RoundInv
  OBVIOUS
<1>1. /\ phase = "start" /\ asked = <<>> /\ accepts = <<>> /\ pending = {} /\ sent = {} /\ payload = NoPayload
      /\ calls = [s \in Slots |-> Free] /\ web = [w \in Handlers |-> Idle]
  BY DEF Init
<1>2. Asked = {} /\ DOMAIN accepts = {}
  BY <1>1 DEF Asked
<1>3. (\A s \in Slots : calls[s].pc = "free") /\ (\A w \in Handlers : ~Active(w)) /\ ~payload.there
  BY <1>1, ConstantsTyped DEF Active
<1> QED
  BY <1>1, <1>2, <1>3 DEF RoundInv, OwnerInv, CallsInv, PendingInv, DecidedInv, WebInv, PayloadInv

LEMMA FitsGrows ==
    ASSUME TypeOK, NEW x \in Interaction, asked' = Append(asked, x), NEW r, NEW d, Fits(r, d)
    PROVE  Fits(r, d)'
BY AskedGrows DEF Fits

LEMMA AcceptsTyped ==
    ASSUME TypeOK
    PROVE  /\ \A i \in DOMAIN accepts : /\ i \in Nat /\ accepts[i].r \in Asked /\ accepts[i].r \in Requests
                                        /\ accepts[i].decision \in Decision /\ accepts[i].at \in Nat
           /\ DOMAIN accepts = 1 .. Len(accepts) /\ Len(accepts) \in Nat
<1>1. accepts \in Seq([r : Asked, decision : Decision, at : Nat])
  BY DEF TypeOK
<1>2. DOMAIN accepts = 1 .. Len(accepts) /\ Len(accepts) \in Nat
      /\ \A i \in DOMAIN accepts : i \in Nat /\ accepts[i] \in [r : Asked, decision : Decision, at : Nat]
  <2>1. ASSUME NEW A, accepts \in Seq(A)
        PROVE  /\ DOMAIN accepts = 1 .. Len(accepts) /\ Len(accepts) \in Nat
               /\ \A i \in DOMAIN accepts : i \in Nat /\ accepts[i] \in A
    BY <2>1
  <2> QED
    BY <1>1, <2>1
<1> QED
  BY <1>2, AskedTyped

\* A decision accepted is the last one.
LEMMA AcceptedLast ==
    ASSUME TypeOK, NEW r \in Asked, NEW d \in Decision, Accept(r, d)
    PROVE  \A i \in DOMAIN accepts' :
              \/ i \in DOMAIN accepts /\ accepts'[i] = accepts[i]
              \/ /\ accepts'[i] = [r |-> r, decision |-> d, at |-> now]
                 /\ accepts'[i].r = r /\ accepts'[i].decision = d /\ accepts'[i].at = now
                 /\ i \notin DOMAIN accepts /\ \A j \in DOMAIN accepts : j < i
<1>1. /\ Len(accepts) \in Nat /\ DOMAIN accepts' = DOMAIN accepts \cup {Len(accepts) + 1}
      /\ Len(accepts) + 1 \notin DOMAIN accepts
      /\ \A i \in DOMAIN accepts : i \in Nat /\ i <= Len(accepts) /\ accepts'[i] = accepts[i]
      /\ accepts'[Len(accepts) + 1] = [r |-> r, decision |-> d, at |-> now]
  BY AppendTyped
<1>2. \A i \in DOMAIN accepts : i < Len(accepts) + 1
  BY <1>1
<1> QED
  BY <1>1, <1>2

LEMMA RoundsStep == TypeOK /\ RoundInv /\ [Next]_vars => RoundInv'
<1> SUFFICES ASSUME TypeOK, RoundInv, [Next]_vars PROVE RoundInv'
  OBVIOUS
<1>i. OwnerInv /\ CallsInv /\ PendingInv /\ DecidedInv /\ WebInv /\ PayloadInv
  BY DEF RoundInv
<1>t. /\ round \in Nat /\ pending \subseteq Asked /\ sent \subseteq Asked
      /\ \A r \in Asked : asked[r].round \in Nat
      /\ \A i \in DOMAIN accepts : accepts[i].r \in Asked
      /\ calls \in [Slots -> CallState] /\ web \in [Handlers -> WebState]
  BY AskedTyped, AcceptsTyped DEF TypeOK, CallState, WebState
\* A step that changes the phase only.
<1>p. ASSUME UNCHANGED <<settings, mode, round, calls, pending, asked, sent, web, payload, accepts>>,
             \/ phase' = phase \/ phase' \in {"done", "failed", "expired"}
             \/ phase = "persist" /\ phase' = IF settings.ownsWait THEN "deferred" ELSE "handed"
             \/ phase = "query" /\ phase' = "persist" /\ pending # {},
             phase = phase' \/ \A s \in Slots : calls[s].pc = "free"
      PROVE  RoundInv'
  <2>1. OwnerInv'
    BY <1>i, <1>p DEF OwnerInv, Active
  <2>2. CallsInv'
    BY <1>i, <1>p DEF CallsInv, Asked
  <2>3. PendingInv'
    BY <1>i, <1>p DEF PendingInv, Asked
  <2>4. DecidedInv'
    BY <1>i, <1>p DEF DecidedInv, Asked, Fits
  <2>5. WebInv'
    BY <1>i, <1>p DEF WebInv, Asked, Fits, Active
  <2>6. PayloadInv'
    BY <1>i, <1>p DEF PayloadInv, Asked, Fits
  <2> QED
    BY <2>1, <2>2, <2>3, <2>4, <2>5, <2>6 DEF RoundInv
<1>1. CASE SetupFails \/ PassThrough \/ WaitExpires
  <2>1. \A s \in Slots : calls[s].pc = "free"
    BY <1>1, <1>i DEF SetupFails, PassThrough, CanSetUp, WaitExpires, CallsInv
  <2> QED
    BY <1>1, <2>1, <1>p DEF SetupFails, PassThrough, WaitExpires, agentVars, historyVars
<1>2. CASE Setup
  <2>1. /\ UNCHANGED <<settings, asked, sent, waitTill, store, ledger, web, now, accepts, ran>>
        /\ phase = "start" /\ phase' = "query" /\ round' = round + 1
        /\ pending' = {} /\ calls' = [s \in Slots |-> Free] /\ payload' = NoPayload
    BY <1>2 DEF Setup, storeVars, CanSetUp
  <2>2. \A r \in Asked : asked[r].round < round'
    BY <1>i, <1>t, <2>1 DEF PendingInv
  <2>3. Asked' = Asked
    BY <2>1 DEF Asked
  <2>4. OwnerInv'
    BY <1>i, <2>1 DEF OwnerInv, Active
  <2>5. CallsInv'
    BY <2>1, ConstantsTyped DEF CallsInv
  <2>6. PendingInv'
    BY <2>1, <2>2, <2>3, <1>t DEF PendingInv
  <2>7. DecidedInv'
    BY <1>i, <1>t, <2>1, <2>2, <2>3 DEF DecidedInv, Fits
  <2>8. WebInv'
    BY <1>i, <1>t, <2>1, <2>2, <2>3 DEF WebInv, Fits, Active
  <2>9. PayloadInv'
    BY <2>1, ConstantsTyped DEF PayloadInv
  <2> QED
    BY <2>4, <2>5, <2>6, <2>7, <2>8, <2>9 DEF RoundInv
<1>3. CASE QueryEnds \/ QueryAborts
  <2>1. /\ calls' = [s \in Slots |-> Free] /\ phase = "query"
        /\ UNCHANGED <<settings, round, pending, asked, sent, web, payload, accepts>>
        /\ phase' \in {"done", "failed"} \/ (phase' = "persist" /\ pending # {})
    <3>1. EndOfQuery /\ (phase' \in {"done", "failed"} \/ (phase' = "persist" /\ pending # {}))
      BY <1>3 DEF QueryEnds, QueryAborts
    <3> QED
      BY <3>1 DEF EndOfQuery
  <2>2. OwnerInv'
    BY <1>i, <2>1 DEF OwnerInv, Active
  <2>3. CallsInv'
    BY <2>1, ConstantsTyped DEF CallsInv
  <2>4. PendingInv'
    BY <1>i, <2>1 DEF PendingInv, Asked
  <2>5. DecidedInv'
    BY <1>i, <2>1 DEF DecidedInv, Asked, Fits
  <2>6. WebInv' /\ PayloadInv'
    BY <1>i, <2>1 DEF WebInv, PayloadInv, Asked, Fits, Active
  <2> QED
    BY <2>2, <2>3, <2>4, <2>5, <2>6 DEF RoundInv
<1>4. CASE QueryStep
  BY <1>4, <1>p DEF QueryStep
<1>5. ASSUME NEW s \in Slots, NEW x, AskStep(s, x) PROVE RoundInv'
  <2>1. /\ UNCHANGED <<settings, phase, mode, round, pending, sent, web, payload, now, accepts>>
        /\ phase = "query" /\ pending = {} /\ x \in Interaction /\ x.round = round
    BY <1>5 DEF AskStep
  <2>2. /\ asked' = Append(asked, x)
        /\ calls' = [calls EXCEPT ![s] = [pc |-> "saved", r |-> Len(asked) + 1]]
    BY <1>5, AskFacts
  <2>3. /\ Asked' = Asked \cup {Len(asked) + 1} /\ \A r \in Asked : asked'[r] = asked[r]
        /\ asked'[Len(asked) + 1] = x
    BY <2>1, <2>2, AskedGrows
  <2>4. \A r, d : Fits(r, d) => Fits(r, d)'
    BY <2>1, <2>2, FitsGrows
  <2>5. OwnerInv'
    BY <1>i, <2>1 DEF OwnerInv, Active
  <2>6. CallsInv'
    BY <1>i, <1>t, <2>1, <2>2, <2>3 DEF CallsInv
  <2>7. PendingInv'
    BY <1>i, <1>t, <2>1, <2>3 DEF PendingInv
  <2>8. DecidedInv'
    BY <1>i, <1>t, <2>1, <2>3, <2>4 DEF DecidedInv
  <2>9. WebInv'
    BY <1>i, <1>t, <2>1, <2>3, <2>4 DEF WebInv, Active
  <2>10. PayloadInv'
    BY <1>i, <2>1, <2>4 DEF PayloadInv
  <2> QED
    BY <2>5, <2>6, <2>7, <2>8, <2>9, <2>10 DEF RoundInv
<1>6. ASSUME NEW s \in Slots, AddInteraction(s) \/ Preview(s) PROVE RoundInv'
  <2>1. /\ UNCHANGED <<settings, phase, round, asked, web, payload, accepts>>
        /\ phase = "query" /\ calls[s].pc # "free" /\ calls[s].r \in Asked /\ asked[calls[s].r].round = round
    BY <1>6, <1>i DEF AddInteraction, Preview, historyVars, CallsInv
  <2>2. /\ pending \subseteq pending' /\ pending' \subseteq pending \cup {calls[s].r}
        /\ sent' \subseteq sent \cup (pending' \cap {calls[s].r}) /\ sent \subseteq sent'
    BY <1>6, <1>i DEF AddInteraction, Preview, CallsInv
  <2>3. Asked' = Asked
    BY <2>1 DEF Asked
  <2>4. /\ \A q \in Slots \ {s} : calls'[q] = calls[q]
        /\ calls'[s].pc # "free" => calls'[s].r = calls[s].r /\ calls[s].r \in pending'
    <3>1. [calls[s] EXCEPT !.pc = "added"].r = calls[s].r
      BY <1>t DEF CallState
    <3> QED
      BY <1>6, <1>t, <3>1, ConstantsTyped DEF AddInteraction, Preview
  <2>5. OwnerInv'
    BY <1>i, <2>1 DEF OwnerInv, Active
  <2>6. CallsInv'
    BY <1>i, <2>1, <2>2, <2>3, <2>4 DEF CallsInv
  <2>7. PendingInv'
    BY <1>i, <1>t, <2>1, <2>2, <2>3 DEF PendingInv
  <2>8. DecidedInv' /\ PayloadInv'
    BY <1>i, <2>1, <2>3 DEF DecidedInv, PayloadInv, Fits
  <2>9. WebInv'
    BY <1>i, <2>1, <2>2, <2>3 DEF WebInv, Active, Fits
  <2> QED
    BY <2>5, <2>6, <2>7, <2>8, <2>9 DEF RoundInv
<1>7. CASE WaitForPendingInteractions
  <2>1. \A s \in Slots : calls[s].pc = "free"
    BY <1>7, <1>i DEF WaitForPendingInteractions, CallsInv
  <2> QED
    BY <1>7, <2>1, <1>p DEF WaitForPendingInteractions, agentVars, historyVars
<1>8. CASE SendDeferred
  <2>1. /\ UNCHANGED <<settings, round, pending, calls, asked, web, payload, accepts>>
        /\ phase = "deferred" /\ phase' = "waiting" /\ sent \subseteq sent' /\ sent' \subseteq sent \cup pending
    BY <1>8 DEF SendDeferred, agentVars, historyVars
  <2>2. OwnerInv' /\ PayloadInv'
    BY <1>i, <2>1 DEF OwnerInv, Active, PayloadInv, Fits, Asked
  <2>3. CallsInv'
    BY <1>i, <2>1 DEF CallsInv, Asked
  <2>4. PendingInv'
    BY <1>i, <2>1 DEF PendingInv, Asked
  <2>5. DecidedInv'
    BY <1>i, <2>1 DEF DecidedInv, Asked, Fits
  <2>6. WebInv'
    BY <1>i, <2>1 DEF WebInv, Asked, Fits, Active
  <2> QED
    BY <2>2, <2>3, <2>4, <2>5, <2>6 DEF RoundInv
<1>9. ASSUME NEW w \in Handlers, NEW r \in sent, NEW d \in DecisionsOn(r), Post(w, r, d) PROVE RoundInv'
  <2>1. /\ UNCHANGED <<settings, phase, round, pending, calls, asked, sent, payload, accepts>>
        /\ phase = "waiting" /\ Fits(r, d)
        /\ \A v \in Handlers \ {w} : web'[v] = web[v]
        /\ web'[w].pc = "found" /\ web'[w].r = r /\ web'[w].decision = d
    BY <1>9, PostFacts DEF agentVars, historyVars
  <2>2. OwnerInv' /\ PayloadInv'
    BY <1>i, <2>1 DEF OwnerInv, PayloadInv, Fits, Asked
  <2>3. CallsInv'
    BY <1>i, <2>1 DEF CallsInv, Asked
  <2>4. PendingInv' /\ DecidedInv'
    BY <1>i, <2>1 DEF PendingInv, DecidedInv, Asked, Fits
  <2>6. WebInv'
    BY <1>i, <2>1 DEF WebInv, Asked, Fits, Active
  <2> QED
    BY <2>2, <2>3, <2>4, <2>6 DEF RoundInv
<1>10. ASSUME NEW r \in sent, Visit(r) PROVE RoundInv'
  BY <1>10, <1>p DEF Visit, agentVars, historyVars
<1>11. ASSUME NEW w \in Handlers, ConsumeRecord(w) \/ ConsumeUnrecorded(w) PROVE RoundInv'
  <2>1. PICK accepted \in BOOLEAN : Settles(w, accepted)
    BY <1>11, ConsumeSteps DEF TakenByRecord, TakenByLedger
  <2>2. UNCHANGED <<settings, phase, round, pending, calls, asked, sent, payload>> /\ Active(w)
    BY <2>1 DEF Settles, Active
  <2>3. /\ web[w].r \in Asked /\ Fits(web[w].r, web[w].decision) /\ web[w].decision \in Decision
        /\ \A v \in Handlers \ {w} : web'[v] = web[v]
        /\ web'[w].pc # "idle" => web'[w].r = web[w].r /\ web'[w].decision = web[w].decision
        /\ accepts' = accepts \/ Accept(web[w].r, web[w].decision)
    BY <1>i, <2>1, SettledFacts, ConstantsTyped
  <2>4. settings.ownsWait
    BY <1>i, <2>2, SettingsTyped DEF OwnerInv
  <2>5. OwnerInv' /\ PayloadInv'
    BY <1>i, <2>2, <2>4 DEF OwnerInv, PayloadInv, Fits, Asked
  <2>6. CallsInv' /\ PendingInv'
    BY <1>i, <2>2 DEF CallsInv, PendingInv, Asked
  <2>7. DecidedInv'
    <3>1. CASE accepts' = accepts
      BY <1>i, <2>2, <3>1 DEF DecidedInv, Asked, Fits
    <3>2. CASE Accept(web[w].r, web[w].decision)
      <4>1. \A i \in DOMAIN accepts' : \/ i \in DOMAIN accepts /\ accepts'[i] = accepts[i]
                                       \/ accepts'[i].r = web[w].r /\ accepts'[i].decision = web[w].decision
        BY <2>3, <3>2, AcceptedLast
      <4>2. phase \in {"query", "persist", "deferred", "handed"} => asked[web[w].r].round < round
        BY <1>i, <2>2, <2>4 DEF WebInv, OwnerInv
      <4> QED
        BY <1>i, <2>2, <2>3, <4>1, <4>2 DEF DecidedInv, Asked, Fits
    <3> QED
      BY <2>3, <3>1, <3>2
  <2>8. WebInv'
    <3>1. \A v \in Handlers : Active(v)' => Active(v) /\ web'[v].r = web[v].r /\ web'[v].decision = web[v].decision
      BY <2>2, <2>3 DEF Active
    <3>2. \A r, d : Fits(r, d)' = Fits(r, d)
      BY <2>2 DEF Fits, Asked
    <3> QED
      BY <1>i, <2>2, <3>1, <3>2 DEF WebInv
  <2> QED
    BY <2>5, <2>6, <2>7, <2>8 DEF RoundInv
<1>12. ASSUME NEW w \in Handlers, Respond(w) \/ RespondFails(w) PROVE RoundInv'
  <2>1. /\ UNCHANGED <<settings, round, pending, calls, asked, sent, accepts>>
        /\ Fits(web[w].r, web[w].decision) /\ web' = [web EXCEPT ![w] = Idle]
        /\ \/ phase = "waiting" /\ phase' = "start" /\ payload' = WebhookPayload(web[w])
           \/ phase' = phase /\ payload' = payload
    BY <1>i, <1>12, RespondFacts DEF agentVars, historyVars
  <2>2. \A v \in Handlers : Active(v)' => Active(v) /\ web'[v] = web[v]
    BY <1>t, <2>1, ConstantsTyped DEF Active
  <2>3. \A r, d : Fits(r, d)' = Fits(r, d)
    BY <2>1 DEF Fits, Asked
  <2>4. OwnerInv'
    BY <1>i, <2>1, <2>2 DEF OwnerInv
  <2>5. CallsInv' /\ PendingInv'
    BY <1>i, <2>1 DEF CallsInv, PendingInv, Asked
  <2>6. DecidedInv'
    BY <1>i, <2>1, <2>3 DEF DecidedInv
  <2>7. WebInv'
    BY <1>i, <2>1, <2>2, <2>3 DEF WebInv
  <2>8. PayloadInv'
    BY <1>i, <2>1, <2>3 DEF PayloadInv, WebhookPayload
  <2> QED
    BY <2>4, <2>5, <2>6, <2>7, <2>8 DEF RoundInv
<1>13. ASSUME NEW r \in pending, NEW d \in RepliesTo(r), LoopbackResume(r, d) \/ WhatsAppResume(r, d) PROVE RoundInv'
  <2>1. /\ UNCHANGED <<settings, round, pending, calls, asked, sent, web>>
        /\ phase = "handed" /\ phase' = "start" /\ Fits(r, d) /\ Accept(r, d) /\ r \in Asked /\ d \in Decision
        /\ payload'.r = r /\ payload'.decision.kind = d.kind /\ payload'.decision.picks = d.picks
    BY <1>13, CompanionFacts DEF agentVars
  <2>2. \A q, e : Fits(q, e)' = Fits(q, e)
    BY <2>1 DEF Fits, Asked
  <2>3. OwnerInv'
    BY <1>i, <2>1 DEF OwnerInv, Active
  <2>4. CallsInv' /\ PendingInv'
    BY <1>i, <2>1 DEF CallsInv, PendingInv, Asked
  <2>5. DecidedInv'
    <3>1. \A i \in DOMAIN accepts' : \/ i \in DOMAIN accepts /\ accepts'[i] = accepts[i]
                                     \/ accepts'[i].r = r /\ accepts'[i].decision = d
      BY <2>1, AcceptedLast
    <3> QED
      BY <1>i, <2>1, <2>2, <3>1 DEF DecidedInv
  <2>6. WebInv'
    BY <1>i, <2>1, <2>2 DEF WebInv, Active
  <2>7. PayloadInv'
    BY <2>1 DEF PayloadInv, Fits, Asked
  <2> QED
    BY <2>3, <2>4, <2>5, <2>6, <2>7 DEF RoundInv
<1>14. CASE Tick
  BY <1>14, <1>p DEF Tick, agentVars, historyVars
<1>15. CASE UNCHANGED vars
  BY <1>15, <1>p DEF vars, agentVars, historyVars
<1> QED
  BY <1>1, <1>2, <1>3, <1>4, <1>5, <1>6, <1>7, <1>8, <1>9, <1>10, <1>11, <1>12, <1>13, <1>14, <1>15,
     AskSteps, QuerySteps DEF Next, AgentStep, WebhookStep, CompanionStep

-----------------------------------------------------------------------------
(***************************************************************************)
(* Memory.  A record goes only when it has expired, and becomes pending    *)
(* again only if nothing was decided on it.                                *)
(***************************************************************************)
Dropped(r) == /\ store'[r].status = "none"
              /\ store[r].status = "answered" => now > store[r].answeredAt + AnsweredMaxAge
              /\ store[r].status = "pending" => Expired(store[r], now)
              /\ store'[r].fps = {}
Renewed(r) == store'[r].status = "pending" /\ ~AcceptedOn(r)
EntryKept(r) == ledger[r].there => now > ledger[r].consumedAt + AnsweredMaxAge \/ ledger'[r] = ledger[r]
NoneFound == \A w \in Handlers : web[w].pc = "found" /\ ~web[w].record => store[web[w].r].status = "none"

LEMMA CleanedDrops ==
    ASSUME TypeOK, NEW r \in Requests
    PROVE  LET clean == CleanupExpired(store, now)[r]
           IN  \/ clean = store[r]
               \/ /\ clean.status = "none" /\ clean.fps = {}
                  /\ store[r].status = "answered" => now > store[r].answeredAt + AnsweredMaxAge
                  /\ store[r].status = "pending" => Expired(store[r], now)
<1>1. store \in [Requests -> Record] /\ now \in Nat
  BY SettingsTyped DEF TypeOK
<1>2. CleanupExpired(store, now)[r] =
        IF store[r].status # "none" /\ Expired(store[r], now) THEN NoRecord ELSE store[r]
  BY <1>1, CleanupFacts
<1>3. NoRecord.status = "none" /\ NoRecord.fps = {}
  BY DEF NoRecord
<1>4. store[r].status = "answered" /\ Expired(store[r], now) => now > store[r].answeredAt + AnsweredMaxAge
  BY DEF Expired, AgeFrom, MaxAge
<1> QED
  BY <1>2, <1>3, <1>4

LEMMA MemoryKept ==
    ASSUME TypeOK, MemoryInv, UNCHANGED <<settings, accepts>>, now' \in {now, now + 1},
           settings.ownsWait => /\ \A r \in Requests : store'[r] = store[r] \/ Dropped(r) \/ Renewed(r)
                                /\ \A r \in Requests : ledger'[r] = ledger[r]
                                /\ NoneFound'
    PROVE  MemoryInv'
<1>1. DecidedOnce'
  BY DEF MemoryInv, DecidedOnce
<1>2. ASSUME settings.ownsWait PROVE StoreInv'
  <2>1. StoreInv
    BY <1>2 DEF MemoryInv
  <2>2. \A r : AcceptedOn(r)' = AcceptedOn(r)
    BY DEF AcceptedOn
  <2>3. \A r \in Requests : store'[r] = store[r] \/ Dropped(r) \/ Renewed(r)
    BY <1>2
  <2>4. \A r \in Requests : store'[r].status = "pending" => ~AcceptedOn(r)
    BY <2>1, <2>3 DEF StoreInv, Dropped, Renewed
  <2>5. \A r \in Requests : store'[r].status = "answered" => AcceptedOn(r)
    BY <2>1, <2>3 DEF StoreInv, Dropped, Renewed
  <2>6. ASSUME NEW i \in DOMAIN accepts PROVE Remembered(i)'
    <3> DEFINE r == accepts[i].r
    <3>1. r \in Requests /\ accepts[i].at \in Nat /\ now \in Nat /\ AnsweredMaxAge \in Nat
      BY AcceptsTyped, SettingsTyped
    <3>2. AcceptedOn(r)
      BY DEF AcceptedOn
    <3>3. \/ now > accepts[i].at + AnsweredMaxAge
          \/ store[r].status = "answered" /\ store[r].answeredAt = accepts[i].at
          \/ ledger[r].there /\ ledger[r].consumedAt = accepts[i].at
      BY <2>1 DEF StoreInv, Remembered
    <3>4. ledger'[r] = ledger[r] /\ (store'[r] = store[r] \/ Dropped(r))
      BY <1>2, <2>3, <3>1, <3>2 DEF Renewed
    <3>5. now > accepts[i].at + AnsweredMaxAge => now' > accepts[i].at + AnsweredMaxAge
      BY <3>1
    <3> HIDE DEF r
    <3>6. \/ now' > accepts[i].at + AnsweredMaxAge
          \/ store'[r].status = "answered" /\ store'[r].answeredAt = accepts[i].at
          \/ ledger'[r].there /\ ledger'[r].consumedAt = accepts[i].at
      BY <3>3, <3>4, <3>5 DEF Dropped
    <3> QED
      BY <3>6 DEF Remembered, r
  <2> QED
    BY <1>2, <2>2, <2>4, <2>5, <2>6 DEF StoreInv, NoneFound
<1> QED
  BY <1>1, <1>2 DEF MemoryInv

\* A decision is accepted only if every earlier one on its request is forgotten.
LEMMA AcceptedAnew ==
    ASSUME TypeOK, DecidedOnce, NEW r \in Asked, NEW d \in Decision, Accept(r, d),
           \A i \in DOMAIN accepts : accepts[i].r = r => now > accepts[i].at + AnsweredMaxAge
    PROVE  DecidedOnce'
<1> SUFFICES ASSUME NEW i \in DOMAIN accepts', NEW j \in DOMAIN accepts',
                    i < j, accepts'[i].r = accepts'[j].r
             PROVE  accepts'[j].at > accepts'[i].at + AnsweredMaxAge
  BY DEF DecidedOnce
<1>1. i \in DOMAIN accepts /\ accepts'[i] = accepts[i]
  <2>1. /\ DOMAIN accepts' = DOMAIN accepts \cup {Len(accepts) + 1} /\ Len(accepts) \in Nat
        /\ \A k \in DOMAIN accepts : k \in Nat /\ k <= Len(accepts)
    BY AppendTyped
  <2>2. i \in DOMAIN accepts
    BY <2>1
  <2> QED
    BY <2>2, AppendTyped
<1>2. CASE j \in DOMAIN accepts
  <2>1. accepts'[j] = accepts[j]
    BY <1>2, AppendTyped
  <2> QED
    BY <1>1, <1>2, <2>1 DEF DecidedOnce
<1>3. CASE j \notin DOMAIN accepts
  <2>1. accepts'[j].r = r /\ accepts'[j].at = now
    BY <1>3, AcceptedLast
  <2> QED
    BY <1>1, <2>1
<1> QED
  BY <1>2, <1>3

LEMMA InitMemory == Init => MemoryInv
<1> SUFFICES ASSUME Init PROVE MemoryInv
  OBVIOUS
<1>1. /\ accepts = <<>> /\ web = [w \in Handlers |-> Idle] /\ store = [r \in Requests |-> NoRecord]
  BY DEF Init
<1>2. DOMAIN accepts = {}
  BY <1>1
<1>3. \A r \in Requests : store[r].status = "none"
  BY <1>1 DEF NoRecord
<1>4. \A w \in Handlers : web[w].pc = "idle"
  BY <1>1, ConstantsTyped
<1> QED
  BY <1>2, <1>3, <1>4 DEF MemoryInv, StoreInv, DecidedOnce

\* What a decision does to the stores.
LEMMA TakenStores ==
    ASSUME TypeOK, RoundInv, NEW w \in Handlers, TakenByRecord(w) \/ TakenByLedger(w)
    PROVE  /\ \A r \in Requests \ {web[w].r} : store'[r] = store[r] \/ Dropped(r)
           /\ \A r \in Requests : EntryKept(r)
           /\ settings.ownsWait
           /\ \/ /\ web'[w] = Idle /\ accepts' = accepts
                 /\ store'[web[w].r] = store[web[w].r] \/ Dropped(web[w].r)
              \/ /\ web[w].record /\ Accept(web[w].r, web[w].decision) /\ web'[w].fps = store[web[w].r].fps
                 /\ store[web[w].r].status = "pending" /\ store'[web[w].r].status = "answered"
                 /\ store'[web[w].r].answeredAt = now /\ store'[web[w].r].fps = store[web[w].r].fps
              \/ /\ ~web[w].record /\ Accept(web[w].r, web[w].decision) /\ web'[w].fps = web[w].fps
                 /\ store' = store
                 /\ ledger[web[w].r].there => now > ledger[web[w].r].consumedAt + AnsweredMaxAge
                 /\ ledger'[web[w].r].there /\ ledger'[web[w].r].consumedAt = now
<1>1. PICK accepted \in BOOLEAN : Settles(w, accepted)
  BY DEF TakenByRecord, TakenByLedger
<1>2. /\ web[w].r \in Requests /\ DecisionKey(web[w].r, web[w].decision) \in Keys
      /\ web[w].decision.kind \in {"approval", "question"}
  BY <1>1, SettledFacts DEF RoundInv
<1>3. settings.ownsWait
  BY <1>1, SettingsTyped DEF RoundInv, OwnerInv, Settles, Active
<1>4. store \in [Requests -> Record] /\ ledger \in [Requests -> Entry] /\ now \in Nat
  BY SettingsTyped DEF TypeOK
<1> DEFINE r == web[w].r
           key == DecisionKey(web[w].r, web[w].decision)
           clean == CleanupExpired(store, now)
<1>c. \A q \in Requests :
         \/ clean[q] = store[q]
         \/ /\ clean[q].status = "none" /\ clean[q].fps = {}
            /\ store[q].status = "answered" => now > store[q].answeredAt + AnsweredMaxAge
            /\ store[q].status = "pending" => Expired(store[q], now)
  BY CleanedDrops
<1>5. CASE TakenByRecord(w)
  <2>1. /\ store' = Consume(store, now, r, web[w].decision.kind, key) /\ ledger' = ledger
        /\ web[w].record /\ Settles(w, RecordOutcome(w) = "accepted")
        /\ RecordOutcome(w) = "accepted" => web'[w].fps = store[r].fps
        /\ RecordOutcome(w) = ConsumeOutcome(store, now, r, web[w].decision.kind, key)
    BY <1>5 DEF TakenByRecord, RecordOutcome
  <2>2. (RecordOutcome(w) = "accepted") \in BOOLEAN
    OBVIOUS
  <2>3. /\ RecordOutcome(w) = "accepted" => Accept(r, web[w].decision)
        /\ RecordOutcome(w) # "accepted" => web'[w] = Idle /\ accepts' = accepts
    BY <2>1, <2>2, SettledFacts DEF RoundInv
  <2>4. /\ \A q \in Requests \ {r} : store'[q] = clean[q]
        /\ RecordOutcome(w) # "accepted" => store' = clean
        /\ RecordOutcome(w) = "accepted" =>
              /\ store[r].status = "pending" /\ store'[r].status = "answered" /\ store'[r].answeredAt = now
              /\ store'[r].fps = store[r].fps
    <3> DEFINE kind == web[w].decision.kind
               after == Consume(store, now, r, kind, key)
               taken == ConsumeOutcome(store, now, r, kind, key)
    <3>1. kind \in {"approval", "question"} /\ r \in Requests /\ key \in Keys
      BY <1>2
    <3>2. /\ \A q \in Requests \ {r} : after[q] = clean[q]
          /\ taken # "accepted" => after = clean
          /\ taken = "accepted" => /\ store[r].status = "pending" /\ clean[r] = store[r]
                                   /\ after[r].status = "answered" /\ after[r].answeredAt = now
                                   /\ after[r].fps = clean[r].fps
      <4> HIDE DEF kind, r, key
      <4> QED BY <1>4, <3>1, ConsumeFacts
    <3>3. store' = after /\ RecordOutcome(w) = taken
      BY <2>1
    <3> HIDE DEF clean, after, taken, kind, key
    <3> QED BY <3>2, <3>3
  <2>5. \A q \in Requests : store'[q] = clean[q] => store'[q] = store[q] \/ Dropped(q)
    BY <1>c DEF Dropped
  <2> HIDE DEF clean
  <2> QED
    BY <1>2, <1>3, <2>1, <2>3, <2>4, <2>5 DEF EntryKept
<1>6. CASE TakenByLedger(w)
  <2>1. /\ ledger' = ConsumeLedger(ledger, now, r, key) /\ store' = store
        /\ ~web[w].record /\ Settles(w, EntryOutcome(w) = "accepted")
        /\ EntryOutcome(w) = LedgerOutcome(ledger, now, r, key)
    BY <1>6 DEF TakenByLedger, EntryOutcome
  <2>2. (EntryOutcome(w) = "accepted") \in BOOLEAN
    OBVIOUS
  <2>3. /\ EntryOutcome(w) = "accepted" => Accept(r, web[w].decision)
        /\ EntryOutcome(w) # "accepted" => web'[w] = Idle /\ accepts' = accepts
    BY <2>1, <2>2, SettledFacts DEF RoundInv
  <2>4. /\ \A q \in Requests : EntryKept(q)
        /\ EntryOutcome(w) = "accepted" =>
              /\ ledger[r].there => now > ledger[r].consumedAt + AnsweredMaxAge
              /\ ledger'[r].there /\ ledger'[r].consumedAt = now
    BY <1>2, <1>4, <2>1, LedgerFacts DEF EntryKept
  <2>5. web'[w].fps = web[w].fps \/ EntryOutcome(w) # "accepted"
    BY <1>6 DEF TakenByLedger
  <2> QED
    BY <1>2, <1>3, <2>1, <2>3, <2>4, <2>5
<1> QED
  BY <1>5, <1>6

\* The two ways a decision is accepted from the webhook, as far as memory is concerned.
LEMMA TakenMemory ==
    ASSUME TypeOK, RoundInv, MemoryInv, NEW w \in Handlers, TakenByRecord(w) \/ TakenByLedger(w),
           Accept(web[w].r, web[w].decision)
    PROVE  /\ \A i \in DOMAIN accepts : accepts[i].r = web[w].r => now > accepts[i].at + AnsweredMaxAge
           /\ web[w].r \in Asked /\ web[w].r \in Requests /\ web[w].decision \in Decision
<1> DEFINE r == web[w].r
<1>1. PICK accepted \in BOOLEAN : Settles(w, accepted)
  BY DEF TakenByRecord, TakenByLedger
<1>2. r \in Asked /\ r \in Requests /\ web[w].decision \in Decision
  BY <1>1, SettledFacts DEF RoundInv
<1>3. settings.ownsWait /\ web[w].pc = "found"
  BY <1>1, TakenStores DEF Settles
<1>4. StoreInv
  BY <1>3 DEF MemoryInv
<1>5. accepts' # accepts
  <2>1. DOMAIN accepts' # DOMAIN accepts
    BY <1>2, AppendTyped
  <2> QED
    BY <2>1
<1>6. ASSUME NEW i \in DOMAIN accepts, accepts[i].r = r PROVE now > accepts[i].at + AnsweredMaxAge
  <2>1. \/ now > accepts[i].at + AnsweredMaxAge
        \/ store[r].status = "answered" /\ store[r].answeredAt = accepts[i].at
        \/ ledger[r].there /\ ledger[r].consumedAt = accepts[i].at
    BY <1>4, <1>6 DEF StoreInv, Remembered
  <2>2. AcceptedOn(r)
    BY <1>6 DEF AcceptedOn
  <2>3. CASE web[w].record
    <3>1. store[r].status = "pending"
      BY <1>5, <2>3, TakenStores
    <3> QED
      BY <1>2, <1>4, <2>2, <3>1 DEF StoreInv
  <2>4. CASE ~web[w].record
    <3>1. store[r].status = "none"
      BY <1>3, <1>4, <2>4 DEF StoreInv
    <3>2. ledger[r].there => now > ledger[r].consumedAt + AnsweredMaxAge
      BY <1>5, <2>4, TakenStores
    <3> QED
      BY <2>1, <3>1, <3>2
  <2> QED
    BY <1>2, <2>3, <2>4, WebTyped DEF WebState
<1> QED
  BY <1>2, <1>6

LEMMA MemoryStep == TypeOK /\ RoundInv /\ MemoryInv /\ [Next]_vars => MemoryInv'
<1> SUFFICES ASSUME TypeOK, RoundInv, MemoryInv, [Next]_vars PROVE MemoryInv'
  OBVIOUS
<1>t. /\ now \in Nat /\ store \in [Requests -> Record] /\ ledger \in [Requests -> Entry]
      /\ web \in [Handlers -> WebState] /\ Asked \subseteq Requests /\ pending \subseteq Asked /\ sent \subseteq Asked
      /\ CleanupExpired(store, now) \in [Requests -> Record] /\ Len(asked) \in Nat
  BY SettingsTyped, AskedTyped, CleanupFacts DEF TypeOK, WebState
<1>i. OwnerInv /\ CallsInv /\ PendingInv /\ DecidedInv /\ WebInv
  BY DEF RoundInv
<1>n. settings.ownsWait => NoneFound
  BY DEF MemoryInv, StoreInv, NoneFound
<1>r. \A w \in Handlers : web[w].pc = "found" => web[w].r \in Asked /\ web[w].r \in Requests
  BY <1>i, <1>t DEF WebInv, Active, Fits
<1>c. \A r \in Requests : store'[r] = CleanupExpired(store, now)[r] =>
         /\ store'[r] = store[r] \/ Dropped(r)
         /\ store[r].status = "none" => store'[r].status = "none"
  BY CleanedDrops DEF Dropped
\* A step that leaves the stores and the decisions alone.
<1>p. ASSUME UNCHANGED <<settings, store, ledger, accepts>>, now' \in {now, now + 1},
             \A w \in Handlers : web'[w] = web[w] \/ web'[w] = Idle
      PROVE  MemoryInv'
  <2>1. settings.ownsWait => NoneFound'
    BY <1>n, <1>p, ConstantsTyped DEF NoneFound
  <2> QED
    BY <1>p, <2>1, MemoryKept
\* A step that drops what has expired.
<1>q. ASSUME UNCHANGED <<settings, ledger, accepts, now>>, store' = CleanupExpired(store, now),
             settings.ownsWait => NoneFound'
      PROVE  MemoryInv'
  BY <1>c, <1>q, MemoryKept
<1>1. CASE SetupFails \/ PassThrough \/ WaitExpires \/ SendDeferred
  BY <1>1, <1>p DEF SetupFails, PassThrough, WaitExpires, SendDeferred, storeVars, historyVars
<1>2. CASE Setup
  BY <1>2, <1>p DEF Setup, storeVars
<1>3. CASE QueryEnds \/ QueryAborts
  <2>1. EndOfQuery
    BY <1>3 DEF QueryEnds, QueryAborts
  <2> QED
    BY <2>1, <1>p DEF EndOfQuery, storeVars
<1>4. CASE QueryStep
  BY <1>4, <1>p DEF QueryStep
<1>5. ASSUME NEW s \in Slots, NEW x, AskStep(s, x) PROVE MemoryInv'
  <2> DEFINE r == Len(asked) + 1
             rec == PendingRecord(x.kind, x.at)
  <2>1. UNCHANGED <<settings, ledger, web, now, accepts>>
    BY <1>5 DEF AskStep
  <2>2. r \in Requests /\ store' = SaveInteraction(store, now, r, rec) /\ rec \in Record /\ rec.status = "pending"
    BY <1>5, AskFacts DEF PendingRecord, NoRecord
  <2>3. r \notin Asked /\ ~AcceptedOn(r)
    BY <1>t, AcceptsTyped DEF Asked, AcceptedOn
  <2> HIDE DEF r, rec
  <2>4. /\ \A q \in Requests \ {r} : store'[q] = CleanupExpired(store, now)[q]
        /\ store'[r] = rec \/ store'[r] = CleanupExpired(store, now)[r]
    <3>1. store \in [Requests -> Record] /\ now \in Nat /\ r \in Requests /\ rec \in Record
      BY <1>t, <2>2
    <3>2. /\ \A q \in Requests \ {r} : SaveInteraction(store, now, r, rec)[q] = CleanupExpired(store, now)[q]
          /\ SaveInteraction(store, now, r, rec)[r] =
                IF CleanupExpired(store, now)[r].status = "answered" THEN CleanupExpired(store, now)[r] ELSE rec
      BY <3>1, SaveFacts
    <3> QED
      BY <2>2, <3>2
  <2>5. \A q \in Requests : store'[q] = store[q] \/ Dropped(q) \/ Renewed(q)
    BY <1>c, <2>2, <2>3, <2>4 DEF Renewed
  <2>6. settings.ownsWait => NoneFound'
    BY <1>n, <1>r, <1>c, <2>1, <2>3, <2>4 DEF NoneFound
  <2> QED
    BY <2>1, <2>5, <2>6, MemoryKept
<1>6. ASSUME NEW s \in Slots, AddInteraction(s) \/ Preview(s) PROVE MemoryInv'
  BY <1>6, <1>p DEF AddInteraction, Preview, storeVars, historyVars
<1>7. CASE WaitForPendingInteractions
  <2>1. /\ store' = Persisted /\ phase = "persist"
        /\ UNCHANGED <<settings, ledger, web, now, accepts>>
    BY <1>7 DEF WaitForPendingInteractions, historyVars
  <2>2. ASSUME NEW r \in pending
        PROVE  ~AcceptedOn(r) /\ \A w \in Handlers : web[w].pc = "found" => web[w].r # r
    <3>1. asked[r].round = round /\ \A i \in DOMAIN accepts : asked[accepts[i].r].round < round
      BY <1>i, <2>1 DEF PendingInv, DecidedInv
    <3>2. \A w \in Handlers : web[w].pc = "found" => asked[web[w].r].round < round
      BY <1>i, <2>1 DEF WebInv, Active
    <3>3. round \in Nat
      BY DEF TypeOK
    <3> QED
      BY <3>1, <3>2, <3>3 DEF AcceptedOn
  <2>3. /\ \A r \in Requests \ pending : store'[r] = CleanupExpired(store, now)[r]
        /\ \A r \in pending : \/ store'[r] = CleanupExpired(store, now)[r]
                              \/ store'[r].status = "pending"
    <3>1. ASSUME NEW r \in pending
          PROVE  Persisted[r] = CleanupExpired(store, now)[r] \/ Persisted[r].status = "pending"
      <4>1. PendingRecord(asked[r].kind, asked[r].at).status = "pending"
        BY DEF PendingRecord, NoRecord
      <4> QED BY <4>1, PersistedFacts
    <3>2. \A r \in Requests \ pending : Persisted[r] = CleanupExpired(store, now)[r]
      BY PersistedFacts
    <3> QED BY <2>1, <3>1, <3>2
  <2>4. \A r \in Requests : store'[r] = store[r] \/ Dropped(r) \/ Renewed(r)
    BY <1>c, <2>2, <2>3 DEF Renewed
  <2>5. settings.ownsWait => NoneFound'
    BY <1>n, <1>r, <1>c, <2>1, <2>2, <2>3 DEF NoneFound
  <2> QED
    BY <2>1, <2>4, <2>5, MemoryKept
<1>9. ASSUME NEW w \in Handlers, NEW r \in sent, NEW d \in DecisionsOn(r), Post(w, r, d) PROVE MemoryInv'
  <2>1. /\ UNCHANGED <<settings, ledger, accepts, now>> /\ store' = CleanupExpired(store, now)
        /\ \A v \in Handlers \ {w} : web'[v] = web[v]
        /\ web'[w].r = r /\ r \in Requests
        /\ web'[w].record = (CleanupExpired(store, now)[r].status # "none")
    BY <1>9, PostFacts DEF historyVars
  <2>2. settings.ownsWait => NoneFound'
    BY <1>n, <1>r, <1>c, <2>1 DEF NoneFound
  <2> QED
    BY <2>1, <2>2, <1>q
<1>10. ASSUME NEW r \in sent, Visit(r) PROVE MemoryInv'
  <2>1. /\ UNCHANGED <<settings, ledger, accepts, now, web>> /\ store' = CleanupExpired(store, now)
    BY <1>10 DEF Visit, historyVars
  <2>2. settings.ownsWait => NoneFound'
    BY <1>n, <1>r, <1>c, <2>1 DEF NoneFound
  <2> QED
    BY <2>1, <2>2, <1>q
<1>11. ASSUME NEW w \in Handlers, ConsumeRecord(w) \/ ConsumeUnrecorded(w) PROVE MemoryInv'
  <2>0. TakenByRecord(w) \/ TakenByLedger(w)
    BY <1>11, ConsumeSteps
  <2>1. PICK accepted \in BOOLEAN : Settles(w, accepted)
    BY <2>0 DEF TakenByRecord, TakenByLedger
  <2> DEFINE r == web[w].r
  <2>2. /\ UNCHANGED <<settings, now>> /\ r \in Requests /\ r \in Asked /\ web[w].decision \in Decision
        /\ \A v \in Handlers \ {w} : web'[v] = web[v]
        /\ web'[w].pc # "found"
    BY <1>i, <2>1, SettledFacts, ConstantsTyped DEF Settles
  <2>3. /\ \A q \in Requests \ {r} : store'[q] = store[q] \/ Dropped(q)
        /\ \A q \in Requests : EntryKept(q)
        /\ settings.ownsWait
    BY <2>0, TakenStores
  <2>4. StoreInv /\ DecidedOnce
    BY <2>3 DEF MemoryInv
  \* What was not found at the lookup is still not there.
  <2>5. ASSUME store'[r].status = "none" \/ store'[r].status = store[r].status \/ store[r].status = "pending"
        PROVE  NoneFound'
    <3>1. NoneFound
      BY <1>n, <2>3
    <3> QED
      BY <1>r, <2>2, <2>3, <2>5, <3>1 DEF NoneFound, Dropped
  <2>6. CASE accepts' = accepts
    <3>1. store'[r] = store[r] \/ Dropped(r)
      <4>1. ~Accept(r, web[w].decision)
        <5>1. Accept(r, web[w].decision) => DOMAIN accepts' # DOMAIN accepts
          BY <2>2, AppendTyped
        <5> QED
          BY <2>6, <5>1
      <4> QED
        BY <2>0, <4>1, TakenStores
    <3>2. \A q \in Requests : store'[q] = store[q] \/ Dropped(q)
      BY <2>3, <3>1
    <3>3. \A i \in DOMAIN accepts : Remembered(i)'
      <4> SUFFICES ASSUME NEW i \in DOMAIN accepts PROVE Remembered(i)'
        OBVIOUS
      <4>1. accepts[i].r \in Requests /\ accepts'[i] = accepts[i]
        BY <2>6, AcceptsTyped
      <4> QED
        BY <2>2, <2>3, <2>4, <3>2, <4>1 DEF StoreInv, Remembered, Dropped, EntryKept
    <3>4. NoneFound'
      BY <2>5, <3>1 DEF Dropped
    <3>5. StoreInv'
      BY <2>4, <2>6, <3>2, <3>3, <3>4 DEF StoreInv, NoneFound, AcceptedOn, Dropped
    <3> QED
      BY <2>2, <2>4, <2>6, <3>5 DEF MemoryInv, DecidedOnce
  <2>7. CASE accepts' # accepts
    <3>1. Accept(r, web[w].decision)
      BY <2>0, <2>7, TakenStores
    <3>2. \A i \in DOMAIN accepts : accepts[i].r = r => now > accepts[i].at + AnsweredMaxAge
      BY <2>0, <3>1, TakenMemory
    <3>3. DecidedOnce'
      BY <2>2, <2>4, <3>1, <3>2, AcceptedAnew
    <3>4. \A q : AcceptedOn(q)' <=> AcceptedOn(q) \/ q = r
      <4>1. /\ \A i \in DOMAIN accepts' : (i \in DOMAIN accepts /\ accepts'[i] = accepts[i]) \/ accepts'[i].r = r
            /\ \A i \in DOMAIN accepts : i \in DOMAIN accepts' /\ accepts'[i] = accepts[i]
            /\ \E i \in DOMAIN accepts' : accepts'[i].r = r
        <5>1. accepts'[Len(accepts) + 1].r = r /\ Len(accepts) + 1 \in DOMAIN accepts'
          <6>1. Len(accepts) + 1 \in DOMAIN accepts' /\ Len(accepts) + 1 \notin DOMAIN accepts
            BY <2>2, <3>1, AppendTyped
          <6> QED
            BY <2>2, <3>1, <6>1, AcceptedLast
        <5> QED
          BY <2>2, <3>1, <5>1, AcceptedLast, AppendTyped
      <4> QED
        BY <4>1 DEF AcceptedOn
    <3>5. /\ \/ store'[r].status = "answered" /\ store'[r].answeredAt = now
             \/ store'[r] = store[r] /\ ledger'[r].there /\ ledger'[r].consumedAt = now
          /\ store'[r].status = store[r].status \/ store[r].status = "pending"
          /\ store'[r].status # "pending"
      <4>1. CASE web[w].record
        BY <2>0, <2>7, <4>1, TakenStores
      <4>2. CASE ~web[w].record
        <5>1. store[r].status = "none"
          BY <2>1, <2>4, <4>2 DEF StoreInv, Settles
        <5> QED
          BY <2>0, <2>7, <4>2, <5>1, TakenStores
      <4> QED
        BY <4>1, <4>2, WebTyped DEF WebState
    <3>6. \A i \in DOMAIN accepts' : Remembered(i)'
      <4> SUFFICES ASSUME NEW i \in DOMAIN accepts' PROVE Remembered(i)'
        OBVIOUS
      <4>1. CASE accepts'[i].r = r /\ accepts'[i].at = now
        BY <2>2, <3>5, <4>1 DEF Remembered
      <4>2. CASE i \in DOMAIN accepts /\ accepts'[i] = accepts[i]
        <5>1. CASE accepts[i].r = r
          BY <2>2, <3>2, <4>2, <5>1 DEF Remembered
        <5>2. CASE accepts[i].r # r
          <6>1. accepts[i].r \in Requests
            BY <4>2, AcceptsTyped
          <6> QED
            BY <2>2, <2>3, <2>4, <4>2, <5>2, <6>1 DEF StoreInv, Remembered, Dropped, EntryKept
        <5> QED
          BY <5>1, <5>2
      <4> QED
        BY <2>2, <3>1, <4>1, <4>2, AcceptedLast
    <3>7. NoneFound'
      BY <2>5, <3>5
    <3>8. \A q \in Requests : /\ store'[q].status = "pending" => ~AcceptedOn(q)'
                              /\ store'[q].status = "answered" => AcceptedOn(q)'
      BY <2>3, <2>4, <3>4, <3>5 DEF StoreInv, Dropped
    <3>9. StoreInv'
      BY <3>6, <3>7, <3>8 DEF StoreInv, NoneFound
    <3> QED
      BY <3>3, <3>9 DEF MemoryInv
  <2> QED
    BY <2>6, <2>7
<1>12. ASSUME NEW w \in Handlers, Respond(w) \/ RespondFails(w) PROVE MemoryInv'
  <2>1. /\ UNCHANGED <<settings, store, ledger, accepts, now>> /\ web' = [web EXCEPT ![w] = Idle]
    BY <1>i, <1>12, RespondFacts DEF storeVars, historyVars
  <2> QED
    BY <1>t, <2>1, <1>p
<1>13. ASSUME NEW r \in pending, NEW d \in RepliesTo(r), LoopbackResume(r, d) \/ WhatsAppResume(r, d) PROVE MemoryInv'
  <2>1. /\ phase = "handed" /\ r \in Asked /\ d \in Decision /\ Accept(r, d) /\ UNCHANGED settings
    BY <1>13, CompanionFacts
  <2>2. ~settings.ownsWait /\ round \in Nat /\ asked[r].round = round
        /\ \A i \in DOMAIN accepts : asked[accepts[i].r].round < round
    BY <1>i, <2>1 DEF OwnerInv, PendingInv, DecidedInv, TypeOK
  <2>3. \A i \in DOMAIN accepts : accepts[i].r # r
    BY <2>2
  <2>4. DecidedOnce'
    BY <2>1, <2>3, AcceptedAnew DEF MemoryInv
  <2> QED
    BY <2>1, <2>2, <2>4 DEF MemoryInv
<1>14. CASE Tick
  BY <1>14, <1>p DEF Tick, storeVars, historyVars
<1>15. CASE UNCHANGED vars
  BY <1>15, <1>p DEF vars, storeVars, historyVars
<1> QED
  BY <1>1, <1>2, <1>3, <1>4, <1>5, <1>6, <1>7, <1>9, <1>10, <1>11, <1>12, <1>13, <1>14, <1>15,
     AskSteps, QuerySteps DEF Next, AgentStep, WebhookStep, CompanionStep

-----------------------------------------------------------------------------
(***************************************************************************)
(* The wait.                                                               *)
(***************************************************************************)
LEMMA StaysExpired ==
    ASSUME NEW rec \in Record, NEW t \in Nat, Expired(rec, t)
    PROVE  Expired(rec, t + 1)
BY AgesAssumption DEF Expired, AgeFrom, MaxAge, Record

LEMMA AwaitedKept ==
    ASSUME TypeOK, NEW r \in Asked, Awaited(r), UNCHANGED <<settings, asked>>, now' \in {now, now + 1},
           AcceptedOn(r) => AcceptedOn(r)',
           store[r].status = "answered" => AcceptedOn(r),
           store'[r] = store[r] \/ Dropped(r) \/ store'[r].status = "answered"
    PROVE  Awaited(r)'
<1>t. /\ now \in Nat /\ store \in [Requests -> Record] /\ r \in Requests /\ settings.timeout \in Nat
      /\ asked[r].kind \in {"approval", "question"} /\ asked[r].at \in Nat
  BY SettingsTyped, AskedTyped DEF TypeOK
<1> DEFINE rec == PendingRecord(asked[r].kind, asked[r].at)
<1>1. rec \in Record /\ rec.status = "pending" /\ rec.createdAt = asked[r].at /\ rec.timeout = settings.timeout
  BY <1>t, PendingRecordTyped
<1>2. rec'.status = "pending" /\ rec'.createdAt = asked[r].at /\ rec'.timeout = settings.timeout
  BY DEF PendingRecord, NoRecord
<1>3. Outlived(r) = Expired(rec, now) /\ Outlived(r)' = Expired(rec', now')
  BY DEF Outlived
<1> HIDE DEF rec
<1>4. Expired(rec, now') => Expired(rec', now')
  BY <1>1, <1>2 DEF Expired, AgeFrom, MaxAge
<1>5. Expired(rec, now) => Expired(rec, now')
  BY <1>t, <1>1, StaysExpired
<1>6. Outlived(r) => Outlived(r)'
  BY <1>3, <1>4, <1>5
<1>7. CASE store'[r] = store[r] \/ store'[r].status = "answered"
  BY <1>6, <1>7 DEF Awaited
<1>8. CASE Dropped(r)
  <2>1. CASE store[r].status = "pending"
    <3>1. Expired(store[r], now) /\ store[r].createdAt = asked[r].at /\ store[r].timeout = settings.timeout
      BY <1>8, <2>1 DEF Dropped, Awaited
    <3>2. Expired(rec, now)
      BY <1>1, <2>1, <3>1 DEF Expired, AgeFrom, MaxAge
    <3> QED
      BY <1>3, <1>6, <1>8, <3>2 DEF Dropped, Awaited
  <2>2. CASE store[r].status = "none"
    BY <1>6, <1>8, <2>2 DEF Dropped, Awaited
  <2>3. CASE store[r].status = "answered"
    BY <1>8, <2>3 DEF Dropped, Awaited
  <2> QED
    BY <1>t, <2>1, <2>2, <2>3 DEF Record
<1> QED
  BY <1>7, <1>8

LEMMA OnePending ==
    ASSUME TypeOK, pending # {}, ~(Cardinality(pending) > 1)
    PROVE  \E r \in Asked : pending = {r}
<1>1. pending \subseteq Asked /\ Len(asked) \in Nat
  BY AskedTyped DEF TypeOK
<1>2. IsFiniteSet(pending) /\ Cardinality(pending) \in Nat
  <2>1. IsFiniteSet(1 .. Len(asked))
    BY <1>1, FS_Interval
  <2>2. IsFiniteSet(pending)
    BY <1>1, <2>1, FS_Subset DEF Asked
  <2> QED
    BY <2>2, FS_CardinalityType
<1>3. Cardinality(pending) # 0
  BY <1>2, FS_EmptySet
<1>4. Cardinality(pending) = 1
  BY <1>2, <1>3
<1>5. \E r : pending = {r}
  BY <1>2, <1>4, FS_Singleton
<1> QED
  BY <1>1, <1>5

LEMMA WaitStep == TypeOK /\ RoundInv /\ MemoryInv /\ WaitInv /\ [Next]_vars => WaitInv'
<1> SUFFICES ASSUME TypeOK, RoundInv, MemoryInv, WaitInv, [Next]_vars, phase' \in {"deferred", "waiting"}
             PROVE  \E r \in Asked' : pending' = {r} /\ Awaited(r)'
  BY DEF WaitInv
<1>t. Asked \subseteq Requests
  BY AskedTyped
\* A step of the wait.
<1>p. ASSUME UNCHANGED <<settings, asked, pending>>, phase \in {"deferred", "waiting"}, now' \in {now, now + 1},
             \A r \in Requests : AcceptedOn(r) => AcceptedOn(r)',
             \A r \in Requests : store'[r] = store[r] \/ Dropped(r) \/ store'[r].status = "answered"
      PROVE  \E r \in Asked' : pending' = {r} /\ Awaited(r)'
  <2>1. PICK r \in Asked : pending = {r} /\ Awaited(r)
    BY <1>p DEF WaitInv
  <2>2. store[r].status = "answered" => AcceptedOn(r)
    BY <1>p, <1>t DEF RoundInv, OwnerInv, MemoryInv, StoreInv
  <2>3. Awaited(r)'
    BY <1>p, <1>t, <2>1, <2>2, AwaitedKept
  <2> QED
    BY <1>p, <2>1, <2>3 DEF Asked
<1>c. \A r \in Requests : store'[r] = CleanupExpired(store, now)[r] => store'[r] = store[r] \/ Dropped(r)
  BY CleanedDrops DEF Dropped
<1>a. accepts' = accepts => \A r : AcceptedOn(r) => AcceptedOn(r)'
  BY DEF AcceptedOn
<1>1. CASE SetupFails \/ PassThrough \/ WaitExpires \/ Setup
  BY <1>1 DEF SetupFails, PassThrough, WaitExpires, Setup
<1>3. CASE QueryEnds \/ QueryAborts
  BY <1>3 DEF QueryEnds, QueryAborts
<1>4. CASE QueryStep
  BY <1>4 DEF QueryStep
<1>5. ASSUME NEW s \in Slots, NEW x, AskStep(s, x) PROVE FALSE
  BY <1>5 DEF AskStep
<1>6. ASSUME NEW s \in Slots, AddInteraction(s) \/ Preview(s) PROVE FALSE
  BY <1>6 DEF AddInteraction, Preview
<1>7. CASE WaitForPendingInteractions
  <2>1. pending # {} /\ ~(Cardinality(pending) > 1)
    BY <1>7 DEF WaitForPendingInteractions, RoundInv, PendingInv
  <2>2. PICK r \in Asked : pending = {r}
    BY <2>1, OnePending
  <2>3. UNCHANGED <<settings, pending, asked, accepts>> /\ store' = Persisted
    BY <1>7 DEF WaitForPendingInteractions, agentVars, historyVars
  <2>4. asked[r].kind \in {"approval", "question"} /\ asked[r].at \in Nat
    BY AskedTyped
  <2>5. store'[r].status = "answered" \/ store'[r] = PendingRecord(asked[r].kind, asked[r].at)
    BY <2>2, <2>3, PersistedFacts
  <2>6. Awaited(r)'
    BY <2>3, <2>4, <2>5, PendingRecordTyped DEF Awaited
  <2> QED
    BY <2>2, <2>3, <2>6 DEF Asked
<1>8. CASE SendDeferred
  BY <1>8, <1>a, <1>p DEF SendDeferred, agentVars, storeVars, historyVars
<1>9. ASSUME NEW w \in Handlers, NEW r \in sent, NEW d \in DecisionsOn(r), Post(w, r, d)
      PROVE  \E q \in Asked' : pending' = {q} /\ Awaited(q)'
  BY <1>9, <1>a, <1>c, <1>p DEF Post, agentVars, historyVars
<1>10. ASSUME NEW r \in sent, Visit(r) PROVE \E q \in Asked' : pending' = {q} /\ Awaited(q)'
  BY <1>10, <1>a, <1>c, <1>p DEF Visit, agentVars, historyVars
<1>11. ASSUME NEW w \in Handlers, ConsumeRecord(w) \/ ConsumeUnrecorded(w)
       PROVE  \E q \in Asked' : pending' = {q} /\ Awaited(q)'
  <2>0. TakenByRecord(w) \/ TakenByLedger(w)
    BY <1>11, ConsumeSteps
  <2>1. PICK accepted \in BOOLEAN : Settles(w, accepted)
    BY <2>0 DEF TakenByRecord, TakenByLedger
  <2>2. UNCHANGED <<settings, asked, pending, phase, now>>
    BY <2>1 DEF Settles
  <2>3. \A q \in Requests : store'[q] = store[q] \/ Dropped(q) \/ store'[q].status = "answered"
    BY <2>0, TakenStores
  <2>4. \A q : AcceptedOn(q) => AcceptedOn(q)'
    <3>1. CASE accepts' = accepts
      BY <1>a, <3>1
    <3>2. CASE Accept(web[w].r, web[w].decision)
      <4>1. web[w].r \in Asked /\ web[w].decision \in Decision
        BY <2>1, SettledFacts DEF RoundInv
      <4> QED
        BY <3>2, <4>1, AppendTyped DEF AcceptedOn
    <3> QED
      BY <2>0, <3>1, <3>2, TakenStores
  <2> QED
    BY <2>2, <2>3, <2>4, <1>p
<1>12. ASSUME NEW w \in Handlers, Respond(w) \/ RespondFails(w)
       PROVE  \E q \in Asked' : pending' = {q} /\ Awaited(q)'
  <2>1. phase' = phase /\ UNCHANGED <<settings, asked, pending, store, now, accepts>>
    BY <1>12, RespondFacts DEF RoundInv, agentVars, storeVars, historyVars
  <2> QED
    BY <1>a, <2>1, <1>p
<1>13. ASSUME NEW r \in pending, NEW d \in RepliesTo(r), LoopbackResume(r, d) \/ WhatsAppResume(r, d) PROVE FALSE
  BY <1>13 DEF LoopbackResume, WhatsAppResume
<1>14. CASE Tick
  BY <1>14, <1>a, <1>p DEF Tick, agentVars, storeVars, historyVars
<1>15. CASE UNCHANGED vars
  BY <1>15, <1>a, <1>p DEF vars, agentVars, storeVars, historyVars
<1> QED
  BY <1>1, <1>3, <1>4, <1>5, <1>6, <1>7, <1>8, <1>9, <1>10, <1>11, <1>12, <1>13, <1>14, <1>15,
     AskSteps, QuerySteps DEF Next, AgentStep, WebhookStep, CompanionStep

(***************************************************************************)
(* DecidedOnce: two decisions on one request are accepted only if the      *)
(* first is older than what the store and the ledger remember.             *)
(***************************************************************************)
DecisionInv == TypeOK /\ RoundInv /\ MemoryInv /\ WaitInv

LEMMA DecisionsHold == Spec => []DecisionInv
<1>1. Init => DecisionInv
  <2>1. Init => WaitInv
    BY DEF Init, WaitInv
  <2> QED
    BY <2>1, InitTypes, InitRounds, InitMemory DEF DecisionInv
<1>2. DecisionInv /\ [Next]_vars => DecisionInv'
  BY TypesStep, RoundsStep, MemoryStep, WaitStep DEF DecisionInv
<1> QED
  BY <1>1, <1>2, PTL DEF Spec

\* The types of the variables.
THEOREM TypesHold == Spec => []TypeOK
BY DecisionsHold, PTL DEF DecisionInv

\* A request is decided twice only after the first decision has been forgotten by the
\* store and the ledger (consumeApprovalDecision, consumeWebhookDecision).
THEOREM OneDecision == Spec => []DecidedOnce
<1>1. DecisionInv => DecidedOnce
  BY DEF DecisionInv, MemoryInv
<1> QED
  BY <1>1, DecisionsHold, PTL

\* A waiting execution waits for one request, whose record is there unless it was answered
\* or has outlived its timeout (waitForPendingInteractions).
THEOREM OneWait == Spec => []WaitsForOne
<1>1. DecisionInv => WaitsForOne
  <2> SUFFICES ASSUME DecisionInv, phase = "waiting" PROVE WaitsForOne
    BY DEF WaitsForOne
  <2>1. PICK r \in Asked : pending = {r} /\ Awaited(r)
    BY DEF DecisionInv, WaitInv
  <2>2. r \in Requests /\ store[r].status \in {"none", "pending", "answered"}
    BY AskedTyped DEF DecisionInv, TypeOK, Record
  <2>3. store[r].status = "answered" => AcceptedOn(r)
    BY <2>2 DEF DecisionInv, RoundInv, OwnerInv, MemoryInv, StoreInv
  <2> QED
    BY <2>1, <2>2, <2>3 DEF Awaited, WaitsForOne
<1> QED
  BY <1>1, DecisionsHold, PTL

-----------------------------------------------------------------------------
(***************************************************************************)
(* What runs.                                                              *)
(***************************************************************************)
RunStep(c) == RunUnasked(c) \/ ResolveQueued(c) \/ RunApproved(c) \/ RunByRules(c)

LEMMA OtherSteps ==
    ASSUME TypeOK, WebInv, [Next]_vars
    PROVE  /\ settings' = settings
           /\ ran' = ran \/ ran' = {} \/ \E c \in Calls : RunStep(c)
<1>1. CASE SetupFails \/ PassThrough \/ WaitExpires \/ Setup
  BY <1>1 DEF SetupFails, PassThrough, WaitExpires, Setup, historyVars
<1>3. CASE QueryEnds \/ QueryAborts
  BY <1>3 DEF QueryEnds, QueryAborts, EndOfQuery
<1>4. ASSUME NEW c \in Calls, RunStep(c) PROVE settings' = settings
  BY <1>4, QuerySteps DEF QueryStep, RunStep
<1>a. ASSUME NEW f \in Forms, AnswerQuestion(f) PROVE settings' = settings /\ ran' = ran
  BY <1>a DEF AnswerQuestion, historyVars
<1>5. ASSUME NEW s \in Slots, NEW x, AskStep(s, x) PROVE settings' = settings /\ ran' = ran
  BY <1>5 DEF AskStep
<1>6. ASSUME NEW s \in Slots, AddInteraction(s) \/ Preview(s) PROVE settings' = settings /\ ran' = ran
  BY <1>6 DEF AddInteraction, Preview, historyVars
<1>7. CASE WaitForPendingInteractions \/ SendDeferred
  BY <1>7 DEF WaitForPendingInteractions, SendDeferred, historyVars
<1>9. ASSUME NEW w \in Handlers, NEW r \in sent, NEW d \in DecisionsOn(r), Post(w, r, d)
      PROVE  settings' = settings /\ ran' = ran
  BY <1>9 DEF Post, historyVars
<1>10. ASSUME NEW r \in sent, Visit(r) PROVE settings' = settings /\ ran' = ran
  BY <1>10 DEF Visit, historyVars
<1>11. ASSUME NEW w \in Handlers, ConsumeRecord(w) \/ ConsumeUnrecorded(w)
       PROVE  settings' = settings /\ ran' = ran
  BY <1>11 DEF ConsumeRecord, ConsumeUnrecorded
<1>12. ASSUME NEW w \in Handlers, Respond(w) \/ RespondFails(w) PROVE settings' = settings /\ ran' = ran
  BY <1>12, RespondFacts DEF historyVars
<1>13. ASSUME NEW r \in pending, NEW d \in RepliesTo(r), LoopbackResume(r, d) \/ WhatsAppResume(r, d)
       PROVE  settings' = settings /\ ran' = ran
  BY <1>13, CompanionFacts
<1>14. CASE Tick
  BY <1>14 DEF Tick, historyVars
<1>15. CASE UNCHANGED vars
  BY <1>15 DEF vars, historyVars
<1> QED
  BY <1>1, <1>3, <1>4, <1>a, <1>5, <1>6, <1>7, <1>9, <1>10, <1>11, <1>12, <1>13, <1>14, <1>15,
     AskSteps DEF Next, AgentStep, WebhookStep, CompanionStep, RunStep

\* What the hooks admit, the rules in the agent's directory do not deny: without the
\* permission hook no feature is on.
LEMMA HooksFollowRules ==
    ASSUME NEW config, NEW c, HooksAdmit(config, c)
    PROVE  EvaluatePermissionDecision(config, c, "workdir") # "deny" /\ ~CheckContentFilter(c, config.filter)
<1>1. CASE HasAnyPermissionsEnabled(config)
  BY <1>1 DEF HooksAdmit, PreToolUseHook
<1>2. CASE ~HasAnyPermissionsEnabled(config)
  <2>1. ~config.sandbox.on /\ ~config.filter.on /\ ~config.perms.on /\ config.blocked = {}
    BY <1>2 DEF HasAnyPermissionsEnabled
  <2>2. EvaluatePermissionDecision(config, c, "workdir") = "allow"
    BY <2>1 DEF EvaluatePermissionDecision
  <2> QED
    BY <2>1, <2>2 DEF CheckContentFilter
<1> QED
  BY <1>1, <1>2

LEMMA RulesAdmit ==
    ASSUME NEW config, NEW c, CheckPermissionRules(config, c, "workdir") # "deny"
    PROVE  EvaluatePermissionDecision(config, c, "workdir") # "deny" /\ ~CheckContentFilter(c, config.filter)
BY DEF CheckPermissionRules

\* What a step of the query runs.
RanAs(c, x) ==
    /\ x.given = c /\ x.mode = mode /\ HooksAdmit(Config, c)
    /\ \/ x.input = c /\ x.how = "allowed"
       \/ x.input = c /\ x.how = "mode" /\ ModeLets(c)
       \/ /\ x.input = Candidate(c) /\ x.how = "queued"
          /\ IsQueued(c) /\ queuedApproval.ok
          /\ CheckPermissionRules(Config, Candidate(c), "workdir") # "deny"
       \/ x.input = c /\ x.how = "approved" /\ Fingerprint(settings, c) \in approved
       \/ x.input = c /\ x.how = "rules" /\ ~ToolRequiresApproval(settings, c)

LEMMA RunFacts ==
    ASSUME NEW c \in Calls, RunStep(c)
    PROVE  ran' = ran \/ \E x : ran' = {x} /\ RanAs(c, x)
<1> DEFINE X(input, how) == [given |-> c, input |-> input, how |-> how, mode |-> mode]
<1>0. ASSUME NEW x, ran' = {x}, RanAs(c, x) PROVE \E y : ran' = {y} /\ RanAs(c, y)
  BY <1>0
<1>1. CASE RunUnasked(c)
  <2>1. CASE ToolOf[c] \in settings.allowed
    BY <1>1, <2>1, <1>0 DEF RunUnasked, Run, RanAs
  <2>2. CASE ToolOf[c] \notin settings.allowed
    BY <1>1, <2>2, <1>0 DEF RunUnasked, Run, RanAs
  <2> QED
    BY <2>1, <2>2
<1>2. CASE ResolveQueued(c) /\ queuedApproval.ok /\ CheckPermissionRules(Config, Candidate(c), "workdir") # "deny"
  <2>1. ran' = {X(Candidate(c), "queued")} /\ HooksAdmit(Config, c) /\ IsQueued(c)
    BY <1>2 DEF ResolveQueued, Run, CanUseTool
  <2>2. RanAs(c, X(Candidate(c), "queued"))
    BY <1>2, <2>1 DEF RanAs
  <2> QED
    BY <2>1, <2>2, <1>0
<1>3. CASE ResolveQueued(c) /\ ~(queuedApproval.ok /\ CheckPermissionRules(Config, Candidate(c), "workdir") # "deny")
  BY <1>3 DEF ResolveQueued
<1>4. CASE RunApproved(c)
  <2>1. ran' = {X(c, "approved")} /\ RanAs(c, X(c, "approved"))
    BY <1>4 DEF RunApproved, Run, CanUseTool, RanAs
  <2> QED
    BY <2>1, <1>0
<1>5. CASE RunByRules(c)
  <2>1. ran' = {X(c, "rules")} /\ RanAs(c, X(c, "rules"))
    BY <1>5 DEF RunByRules, Run, CanUseTool, RanAs
  <2> QED
    BY <2>1, <1>0
<1> QED
  BY <1>1, <1>2, <1>3, <1>4, <1>5 DEF RunStep

\* What ran was admitted by the hooks as the agent gave it, and by the rules as it ran, a
\* reviewer's input (createCanUseToolCallback) included.
THEOREM RulesAlwaysHold == Spec => []RulesHold
<1>1. Init => RulesHold
  BY DEF Init, RulesHold
<1>2. ASSUME TypeOK, WebInv, RulesHold, [Next]_vars PROVE RulesHold'
  <2>1. settings' = settings /\ Config' = Config
    BY <1>2, OtherSteps DEF Config
  <2>2. CASE ran' = ran \/ ran' = {}
    BY <1>2, <2>1, <2>2 DEF RulesHold
  <2>3. ASSUME NEW c \in Calls, RunStep(c), ran' # ran PROVE RulesHold'
    <3>1. PICK x : /\ ran' = {x} /\ x.given = c /\ HooksAdmit(Config, c)
                   /\ \/ x.input = c
                      \/ x.input = Candidate(c) /\ CheckPermissionRules(Config, Candidate(c), "workdir") # "deny"
      BY <2>3, RunFacts DEF RanAs
    <3>2. EvaluatePermissionDecision(Config, x.input, "workdir") # "deny" /\ ~CheckContentFilter(x.input, Config.filter)
      BY <3>1, HooksFollowRules, RulesAdmit
    <3> QED
      BY <2>1, <3>1, <3>2 DEF RulesHold
  <2> QED
    BY <1>2, <2>2, <2>3, OtherSteps
<1>3. DecisionInv => TypeOK /\ WebInv
  BY DEF DecisionInv, RoundInv
<1> QED
  BY <1>1, <1>2, <1>3, DecisionsHold, PTL DEF Spec

-----------------------------------------------------------------------------
(***************************************************************************)
(* Approvals: what is approved, carried by a record, a request or a        *)
(* payload, or queued, goes back to a decision that was accepted.          *)
(***************************************************************************)
DecidedNow(r, d) == \E i \in DOMAIN accepts' : accepts'[i].r = r /\ accepts'[i].decision = d
Growth == /\ \A i \in DOMAIN accepts : i \in DOMAIN accepts' /\ accepts'[i] = accepts[i]
          /\ \A r \in Asked : r \in Asked' /\ asked'[r] = asked[r]

LEMMA GrowthStep ==
    ASSUME TypeOK, RoundInv, [Next]_vars
    PROVE  Growth
<1>p. ASSUME accepts' = accepts, asked' = asked PROVE Growth
  BY <1>p DEF Growth, Asked
<1>q. ASSUME NEW r \in Asked, NEW d \in Decision, Accept(r, d), asked' = asked PROVE Growth
  BY <1>q, AppendTyped DEF Growth, Asked
<1>1. CASE SetupFails \/ PassThrough \/ WaitExpires \/ Setup
  BY <1>1, <1>p DEF SetupFails, PassThrough, WaitExpires, Setup, agentVars, historyVars
<1>3. CASE QueryEnds \/ QueryAborts
  BY <1>3, <1>p DEF QueryEnds, QueryAborts, EndOfQuery
<1>4. CASE QueryStep
  BY <1>4, <1>p DEF QueryStep
<1>5. ASSUME NEW s \in Slots, NEW x, AskStep(s, x) PROVE Growth
  <2>1. x \in Interaction /\ asked' = Append(asked, x) /\ accepts' = accepts
    BY <1>5, AskFacts DEF AskStep
  <2> QED
    BY <2>1, AskedGrows DEF Growth
<1>6. ASSUME NEW s \in Slots, AddInteraction(s) \/ Preview(s) PROVE Growth
  BY <1>6, <1>p DEF AddInteraction, Preview, historyVars
<1>7. CASE WaitForPendingInteractions \/ SendDeferred
  BY <1>7, <1>p DEF WaitForPendingInteractions, SendDeferred, agentVars, historyVars
<1>9. ASSUME NEW w \in Handlers, NEW r \in sent, NEW d \in DecisionsOn(r), Post(w, r, d) PROVE Growth
  BY <1>9, <1>p DEF Post, agentVars, historyVars
<1>10. ASSUME NEW r \in sent, Visit(r) PROVE Growth
  BY <1>10, <1>p DEF Visit, agentVars, historyVars
<1>11. ASSUME NEW w \in Handlers, ConsumeRecord(w) \/ ConsumeUnrecorded(w) PROVE Growth
  <2>1. PICK accepted \in BOOLEAN : Settles(w, accepted)
    BY <1>11, ConsumeSteps DEF TakenByRecord, TakenByLedger
  <2>2. /\ web[w].r \in Asked /\ web[w].decision \in Decision /\ asked' = asked
        /\ accepts' = accepts \/ Accept(web[w].r, web[w].decision)
    BY <2>1, SettledFacts DEF RoundInv, Settles
  <2> QED
    BY <2>2, <1>p, <1>q
<1>12. ASSUME NEW w \in Handlers, Respond(w) \/ RespondFails(w) PROVE Growth
  BY <1>12, <1>p DEF Respond, RespondFails, agentVars, historyVars
<1>13. ASSUME NEW r \in pending, NEW d \in RepliesTo(r), LoopbackResume(r, d) \/ WhatsAppResume(r, d) PROVE Growth
  BY <1>13, <1>q, CompanionFacts DEF agentVars
<1>14. CASE Tick
  BY <1>14, <1>p DEF Tick, agentVars, historyVars
<1>15. CASE UNCHANGED vars
  BY <1>15, <1>p DEF vars, agentVars, historyVars
<1> QED
  BY <1>1, <1>3, <1>4, <1>5, <1>6, <1>7, <1>9, <1>10, <1>11, <1>12, <1>13, <1>14, <1>15,
     AskSteps, QuerySteps DEF Next, AgentStep, WebhookStep, CompanionStep

LEMMA ApprovalGrows ==
    ASSUME TypeOK, Growth
    PROVE  /\ \A fp : ApprovedFp(fp) => ApprovedFp(fp)'
           /\ \A r, d : DecidedWith(r, d) => DecidedNow(r, d)
<1>1. \A i \in DOMAIN accepts : accepts[i].r \in Asked
  BY AcceptsTyped
<1>2. ASSUME NEW fp, ApprovedFp(fp) PROVE ApprovedFp(fp)'
  BY <1>1, <1>2 DEF ApprovedFp, Growth, Approves
<1>3. ASSUME NEW r, NEW d, DecidedWith(r, d) PROVE DecidedNow(r, d)
  BY <1>3 DEF DecidedWith, DecidedNow, Growth
<1> QED
  BY <1>2, <1>3

LEMMA InitApprovals == Init => ApprovalInv
<1> SUFFICES ASSUME Init PROVE ApprovalInv
  OBVIOUS
<1>1. /\ approved = {} /\ store = [r \in Requests |-> NoRecord] /\ web = [w \in Handlers |-> Idle]
      /\ payload = NoPayload /\ queuedApproval = NoApproval /\ mode = "default" /\ ran = {}
  BY DEF Init
<1>2. /\ \A r \in Requests : store[r].fps = {}
      /\ \A w \in Handlers : web[w].fps = {} /\ web[w].pc = "idle"
      /\ payload.fps = {} /\ payload.decision.kind = "none" /\ ~queuedApproval.there
  BY <1>1 DEF NoRecord, Idle, NoPayload, NoDecision, NoApproval
<1>3. CarriedInv
  BY <1>1, <1>2 DEF CarriedInv
<1>4. ResponseInv /\ QueuedInv /\ ModeInv /\ ApprovedBeforeRun
  BY <1>1, <1>2 DEF ResponseInv, QueuedInv, ModeInv, ApprovedBeforeRun
<1> QED
  BY <1>3, <1>4 DEF ApprovalInv

LEMMA ApprovalStep == TypeOK /\ RoundInv /\ ApprovalInv /\ [Next]_vars => ApprovalInv'
<1> SUFFICES ASSUME TypeOK, RoundInv, ApprovalInv, [Next]_vars PROVE ApprovalInv'
  OBVIOUS
<1>i. CarriedInv /\ ResponseInv /\ QueuedInv /\ ModeInv /\ ApprovedBeforeRun
  BY DEF ApprovalInv
<1>t. /\ store \in [Requests -> Record] /\ web \in [Handlers -> WebState] /\ Asked \subseteq Requests
      /\ pending \subseteq Asked /\ WebInv /\ settings' = settings
  BY AskedTyped, OtherSteps DEF TypeOK, WebState, RoundInv
<1>g. /\ \A fp : ApprovedFp(fp) => ApprovedFp(fp)'
      /\ \A r, d : DecidedWith(r, d) => DecidedNow(r, d)
      /\ Growth
      /\ \A i \in DOMAIN accepts : accepts[i].r \in Asked
  BY GrowthStep, ApprovalGrows, AcceptsTyped
<1>z. Idle.fps = {} /\ Idle.pc = "idle" /\ NoPayload.fps = {} /\ NoPayload.decision.kind = "none"
      /\ ~NoApproval.there
  BY DEF Idle, NoPayload, NoDecision, NoApproval
<1>q. ASSUME queuedApproval' \in {queuedApproval, NoApproval} PROVE QueuedInv'
  BY <1>i, <1>g, <1>q, <1>z DEF QueuedInv, Growth, Approves
<1>m. ASSUME mode' \in {mode, "default"} PROVE ModeInv'
  BY <1>i, <1>g, <1>m, <1>t DEF ModeInv, Growth
<1>x. ASSUME ran' = ran \/ ran' = {} PROVE ApprovedBeforeRun'
  BY <1>i, <1>g, <1>x, <1>t DEF ApprovedBeforeRun, Growth
\* A step after which the stores, the requests and the payload hold what they held, or less.
<1>c. ASSUME approved' = approved,
             \A r \in Requests : store'[r].fps \subseteq store[r].fps \cup approved,
             \A w \in Handlers : web'[w].fps \subseteq web[w].fps \cup store[web[w].r].fps,
             \A w \in Handlers : web'[w].fps # {} => web'[w].fps = web[w].fps \/ web[w].r \in Requests,
             payload'.fps \subseteq payload.fps \cup approved
                \/ \E w \in Handlers : payload'.fps = web[w].fps
      PROVE  CarriedInv'
  <2>1. \A fp \in approved' : ApprovedFp(fp)'
    BY <1>i, <1>g, <1>c DEF CarriedInv
  <2>2. \A r \in Requests : \A fp \in store'[r].fps : ApprovedFp(fp)'
    BY <1>i, <1>g, <1>c DEF CarriedInv
  <2>3. \A w \in Handlers : \A fp \in web'[w].fps : ApprovedFp(fp)'
    BY <1>i, <1>g, <1>c DEF CarriedInv
  <2>4. \A fp \in payload'.fps : ApprovedFp(fp)'
    BY <1>i, <1>g, <1>c DEF CarriedInv
  <2> QED
    BY <2>1, <2>2, <2>3, <2>4 DEF CarriedInv
<1>r. ASSUME \A w \in Handlers : web'[w].pc = "respond" =>
                /\ web'[w].r = web[w].r /\ web'[w].decision = web[w].decision
                /\ web[w].pc = "respond" \/ DecidedNow(web[w].r, web[w].decision),
             payload' = payload \/ payload'.decision.kind # "approval"
      PROVE  ResponseInv'
  <2>1. \A w \in Handlers : web'[w].pc = "respond" => DecidedNow(web'[w].r, web'[w].decision)
    BY <1>i, <1>g, <1>r DEF ResponseInv
  <2>2. payload'.decision.kind = "approval" =>
          /\ payload'.r \in Asked' /\ DecidedNow(payload'.r, payload'.decision)
          /\ payload'.fp \in {NoFp, asked'[payload'.r].fp}
    BY <1>i, <1>g, <1>r DEF ResponseInv, Growth
  <2> QED
    BY <2>1, <2>2 DEF ResponseInv, DecidedWith, DecidedNow
\* A step that leaves all of this alone.
<1>p. ASSUME UNCHANGED <<approved, web, payload>>, queuedApproval' \in {queuedApproval, NoApproval},
             mode' \in {mode, "default"}, ran' = ran \/ ran' = {},
             \A r \in Requests : store'[r].fps \subseteq store[r].fps \cup approved
      PROVE  ApprovalInv'
  <2>1. CarriedInv' /\ ResponseInv'
    BY <1>p, <1>c, <1>r
  <2> QED
    BY <2>1, <1>p, <1>q, <1>m, <1>x DEF ApprovalInv
<1>d. \A r \in Requests : store'[r] = CleanupExpired(store, now)[r] => store'[r].fps \subseteq store[r].fps
  BY CleanedDrops
<1>1. CASE SetupFails \/ PassThrough \/ WaitExpires \/ SendDeferred
  BY <1>1, <1>p DEF SetupFails, PassThrough, WaitExpires, SendDeferred, agentVars, storeVars, historyVars
<1>2. CASE Setup
  <2>1. /\ UNCHANGED <<asked, store, web, accepts, ran>>
        /\ mode' = OverriddenMode(payload) /\ approved' = Restored(payload) /\ payload' = NoPayload
        /\ queuedApproval' = IF payload.decision.kind = "approval" THEN ApprovalOf(payload) ELSE NoApproval
    BY <1>2 DEF Setup, storeVars
  \* The decision that the payload brings.
  <2>2. ASSUME payload.decision.kind = "approval", payload.decision.ok
        PROVE  \E i \in DOMAIN accepts :
                  /\ Approves(i) /\ accepts[i].r = payload.r /\ accepts[i].decision = payload.decision
                  /\ payload.fp # NoFp => asked[accepts[i].r].fp = payload.fp
    BY <1>i, <2>2 DEF ResponseInv, DecidedWith, Approves
  <2>3. CarriedInv'
    <3>1. \A fp \in approved' : ApprovedFp(fp)
      BY <1>i, <2>1, <2>2 DEF CarriedInv, Restored, ApprovedFp
    <3>2. \A r \in Requests : \A fp \in store'[r].fps : ApprovedFp(fp)
      BY <1>i, <2>1 DEF CarriedInv
    <3>3. \A w \in Handlers : \A fp \in web'[w].fps : ApprovedFp(fp)
      BY <1>i, <2>1 DEF CarriedInv
    <3>4. \A fp \in payload'.fps : ApprovedFp(fp)
      BY <1>z, <2>1
    <3> QED
      BY <1>g, <3>1, <3>2, <3>3, <3>4 DEF CarriedInv
  <2>4. ResponseInv'
    BY <1>z, <2>1, <1>r
  <2>5. QueuedInv'
    <3>1. CASE payload.decision.kind = "approval"
      <4>1. /\ queuedApproval'.fp = payload.fp /\ queuedApproval'.ok = payload.decision.ok
            /\ queuedApproval'.input = payload.decision.input
        BY <2>1, <3>1 DEF ApprovalOf
      <4> QED
        BY <2>1, <2>2, <3>1, <4>1 DEF QueuedInv, Approves
    <3>2. CASE payload.decision.kind # "approval"
      BY <1>z, <2>1, <3>2 DEF QueuedInv
    <3> QED
      BY <3>1, <3>2
  <2>6. ModeInv'
    <3> SUFFICES ASSUME OverriddenMode(payload) # "default" PROVE ModeInv'
      BY <2>1 DEF ModeInv
    <3>1. /\ payload.decision.kind = "approval" /\ payload.decision.ok
          /\ payload.override \in settings.overrideModes
          /\ OverriddenMode(payload) = ClampPermissionMode(payload.override, settings.operatorModes)
      BY DEF OverriddenMode
    <3>2. /\ OverriddenMode(payload) = payload.override
          /\ settings.operatorModes # {} => payload.override \in settings.operatorModes
      BY <3>1 DEF ClampPermissionMode
    <3>3. \E i \in DOMAIN accepts : accepts[i].decision.ok
      BY <2>2, <3>1
    <3> QED
      BY <1>t, <2>1, <3>1, <3>2, <3>3 DEF ModeInv
  <2> QED
    BY <2>1, <2>3, <2>4, <2>5, <2>6, <1>x DEF ApprovalInv
<1>3. CASE QueryEnds \/ QueryAborts
  <2>1. EndOfQuery
    BY <1>3 DEF QueryEnds, QueryAborts
  <2> QED
    BY <2>1, <1>p DEF EndOfQuery, storeVars
<1>4. ASSUME QueryStep, ran' = ran \/ \E c \in Calls : RunStep(c)
      PROVE  ApprovalInv'
  <2>1. UNCHANGED <<asked, store, web, payload, mode, accepts>>
        /\ queuedApproval' \in {queuedApproval, NoApproval}
    BY <1>4 DEF QueryStep
  <2>2. CarriedInv'
    <3>1. \A fp \in approved' : ApprovedFp(fp)
      BY <1>i, <1>4 DEF CarriedInv, QueuedInv, ApprovedFp, QueryStep
    <3>2. \A fp \in approved' : ApprovedFp(fp)'
      BY <3>1, <1>g
    <3> QED
      BY <1>i, <1>g, <2>1, <3>2 DEF CarriedInv
  <2>3. ResponseInv' /\ QueuedInv' /\ ModeInv'
    BY <2>1, <1>r, <1>q, <1>m
  <2>4. ApprovedBeforeRun'
    <3>1. CASE ran' = ran
      BY <3>1, <1>x
    <3>2. ASSUME NEW c \in Calls, RunStep(c), ran' # ran PROVE ApprovedBeforeRun'
      <4>1. PICK x : ran' = {x} /\ RanAs(c, x)
        BY <3>2, RunFacts
      <4>2. x.given = c /\ x.mode = mode
        BY <4>1 DEF RanAs
      <4>3. x.how \in {"queued", "approved"} =>
              \E i \in DOMAIN accepts :
                 /\ accepts[i].decision.kind = "approval" /\ accepts[i].decision.ok
                 /\ asked[accepts[i].r].fp = Fingerprint(settings, c)
                 /\ x.input # c => accepts[i].decision.input = x.input
        <5>1. CASE x.how = "queued"
          <6>1. /\ x.input = Candidate(c) /\ queuedApproval.there /\ queuedApproval.ok
                /\ queuedApproval.fp # NoFp /\ queuedApproval.fp = Fingerprint(settings, c)
            BY <4>1, <5>1 DEF RanAs, IsQueued
          <6>2. x.input # c => x.input = queuedApproval.input
            BY <6>1 DEF Candidate
          <6> QED
            BY <1>i, <6>1, <6>2 DEF QueuedInv, Approves
        <5>2. CASE x.how = "approved"
          <6>1. x.input = c /\ Fingerprint(settings, c) \in approved
            BY <4>1, <5>2 DEF RanAs
          <6> QED
            BY <1>i, <6>1 DEF CarriedInv, ApprovedFp, Approves
        <5> QED
          BY <5>1, <5>2
      <4>4. x.how = "rules" => ~ToolRequiresApproval(settings, c)
        BY <4>1 DEF RanAs
      <4>5. x.how = "mode" => /\ \E i \in DOMAIN accepts : accepts[i].decision.ok
                              /\ mode \in settings.overrideModes
                              /\ (settings.operatorModes # {} => mode \in settings.operatorModes)
        <5>1. x.how = "mode" => mode # "default"
          BY <4>1 DEF RanAs, ModeLets
        <5> QED
          BY <1>i, <5>1 DEF ModeInv
      <4> QED
        BY <1>t, <2>1, <4>1, <4>2, <4>3, <4>4, <4>5 DEF ApprovedBeforeRun
    <3> QED
      BY <1>4, <3>1, <3>2
  <2> QED
    BY <2>2, <2>3, <2>4 DEF ApprovalInv
<1>5. ASSUME NEW s \in Slots, NEW x, AskStep(s, x) PROVE ApprovalInv'
  <2> DEFINE r == Len(asked) + 1
             rec == PendingRecord(x.kind, x.at)
  <2>1. UNCHANGED <<approved, queuedApproval, mode, web, payload, ran>>
    BY <1>5 DEF AskStep
  <2>2. r \in Requests /\ store' = SaveInteraction(store, now, r, rec) /\ rec \in Record /\ rec.fps = approved
    BY <1>5, AskFacts DEF PendingRecord, NoRecord
  <2>3. now \in Nat
    BY SettingsTyped
  <2> HIDE DEF r, rec
  <2>4. /\ \A q \in Requests \ {r} : store'[q] = CleanupExpired(store, now)[q]
        /\ store'[r] = rec \/ store'[r] = CleanupExpired(store, now)[r]
    BY <1>t, <2>2, <2>3, SaveFacts
  <2>5. \A q \in Requests : store'[q].fps \subseteq store[q].fps \cup approved
    BY <1>d, <2>2, <2>4
  <2> QED
    BY <2>1, <2>5, <1>p
<1>6. ASSUME NEW s \in Slots, AddInteraction(s) \/ Preview(s) PROVE ApprovalInv'
  BY <1>6, <1>p DEF AddInteraction, Preview, storeVars, historyVars
<1>7. CASE WaitForPendingInteractions
  <2>1. store' = Persisted /\ UNCHANGED <<approved, queuedApproval, mode, web, payload, ran>>
    BY <1>7 DEF WaitForPendingInteractions, agentVars, historyVars
  <2>2. /\ \A r \in Requests \ pending : store'[r] = CleanupExpired(store, now)[r]
        /\ \A r \in pending : store'[r] = CleanupExpired(store, now)[r] \/ store'[r].fps = approved
    <3>1. ASSUME NEW r \in pending
          PROVE  Persisted[r] = CleanupExpired(store, now)[r] \/ Persisted[r].fps = approved
      <4>1. PendingRecord(asked[r].kind, asked[r].at).fps = approved
        BY DEF PendingRecord, NoRecord
      <4> QED BY <4>1, PersistedFacts
    <3>2. \A r \in Requests \ pending : Persisted[r] = CleanupExpired(store, now)[r]
      BY PersistedFacts
    <3> QED BY <2>1, <3>1, <3>2
  <2>3. \A q \in Requests : store'[q].fps \subseteq store[q].fps \cup approved
    BY <1>d, <2>2
  <2> QED
    BY <2>1, <2>3, <1>p
<1>9. ASSUME NEW w \in Handlers, NEW r \in sent, NEW d \in DecisionsOn(r), Post(w, r, d) PROVE ApprovalInv'
  <2>1. /\ UNCHANGED <<approved, queuedApproval, mode, payload, ran>> /\ store' = CleanupExpired(store, now)
        /\ \A v \in Handlers \ {w} : web'[v] = web[v]
        /\ web'[w].pc = "found" /\ web'[w].fps = {}
    BY <1>9, PostFacts DEF agentVars, historyVars
  <2>2. CarriedInv'
    BY <1>d, <2>1, <1>c
  <2>3. ResponseInv'
    BY <2>1, <1>r
  <2> QED
    BY <2>1, <2>2, <2>3, <1>q, <1>m, <1>x DEF ApprovalInv
<1>10. ASSUME NEW r \in sent, Visit(r) PROVE ApprovalInv'
  BY <1>10, <1>d, <1>p DEF Visit, agentVars, historyVars
<1>11. ASSUME NEW w \in Handlers, ConsumeRecord(w) \/ ConsumeUnrecorded(w) PROVE ApprovalInv'
  <2>0. TakenByRecord(w) \/ TakenByLedger(w)
    BY <1>11, ConsumeSteps
  <2>1. PICK accepted \in BOOLEAN : Settles(w, accepted)
    BY <2>0 DEF TakenByRecord, TakenByLedger
  <2>2. /\ UNCHANGED <<approved, queuedApproval, mode, payload, ran>>
        /\ web[w].r \in Requests /\ web[w].r \in Asked /\ web[w].decision \in Decision
        /\ \A v \in Handlers \ {w} : web'[v] = web[v]
        /\ \/ web'[w] = Idle
           \/ /\ web'[w].r = web[w].r /\ web'[w].decision = web[w].decision
              /\ web'[w].fps \in {web[w].fps, store[web[w].r].fps} /\ Accept(web[w].r, web[w].decision)
    BY <1>t, <2>1, SettledFacts DEF Settles
  <2>3. \A q \in Requests : store'[q].fps \subseteq store[q].fps
    BY <2>0, <2>2, TakenStores DEF Dropped
  <2>4. CarriedInv'
    BY <1>z, <2>2, <2>3, <1>c
  <2>5. Accept(web[w].r, web[w].decision) => DecidedNow(web[w].r, web[w].decision)
    <3> SUFFICES ASSUME Accept(web[w].r, web[w].decision) PROVE DecidedNow(web[w].r, web[w].decision)
      OBVIOUS
    <3>1. Len(accepts) + 1 \in DOMAIN accepts' /\ Len(accepts) + 1 \notin DOMAIN accepts
      BY <2>2, AppendTyped
    <3>2. accepts'[Len(accepts) + 1].r = web[w].r /\ accepts'[Len(accepts) + 1].decision = web[w].decision
      BY <2>2, <3>1, AcceptedLast
    <3> QED
      BY <3>1, <3>2 DEF DecidedNow, Settles
  <2>6. ResponseInv'
    BY <1>z, <2>2, <2>5, <1>r
  <2> QED
    BY <2>2, <2>4, <2>6, <1>q, <1>m, <1>x DEF ApprovalInv
<1>12. ASSUME NEW w \in Handlers, Respond(w) \/ RespondFails(w) PROVE ApprovalInv'
  <2>1. /\ UNCHANGED <<approved, queuedApproval, mode, ran, store, asked, accepts>>
        /\ web[w].pc = "respond" /\ web[w].r \in Asked
        /\ web' = [web EXCEPT ![w] = Idle]
        /\ payload' = WebhookPayload(web[w]) \/ payload' = payload
    BY <1>12, <1>t, RespondFacts DEF agentVars, storeVars, historyVars
  <2>2. \A v \in Handlers : web'[v] = web[v] \/ web'[v] = Idle
    BY <1>t, <2>1
  <2>3. /\ WebhookPayload(web[w]).fps = web[w].fps /\ WebhookPayload(web[w]).r = web[w].r
        /\ WebhookPayload(web[w]).decision = web[w].decision
        /\ WebhookPayload(web[w]).fp \in {NoFp, asked[web[w].r].fp}
    BY DEF WebhookPayload
  <2>4. CarriedInv'
    BY <1>z, <2>1, <2>2, <2>3, <1>c
  <2>5. ResponseInv'
    <3>1. DecidedWith(web[w].r, web[w].decision)
      BY <1>i, <2>1 DEF ResponseInv
    <3>2. CASE payload' = payload
      BY <1>z, <2>2, <3>2, <1>r
    <3>3. CASE payload' = WebhookPayload(web[w])
      <4>1. /\ payload'.r \in Asked' /\ DecidedNow(payload'.r, payload'.decision)
            /\ payload'.fp \in {NoFp, asked'[payload'.r].fp}
        BY <1>g, <2>1, <2>3, <3>1, <3>3 DEF Asked
      <4>2. \A v \in Handlers : web'[v].pc = "respond" => DecidedNow(web'[v].r, web'[v].decision)
        BY <1>i, <1>g, <1>z, <2>2 DEF ResponseInv
      <4> QED
        BY <4>1, <4>2 DEF ResponseInv, DecidedWith, DecidedNow
    <3> QED
      BY <2>1, <3>2, <3>3
  <2> QED
    BY <2>1, <2>4, <2>5, <1>q, <1>m, <1>x DEF ApprovalInv
<1>13. ASSUME NEW r \in pending, NEW d \in RepliesTo(r), LoopbackResume(r, d) \/ WhatsAppResume(r, d) PROVE ApprovalInv'
  <2>1. /\ UNCHANGED <<approved, queuedApproval, mode, ran, store, asked, web>>
        /\ r \in Asked /\ d \in Decision /\ Accept(r, d)
        /\ payload'.r = r /\ payload'.decision.kind = d.kind
        /\ d.kind = "approval" => payload'.decision = d
        /\ payload'.fp \in {NoFp, asked[r].fp} /\ payload'.fps \subseteq approved
    BY <1>13, CompanionFacts DEF agentVars, storeVars
  <2>2. CarriedInv'
    BY <2>1, <1>c
  <2>3. DecidedNow(r, d)
    <3>1. Len(accepts) + 1 \in DOMAIN accepts' /\ Len(accepts) + 1 \notin DOMAIN accepts
      BY <2>1, AppendTyped
    <3>2. accepts'[Len(accepts) + 1].r = r /\ accepts'[Len(accepts) + 1].decision = d
      BY <2>1, <3>1, AcceptedLast
    <3> QED
      BY <3>1, <3>2 DEF DecidedNow
  <2>4. ResponseInv'
    <3>1. payload'.decision.kind = "approval" =>
            /\ payload'.r \in Asked' /\ DecidedNow(payload'.r, payload'.decision)
            /\ payload'.fp \in {NoFp, asked'[payload'.r].fp}
      BY <2>1, <2>3 DEF Asked
    <3>2. \A v \in Handlers : web'[v].pc = "respond" => DecidedNow(web'[v].r, web'[v].decision)
      BY <1>i, <1>g, <2>1 DEF ResponseInv
    <3> QED
      BY <3>1, <3>2 DEF ResponseInv, DecidedWith, DecidedNow
  <2> QED
    BY <2>1, <2>2, <2>4, <1>q, <1>m, <1>x DEF ApprovalInv
<1>14. CASE Tick
  BY <1>14, <1>p DEF Tick, agentVars, storeVars, historyVars
<1>15. CASE UNCHANGED vars
  BY <1>15, <1>p DEF vars, agentVars, storeVars, historyVars
<1>16. ASSUME NEW c \in Calls, RunStep(c) PROVE ApprovalInv'
  BY <1>16, <1>4, QuerySteps DEF RunStep
<1>17. ASSUME NEW f \in Forms, AnswerQuestion(f) PROVE ApprovalInv'
  <2>1. ran' = ran
    BY <1>17 DEF AnswerQuestion, historyVars
  <2> QED
    BY <1>17, <2>1, <1>4, QuerySteps
<1> QED
  BY <1>1, <1>2, <1>3, <1>5, <1>6, <1>7, <1>9, <1>10, <1>11, <1>12, <1>13, <1>14, <1>15, <1>16, <1>17,
     AskSteps DEF Next, AgentStep, WebhookStep, CompanionStep, RunStep

(***************************************************************************)
(* ApprovedBeforeRun: what ran with an approval, or in a mode that let it, *)
(* had one.                                                                *)
(***************************************************************************)
RunInv == DecisionInv /\ ApprovalInv

LEMMA RunsHold == Spec => []RunInv
<1>1. Init => ApprovalInv
  BY InitApprovals
<1>2. DecisionInv /\ ApprovalInv /\ [Next]_vars => ApprovalInv'
  BY ApprovalStep DEF DecisionInv
<1> QED
  BY <1>1, <1>2, DecisionsHold, PTL DEF Spec, RunInv

\* A call that the callback let run because it was approved was approved by an accepted
\* decision on its fingerprint, and one that a permission mode let run ran in a mode that
\* an approval brought and the operator allows (resolveQueuedApproval, applyHitlResponse).
THEOREM ApprovedRuns == Spec => []ApprovedBeforeRun
<1>1. RunInv => ApprovedBeforeRun
  BY DEF RunInv, ApprovalInv
<1> QED
  BY <1>1, RunsHold, PTL

-----------------------------------------------------------------------------
(***************************************************************************)
(* ApprovalsAreKept: what was granted stays in the handler's fingerprints, *)
(* and a wait gives back what it was given.                                *)
(***************************************************************************)
LEMMA InitKept == Init => KeptInv
<1> SUFFICES ASSUME Init PROVE KeptInv
  OBVIOUS
<1>1. /\ phase = "start" /\ granted = {} /\ pending = {} /\ payload = NoPayload
      /\ calls = [s \in Slots |-> Free]
  BY DEF Init
<1>2. (\A s \in Slots : calls[s].pc = "free") /\ ~payload.there
  BY <1>1, ConstantsTyped
<1> QED
  BY <1>1, <1>2 DEF KeptInv, HandlerKeeps, AsksAnew, RecordKeeps, RequestKeeps, PayloadKeeps, AskedAnew

LEMMA KeptStep == TypeOK /\ RoundInv /\ KeptInv /\ [Next]_vars => KeptInv'
<1> SUFFICES ASSUME TypeOK, RoundInv, KeptInv, [Next]_vars PROVE KeptInv'
  OBVIOUS
<1>i. /\ HandlerKeeps /\ AsksAnew /\ RecordKeeps /\ RequestKeeps /\ PayloadKeeps
      /\ CallsInv /\ PendingInv /\ WebInv
  BY DEF KeptInv, RoundInv
<1>t. /\ store \in [Requests -> Record] /\ web \in [Handlers -> WebState] /\ Asked \subseteq Requests
      /\ pending \subseteq Asked /\ calls \in [Slots -> CallState]
  BY AskedTyped DEF TypeOK, WebState, CallState
<1>z. Free.pc = "free" /\ Idle.pc = "idle" /\ ~NoPayload.there
  BY ConstantsTyped
<1>g. \A r \in Asked : asked'[r] = asked[r]
  BY GrowthStep DEF Growth
<1>a. ASSUME granted' = granted,
             \A s \in Slots : calls'[s].pc # "free" =>
                calls'[s].r \in Asked /\ (calls[s].pc # "free" /\ calls'[s].r = calls[s].r),
             \A r \in pending' : r \in pending \/ \E s \in Slots : calls[s].pc # "free" /\ calls[s].r = r
      PROVE  AsksAnew'
  BY <1>i, <1>g, <1>t, <1>a DEF AsksAnew, AskedAnew, CallsInv
<1>s. ASSUME UNCHANGED <<granted, pending>>, phase' \in {"deferred", "waiting"} => phase \in {"deferred", "waiting"},
             \A r \in Requests : store'[r] = store[r] \/ store'[r].status # "pending"
      PROVE  RecordKeeps'
  BY <1>i, <1>t, <1>s DEF RecordKeeps, HasGranted
\* A step of the wait that changes no payload.
<1>w. ASSUME UNCHANGED <<granted, pending, calls>>, phase = "waiting" \/ UNCHANGED approved,
             phase' = phase \/ phase' \in {"expired", "failed", "done"}, phase' # "start" \/ UNCHANGED payload,
             \A r \in Requests : store'[r] = store[r] \/ store'[r].status # "pending",
             RequestKeeps'
      PROVE  KeptInv'
  <2>1. HandlerKeeps'
    BY <1>i, <1>w DEF HandlerKeeps, HasGranted
  <2>2. AsksAnew'
    BY <1>i, <1>a, <1>w DEF CallsInv
  <2>3. RecordKeeps'
    BY <1>s, <1>w
  <2>4. PayloadKeeps'
    BY <1>i, <1>w DEF PayloadKeeps, HasGranted
  <2> QED
    BY <1>w, <2>1, <2>2, <2>3, <2>4 DEF KeptInv
\* A step of the query.
<1>q. ASSUME phase = "query", phase' \in {"query", "done", "failed", "persist"}, granted' = granted,
             approved \subseteq approved', AsksAnew'
      PROVE  KeptInv'
  BY <1>i, <1>q DEF KeptInv, HandlerKeeps, RecordKeeps, RequestKeeps, PayloadKeeps, HasGranted
<1>1. CASE SetupFails \/ PassThrough \/ WaitExpires
  <2>1. /\ UNCHANGED <<granted, pending, calls, approved, store, web, payload>>
        /\ phase' \in {"expired", "failed", "done"}
    BY <1>1 DEF SetupFails, PassThrough, WaitExpires, agentVars, storeVars, historyVars
  <2>2. RequestKeeps'
    BY <2>1 DEF RequestKeeps
  <2> QED
    BY <2>1, <2>2, <1>w
<1>2. CASE Setup
  <2>1. /\ phase = "start" /\ phase' = "query" /\ granted' = Granted(payload) /\ approved' = Restored(payload)
        /\ pending' = {} /\ calls' = [s \in Slots |-> Free]
    BY <1>2 DEF Setup, CanSetUp
  <2>2. HasGranted(approved)'
    <3>1. CASE payload.there /\ ~(payload.record /\ payload.r \in pending)
      BY <2>1, <3>1 DEF HasGranted, Granted
    <3>2. CASE payload.there /\ payload.record /\ payload.r \in pending
      <4>1. granted \subseteq payload.fps \cup {NoFp}
        BY <1>i, <2>1, <3>2 DEF PayloadKeeps, HasGranted
      <4> QED
        BY <2>1, <3>2, <4>1 DEF HasGranted, Granted, Restored
    <3>3. CASE ~payload.there
      <4>1. granted = {}
        BY <1>i, <2>1, <3>3 DEF PayloadKeeps
      <4> QED
        BY <2>1, <3>3, <4>1 DEF HasGranted, Granted, Restored
    <3> QED
      BY <3>1, <3>2, <3>3
  <2>3. AsksAnew'
    BY <1>z, <2>1 DEF AsksAnew
  <2> QED
    BY <2>1, <2>2, <2>3 DEF KeptInv, HandlerKeeps, RecordKeeps, RequestKeeps, PayloadKeeps
<1>3. CASE QueryEnds \/ QueryAborts
  <2>1. /\ EndOfQuery /\ phase' \in {"done", "failed", "persist"}
    BY <1>3 DEF QueryEnds, QueryAborts
  <2>2. /\ phase = "query" /\ UNCHANGED <<granted, approved, pending, asked>>
        /\ calls' = [s \in Slots |-> Free]
    BY <2>1 DEF EndOfQuery
  <2>3. AsksAnew'
    BY <1>z, <1>a, <2>2
  <2> QED
    BY <2>1, <2>2, <2>3, <1>q
<1>4. ASSUME QueryStep, approved \subseteq approved' PROVE KeptInv'
  <2>1. phase = "query" /\ phase' = phase /\ UNCHANGED <<granted, pending, calls>>
    BY <1>4 DEF QueryStep
  <2>2. AsksAnew'
    BY <1>i, <1>a, <2>1 DEF CallsInv
  <2> QED
    BY <1>4, <2>1, <2>2, <1>q
<1>5. ASSUME NEW s \in Slots, NEW x, AskStep(s, x) PROVE KeptInv'
  <2> DEFINE r == Len(asked) + 1
  <2>1. /\ phase = "query" /\ phase' = phase /\ UNCHANGED <<granted, approved, pending>> /\ pending = {}
        /\ x \in Interaction
        /\ x.kind = "approval" => x.fp \notin approved
    BY <1>5 DEF AskStep
  <2>2. asked' = Append(asked, x) /\ calls' = [calls EXCEPT ![s] = [pc |-> "saved", r |-> r]]
    BY <1>5, AskFacts
  <2>3. asked'[r] = x
    BY <2>1, <2>2, AskedGrows
  <2>4. x.kind = "approval" => x.fp # NoFp
    BY <2>1, FingerprintsNamed DEF Interaction
  <2>5. x.kind = "approval" => x.fp \notin granted
    BY <1>i, <1>5, <2>1, <2>4 DEF HandlerKeeps, HasGranted, AskStep
  <2> HIDE DEF r
  <2>6. \A v \in Slots : calls'[v] = calls[v] \/ calls'[v].r = r
    BY <1>t, <2>2
  <2>7. \A v \in Slots : calls'[v].pc # "free" =>
          (asked'[calls'[v].r].kind = "approval" => asked'[calls'[v].r].fp \notin granted')
    BY <1>i, <1>g, <2>1, <2>3, <2>5, <2>6 DEF AsksAnew, AskedAnew, CallsInv
  <2>8. AsksAnew'
    <3>1. pending' = {}
      BY <2>1
    <3> QED
      BY <2>7, <3>1 DEF AsksAnew, AskedAnew
  <2> QED
    BY <2>1, <2>8, <1>q
<1>6. ASSUME NEW s \in Slots, AddInteraction(s) \/ Preview(s) PROVE KeptInv'
  <2>1. /\ phase = "query" /\ phase' = phase /\ UNCHANGED <<granted, approved, asked>> /\ calls[s].pc # "free"
        /\ pending' \in {pending, pending \cup {calls[s].r}}
        /\ \/ calls' = [calls EXCEPT ![s] = [calls[s] EXCEPT !.pc = "added"]]
           \/ calls' = [calls EXCEPT ![s] = Free]
    BY <1>6, <1>t DEF AddInteraction, Preview, historyVars
  <2>2. \A v \in Slots : calls'[v].pc # "free" => calls[v].pc # "free" /\ calls'[v].r = calls[v].r
    <3>1. [calls[s] EXCEPT !.pc = "added"].r = calls[s].r
      BY <1>t DEF CallState
    <3> QED
      BY <1>t, <1>z, <2>1, <3>1
  <2>3. AsksAnew'
    BY <1>i, <1>a, <2>1, <2>2 DEF CallsInv
  <2> QED
    BY <2>1, <2>3, <1>q
<1>7. CASE WaitForPendingInteractions
  <2>1. /\ phase = "persist" /\ phase' \in {"failed", "deferred", "handed"} /\ store' = Persisted
        /\ UNCHANGED <<granted, approved, pending, calls, asked>>
    BY <1>7 DEF WaitForPendingInteractions, agentVars, historyVars
  <2>2. HasGranted(approved)
    BY <1>i, <2>1 DEF HandlerKeeps
  <2>3. AsksAnew'
    BY <1>i, <1>a, <2>1 DEF CallsInv
  <2>4. \A r \in pending : store'[r].status = "pending" => store'[r].fps = approved
    <3> SUFFICES ASSUME NEW r \in pending, store'[r].status = "pending" PROVE store'[r].fps = approved
      OBVIOUS
    <3>1. store'[r].status # "answered"
      BY Zenon
    <3>2. store'[r] = PendingRecord(asked[r].kind, asked[r].at)
      BY <2>1, <3>1, PersistedFacts
    <3> QED
      BY <3>2 DEF PendingRecord, NoRecord
  <2>5. RecordKeeps'
    BY <2>1, <2>2, <2>4 DEF RecordKeeps, HasGranted
  <2> QED
    BY <2>1, <2>2, <2>3, <2>5 DEF KeptInv, HandlerKeeps, RequestKeeps, PayloadKeeps, HasGranted
<1>8. CASE SendDeferred
  <2>1. /\ phase = "deferred" /\ phase' = "waiting" /\ UNCHANGED <<granted, pending, calls, store, web>>
    BY <1>8 DEF SendDeferred, agentVars, storeVars, historyVars
  <2>2. AsksAnew'
    BY <1>i, <1>a, <2>1 DEF CallsInv
  <2>3. RecordKeeps'
    BY <1>s, <2>1
  <2>4. \A w \in Handlers : web[w].pc = "respond" => web[w].r \notin pending
    <3> SUFFICES ASSUME NEW w \in Handlers, web[w].pc = "respond", web[w].r \in pending PROVE FALSE
      OBVIOUS
    <3>1. asked[web[w].r].round < round /\ asked[web[w].r].round = round
      BY <1>i, <2>1 DEF WebInv, PendingInv, Active
    <3>2. round \in Nat
      BY DEF TypeOK
    <3> QED
      BY <3>1, <3>2
  <2> QED
    BY <2>1, <2>2, <2>3, <2>4 DEF KeptInv, HandlerKeeps, RequestKeeps, PayloadKeeps
<1>c. \A r \in Requests : CleanupExpired(store, now)[r] = store[r]
                          \/ CleanupExpired(store, now)[r].status # "pending"
  BY CleanedDrops
<1>9. ASSUME NEW w \in Handlers, NEW r \in sent, NEW d \in DecisionsOn(r), Post(w, r, d) PROVE KeptInv'
  <2>1. /\ UNCHANGED <<granted, pending, calls, phase, approved, payload>> /\ store' = CleanupExpired(store, now)
        /\ \A v \in Handlers \ {w} : web'[v] = web[v]
        /\ web'[w].pc = "found"
    BY <1>9, PostFacts DEF agentVars, historyVars
  <2>2. RequestKeeps'
    BY <1>i, <2>1 DEF RequestKeeps, HasGranted
  <2> QED
    BY <1>c, <2>1, <2>2, <1>w
<1>10. ASSUME NEW r \in sent, Visit(r) PROVE KeptInv'
  <2>1. /\ UNCHANGED <<granted, pending, calls, phase, approved, payload, web>>
        /\ store' = CleanupExpired(store, now)
    BY <1>10 DEF Visit, agentVars, historyVars
  <2>2. RequestKeeps'
    BY <1>i, <2>1 DEF RequestKeeps, HasGranted
  <2> QED
    BY <1>c, <2>1, <2>2, <1>w
<1>11. ASSUME NEW w \in Handlers, ConsumeRecord(w) \/ ConsumeUnrecorded(w) PROVE KeptInv'
  <2>0. TakenByRecord(w) \/ TakenByLedger(w)
    BY <1>11, ConsumeSteps
  <2>1. PICK accepted \in BOOLEAN : Settles(w, accepted)
    BY <2>0 DEF TakenByRecord, TakenByLedger
  <2>2. /\ UNCHANGED <<granted, pending, calls, phase, approved, payload>>
        /\ \A v \in Handlers \ {w} : web'[v] = web[v]
        /\ \/ web'[w] = Idle
           \/ web'[w].r = web[w].r /\ web'[w].record = web[w].record /\ Accept(web[w].r, web[w].decision)
        /\ web[w].r \in Asked /\ web[w].decision \in Decision
    BY <1>i, <2>1, SettledFacts DEF Settles
  <2>3. /\ \A r \in Requests : store'[r] = store[r] \/ store'[r].status # "pending"
        /\ \/ web'[w] = Idle \/ ~web[w].record
           \/ store[web[w].r].status = "pending" /\ web'[w].fps = store[web[w].r].fps
    <3>1. web[w].r \in Requests
      BY <1>t, <2>2
    <3> QED
      BY <2>0, <3>1, TakenStores DEF Dropped
  <2>4. RequestKeeps'
    <3> SUFFICES ASSUME phase = "waiting", NEW v \in Handlers,
                        web'[v].pc = "respond", web'[v].record, web'[v].r \in pending
                 PROVE  granted \subseteq web'[v].fps \cup {NoFp}
      BY <2>2 DEF RequestKeeps, HasGranted
    <3>1. CASE v # w
      BY <1>i, <2>2, <3>1 DEF RequestKeeps, HasGranted
    <3>2. CASE v = w
      BY <1>i, <1>z, <2>2, <2>3, <3>2 DEF RecordKeeps, HasGranted
    <3> QED
      BY <3>1, <3>2
  <2> QED
    BY <2>2, <2>3, <2>4, <1>w
<1>12. ASSUME NEW w \in Handlers, Respond(w) \/ RespondFails(w) PROVE KeptInv'
  <2>1. /\ UNCHANGED <<granted, pending, calls, approved, store>> /\ web' = [web EXCEPT ![w] = Idle]
        /\ web[w].pc = "respond"
        /\ \/ phase = "waiting" /\ phase' = "start" /\ payload' = WebhookPayload(web[w])
           \/ phase' = phase /\ payload' = payload
    BY <1>12, <1>i, RespondFacts DEF agentVars, storeVars, historyVars
  <2>2. \A v \in Handlers : web'[v] = web[v] \/ web'[v] = Idle
    BY <1>t, <2>1
  <2>3. CASE phase' = phase /\ payload' = payload
    <3>1. RequestKeeps'
      BY <1>i, <1>z, <2>1, <2>2, <2>3 DEF RequestKeeps, HasGranted
    <3> QED
      BY <2>1, <2>3, <3>1, <1>w
  <2>4. CASE phase = "waiting" /\ phase' = "start" /\ payload' = WebhookPayload(web[w])
    <3>1. /\ payload'.there /\ payload'.r = web[w].r /\ payload'.record = web[w].record
          /\ payload'.fps = web[w].fps
      BY <2>4 DEF WebhookPayload
    <3>2. PayloadKeeps'
      BY <1>i, <2>1, <2>4, <3>1 DEF PayloadKeeps, RequestKeeps, HasGranted
    <3>3. AsksAnew'
      BY <1>i, <1>a, <2>1 DEF CallsInv
    <3> QED
      BY <2>4, <3>2, <3>3 DEF KeptInv, HandlerKeeps, RecordKeeps, RequestKeeps
  <2> QED
    BY <2>1, <2>3, <2>4
<1>13. ASSUME NEW r \in pending, NEW d \in RepliesTo(r), LoopbackResume(r, d) \/ WhatsAppResume(r, d) PROVE KeptInv'
  <2>1. /\ UNCHANGED <<granted, pending, calls, approved, asked>> /\ phase = "handed" /\ phase' = "start"
        /\ payload'.record => payload'.fps = approved
        /\ payload'.there
    BY <1>13, CompanionFacts DEF agentVars
  <2>2. PayloadKeeps'
    BY <1>i, <2>1 DEF PayloadKeeps, HandlerKeeps, HasGranted
  <2>3. AsksAnew'
    BY <1>i, <1>a, <2>1 DEF CallsInv
  <2> QED
    BY <2>1, <2>2, <2>3 DEF KeptInv, HandlerKeeps, RecordKeeps, RequestKeeps
<1>14. CASE Tick \/ UNCHANGED vars
  <2>1. UNCHANGED <<granted, pending, calls, approved, store, web, payload, phase>>
    BY <1>14 DEF Tick, vars, agentVars, storeVars, historyVars
  <2>2. RequestKeeps'
    BY <1>i, <2>1 DEF RequestKeeps, HasGranted
  <2> QED
    BY <2>1, <2>2, <1>w
<1>16. ASSUME NEW c \in Calls, RunStep(c) PROVE KeptInv'
  <2>1. approved \subseteq approved'
    BY <1>16 DEF RunStep, RunUnasked, ResolveQueued, RunApproved, RunByRules, agentVars
  <2> QED
    BY <1>16, <2>1, <1>4, QuerySteps DEF RunStep
<1>17. ASSUME NEW f \in Forms, AnswerQuestion(f) PROVE KeptInv'
  <2>1. approved' = approved
    BY <1>17 DEF AnswerQuestion
  <2> QED
    BY <1>17, <2>1, <1>4, QuerySteps
<1> QED
  BY <1>1, <1>2, <1>3, <1>5, <1>6, <1>7, <1>8, <1>9, <1>10, <1>11, <1>12, <1>13, <1>14, <1>16, <1>17,
     AskSteps DEF Next, AgentStep, WebhookStep, CompanionStep, RunStep

\* What was approved in an earlier round is not asked again, as long as every decision since
\* was on the request waited for and found its record (restoreApprovedFingerprints, the
\* approvedFingerprints of a saved interaction).
THEOREM KeptApprovals == Spec => []ApprovalsAreKept
<1>1. DecisionInv /\ KeptInv /\ [Next]_vars => KeptInv'
  BY KeptStep DEF DecisionInv
<1>2. KeptInv => ApprovalsAreKept
  BY DEF KeptInv, AsksAnew, AskedAnew, ApprovalsAreKept
<1> QED
  BY <1>1, <1>2, InitKept, DecisionsHold, PTL DEF Spec

-----------------------------------------------------------------------------
(***************************************************************************)
(* EndsOwnWait: while every decision is remembered, a link of an earlier   *)
(* round is spent, and the request waited for is answered once.            *)
(***************************************************************************)
LEMMA FreshBefore ==
    ASSUME TypeOK, Growth, now' \in {now, now + 1}, Fresh'
    PROVE  /\ Fresh
           /\ \A i \in DOMAIN accepts : now <= accepts[i].at + AnsweredMaxAge
<1> SUFFICES ASSUME NEW i \in DOMAIN accepts PROVE now <= accepts[i].at + AnsweredMaxAge
  BY DEF Fresh
<1>1. accepts[i].at \in Nat /\ now \in Nat /\ AnsweredMaxAge \in Nat
  BY AcceptsTyped, SettingsTyped
<1>2. now' <= accepts[i].at + AnsweredMaxAge
  BY DEF Fresh, Growth
<1> QED
  BY <1>1, <1>2

\* A decision that is remembered is not accepted again.
LEMMA AcceptedFirst ==
    ASSUME TypeOK, RoundInv, MemoryInv, Fresh, NEW w \in Handlers, TakenByRecord(w) \/ TakenByLedger(w),
           Accept(web[w].r, web[w].decision)
    PROVE  ~AcceptedOn(web[w].r)
<1> SUFFICES ASSUME NEW i \in DOMAIN accepts, accepts[i].r = web[w].r PROVE FALSE
  BY DEF AcceptedOn
<1>1. accepts[i].at \in Nat /\ now \in Nat /\ AnsweredMaxAge \in Nat
  BY AcceptsTyped, SettingsTyped
<1>2. now > accepts[i].at + AnsweredMaxAge
  BY TakenMemory
<1>3. now <= accepts[i].at + AnsweredMaxAge
  BY DEF Fresh
<1> QED
  BY <1>1, <1>2, <1>3

LEMMA ClockSteps ==
    ASSUME TypeOK, RoundInv, [Next]_vars
    PROVE  now' \in {now, now + 1}
<1>1. CASE SetupFails \/ PassThrough \/ WaitExpires \/ Setup
  BY <1>1 DEF SetupFails, PassThrough, WaitExpires, Setup
<1>3. CASE QueryEnds \/ QueryAborts
  BY <1>3 DEF QueryEnds, QueryAborts, EndOfQuery
<1>4. CASE QueryStep
  BY <1>4 DEF QueryStep
<1>5. ASSUME NEW s \in Slots, NEW x, AskStep(s, x) PROVE now' = now
  BY <1>5 DEF AskStep
<1>6. ASSUME NEW s \in Slots, AddInteraction(s) \/ Preview(s) PROVE now' = now
  BY <1>6 DEF AddInteraction, Preview
<1>7. CASE WaitForPendingInteractions \/ SendDeferred
  BY <1>7 DEF WaitForPendingInteractions, SendDeferred
<1>9. ASSUME NEW w \in Handlers, NEW r \in sent, NEW d \in DecisionsOn(r), Post(w, r, d) PROVE now' = now
  BY <1>9 DEF Post
<1>10. ASSUME NEW r \in sent, Visit(r) PROVE now' = now
  BY <1>10 DEF Visit
<1>11. ASSUME NEW w \in Handlers, ConsumeRecord(w) \/ ConsumeUnrecorded(w) PROVE now' = now
  BY <1>11 DEF ConsumeRecord, ConsumeUnrecorded
<1>12. ASSUME NEW w \in Handlers, Respond(w) \/ RespondFails(w) PROVE now' = now
  BY <1>12 DEF Respond, RespondFails
<1>13. ASSUME NEW r \in pending, NEW d \in RepliesTo(r), LoopbackResume(r, d) \/ WhatsAppResume(r, d) PROVE now' = now
  BY <1>13, CompanionFacts
<1>14. CASE Tick
  BY <1>14 DEF Tick
<1>15. CASE UNCHANGED vars
  BY <1>15 DEF vars
<1> QED
  BY <1>1, <1>3, <1>4, <1>5, <1>6, <1>7, <1>9, <1>10, <1>11, <1>12, <1>13, <1>14, <1>15,
     AskSteps, QuerySteps DEF Next, AgentStep, WebhookStep, CompanionStep

LEMMA InitFresh == Init => FreshInv
<1> SUFFICES ASSUME Init PROVE FreshInv
  OBVIOUS
<1>1. phase = "start" /\ sent = {} /\ web = [w \in Handlers |-> Idle]
  BY DEF Init
<1>2. \A w \in Handlers : web[w].pc = "idle"
  BY <1>1, ConstantsTyped
<1> QED
  BY <1>1, <1>2 DEF FreshInv, SentInv, AnswerInv

LEMMA FreshStep == RunInv /\ FreshInv /\ [Next]_vars => FreshInv'
<1> SUFFICES ASSUME RunInv, FreshInv, [Next]_vars, Fresh', settings'.ownsWait PROVE SentInv' /\ AnswerInv'
  BY DEF FreshInv
<1>b. /\ TypeOK /\ RoundInv /\ MemoryInv /\ WaitInv /\ ApprovalInv
      /\ OwnerInv /\ CallsInv /\ PendingInv /\ WebInv /\ ResponseInv
  BY DEF RunInv, DecisionInv, RoundInv, ApprovalInv
<1>t. /\ web \in [Handlers -> WebState] /\ Asked \subseteq Requests /\ pending \subseteq Asked
      /\ settings' = settings /\ settings.ownsWait /\ round \in Nat
  BY <1>b, AskedTyped, OtherSteps DEF TypeOK, WebState
<1>f. Growth /\ Fresh
  BY <1>b, GrowthStep, ClockSteps, FreshBefore
<1>i. SentInv /\ AnswerInv
  BY <1>t, <1>f DEF FreshInv
<1>g. \A r : AcceptedOn(r) => AcceptedOn(r)'
  BY <1>f DEF AcceptedOn, Growth
<1>z. Idle.pc = "idle"
  BY ConstantsTyped
\* What has not been sent for this wait is decided.
<1>o. \A r \in sent : phase \in Busy /\ (phase = "start" \/ asked[r].round < round) => AcceptedOn(r)
  <2> SUFFICES ASSUME NEW r \in sent, phase \in Busy, phase = "start" \/ asked[r].round < round
               PROVE  AcceptedOn(r)
    OBVIOUS
  <2>1. AcceptedOn(r) \/ (r \in pending /\ phase # "start")
    BY <1>i DEF SentInv
  <2>2. r \in pending => asked[r].round = round
    BY <1>b DEF PendingInv
  <2> QED
    BY <1>t, <2>1, <2>2
\* The execution is over, or about to be.
<1>e. ASSUME phase' \notin Busy \cup {"waiting"} PROVE SentInv' /\ AnswerInv'
  BY <1>e DEF SentInv, AnswerInv
\* A step that sends nothing new.
<1>s. ASSUME phase \in Busy \cup {"waiting"}, phase' \in Busy \cup {"waiting"},
             phase' = "start" => phase = "start" /\ sent' = sent,
             sent' \subseteq sent \cup pending', phase = "start" \/ pending \subseteq pending'
      PROVE  SentInv'
  BY <1>i, <1>g, <1>s DEF SentInv
<1>a. ASSUME phase \in Busy => phase' \in Busy \cup {"waiting"},
             phase = "waiting" => phase' = "waiting" /\ pending' = pending,
             phase \in Busy \cup {"waiting"},
             \A w \in Handlers : web'[w] = web[w] \/ web'[w].pc # "respond"
      PROVE  AnswerInv'
  BY <1>i, <1>a DEF AnswerInv, Busy
\* A step that leaves all of this alone.
<1>p. ASSUME phase' = phase, phase = "start" => sent' = sent, sent' \subseteq sent \cup pending', pending \subseteq pending',
             phase = "waiting" => pending' = pending,
             \A w \in Handlers : web'[w] = web[w] \/ web'[w].pc # "respond"
      PROVE  SentInv' /\ AnswerInv'
  BY <1>p, <1>s, <1>a, <1>e
<1>1. CASE SetupFails \/ PassThrough \/ WaitExpires
  BY <1>1, <1>e DEF SetupFails, PassThrough, WaitExpires, Busy
<1>2. CASE Setup
  <2>1. /\ phase = "start" /\ phase' = "query" /\ UNCHANGED <<sent, web>>
    BY <1>2 DEF Setup, CanSetUp
  <2> QED
    BY <2>1, <1>s, <1>a DEF Busy
<1>3. CASE QueryEnds \/ QueryAborts
  <2>1. phase = "query" /\ phase' \in {"done", "failed", "persist"} /\ UNCHANGED <<sent, web, pending>>
    BY <1>3 DEF QueryEnds, QueryAborts, EndOfQuery
  <2> QED
    BY <2>1, <1>s, <1>a, <1>e DEF Busy
<1>4. CASE QueryStep
  BY <1>4, <1>p DEF QueryStep
<1>5. ASSUME NEW s \in Slots, NEW x, AskStep(s, x) PROVE SentInv' /\ AnswerInv'
  BY <1>5, <1>p DEF AskStep
<1>6. ASSUME NEW s \in Slots, AddInteraction(s) \/ Preview(s) PROVE SentInv' /\ AnswerInv'
  <2>1. /\ phase = "query" /\ phase' = phase /\ web' = web
        /\ pending \subseteq pending' /\ sent' \subseteq sent \cup pending'
    BY <1>6, <1>b DEF AddInteraction, Preview, CallsInv
  <2> QED
    BY <2>1, <1>p
<1>7. CASE WaitForPendingInteractions
  <2>1. /\ phase = "persist" /\ phase' \in {"failed", "deferred", "handed"} /\ UNCHANGED <<sent, web, pending>>
    BY <1>7 DEF WaitForPendingInteractions, agentVars
  <2> QED
    BY <2>1, <1>s, <1>a, <1>e DEF Busy
<1>8. CASE SendDeferred
  <2>1. /\ phase = "deferred" /\ phase' = "waiting" /\ UNCHANGED <<web, pending>>
        /\ sent' \subseteq sent \cup pending'
    BY <1>8 DEF SendDeferred, agentVars
  <2> QED
    BY <2>1, <1>s, <1>a DEF Busy
<1>9. ASSUME NEW w \in Handlers, NEW r \in sent, NEW d \in DecisionsOn(r), Post(w, r, d)
      PROVE  SentInv' /\ AnswerInv'
  <2>1. /\ UNCHANGED <<phase, pending, sent>> /\ \A v \in Handlers \ {w} : web'[v] = web[v]
        /\ web'[w].pc = "found"
    BY <1>9, <1>b, PostFacts DEF agentVars
  <2> QED
    BY <2>1, <1>p
<1>10. ASSUME NEW r \in sent, Visit(r) PROVE SentInv' /\ AnswerInv'
  BY <1>10, <1>p DEF Visit, agentVars
<1>11. ASSUME NEW w \in Handlers, ConsumeRecord(w) \/ ConsumeUnrecorded(w) PROVE SentInv' /\ AnswerInv'
  <2>0. TakenByRecord(w) \/ TakenByLedger(w)
    BY <1>11, <1>b, ConsumeSteps
  <2>1. PICK accepted \in BOOLEAN : Settles(w, accepted)
    BY <2>0 DEF TakenByRecord, TakenByLedger
  <2>2. /\ UNCHANGED <<phase, pending, sent>>
        /\ \A v \in Handlers \ {w} : web'[v] = web[v]
        /\ \/ web'[w] = Idle
           \/ web'[w].r = web[w].r /\ Accept(web[w].r, web[w].decision)
        /\ web[w].r \in Asked /\ web[w].r \in sent /\ Active(w)
    BY <1>b, <2>1, SettledFacts DEF Settles, Active
  <2>3. CASE web'[w] = Idle
    BY <1>z, <2>2, <2>3, <1>p
  <2>4. CASE web'[w].r = web[w].r /\ Accept(web[w].r, web[w].decision)
    <3>1. ~AcceptedOn(web[w].r)
      BY <1>b, <1>f, <2>0, <2>4, AcceptedFirst
    <3>2. phase \notin Busy
      <4> SUFFICES ASSUME phase \in Busy PROVE FALSE
        OBVIOUS
      <4>1. phase = "start" \/ asked[web[w].r].round < round
        BY <1>b, <2>2 DEF WebInv, Busy
      <4> QED
        BY <1>o, <2>2, <3>1, <4>1
    <3>3. CASE phase # "waiting"
      BY <1>e, <2>2, <3>2, <3>3
    <3>4. CASE phase = "waiting"
      <4>1. web[w].r \in pending
        BY <1>i, <2>2, <3>1, <3>4 DEF SentInv
      <4>2. \A v \in Handlers : web[v].pc # "respond"
        <5> SUFFICES ASSUME NEW v \in Handlers, web[v].pc = "respond" PROVE FALSE
          OBVIOUS
        <5>1. web[v].r = web[w].r
          BY <1>b, <1>i, <3>4, <4>1 DEF AnswerInv, WaitInv
        <5>2. DecidedWith(web[v].r, web[v].decision)
          BY <1>b DEF ResponseInv
        <5> QED
          BY <3>1, <5>1, <5>2 DEF DecidedWith, AcceptedOn
      <4>3. AnswerInv'
        BY <2>2, <2>4, <3>4, <4>1, <4>2 DEF AnswerInv, Busy
      <4>4. SentInv'
        BY <2>2, <3>4, <1>s
      <4> QED
        BY <4>3, <4>4
    <3> QED
      BY <3>3, <3>4
  <2> QED
    BY <2>2, <2>3, <2>4
<1>12. ASSUME NEW w \in Handlers, Respond(w) \/ RespondFails(w) PROVE SentInv' /\ AnswerInv'
  <2>1. /\ UNCHANGED <<sent, pending, accepts>> /\ web' = [web EXCEPT ![w] = Idle] /\ web[w].pc = "respond"
        /\ \/ phase = "waiting" /\ phase' = "start"
           \/ phase' = phase
    BY <1>12, <1>b, RespondFacts DEF agentVars, historyVars
  <2>2. \A v \in Handlers : (web'[v] = web[v] /\ v # w) \/ web'[v] = Idle
    BY <1>t, <2>1
  <2>3. CASE phase' = phase
    BY <1>z, <2>1, <2>2, <2>3, <1>p
  <2>4. CASE phase = "waiting" /\ phase' = "start"
    <3>1. web[w].r \in pending /\ \A v \in Handlers \ {w} : web[v].pc # "respond"
      BY <1>i, <2>1, <2>4 DEF AnswerInv
    <3>2. AnswerInv'
      BY <1>z, <2>2, <2>4, <3>1 DEF AnswerInv
    <3>3. AcceptedOn(web[w].r)
      <4>1. DecidedWith(web[w].r, web[w].decision)
        BY <1>b, <2>1 DEF ResponseInv
      <4> QED
        BY <4>1 DEF DecidedWith, AcceptedOn
    <3>4. \A r \in pending : r = web[w].r
      BY <1>b, <2>4, <3>1 DEF WaitInv
    <3>5. \A r \in sent : AcceptedOn(r)
      BY <1>i, <2>4, <3>3, <3>4 DEF SentInv
    <3>6. SentInv'
      BY <1>g, <2>1, <2>4, <3>5 DEF SentInv
    <3> QED
      BY <3>2, <3>6
  <2> QED
    BY <2>1, <2>3, <2>4
<1>13. ASSUME NEW r \in pending, NEW d \in RepliesTo(r), LoopbackResume(r, d) \/ WhatsAppResume(r, d)
       PROVE  SentInv' /\ AnswerInv'
  <2>1. phase = "handed"
    BY <1>13, <1>b, CompanionFacts
  <2> QED
    BY <1>b, <1>t, <2>1 DEF OwnerInv
<1>14. CASE Tick \/ UNCHANGED vars
  BY <1>14, <1>p DEF Tick, vars, agentVars
<1> QED
  BY <1>1, <1>2, <1>3, <1>4, <1>5, <1>6, <1>7, <1>8, <1>9, <1>10, <1>11, <1>12, <1>13, <1>14,
     <1>b, AskSteps, QuerySteps DEF Next, AgentStep, WebhookStep, CompanionStep

\* What ends a wait is a decision on the request it waits for, while every decision so far
\* is remembered (webhook, consumeWebhookDecision).
LEMMA EndingStep ==
    ASSUME RunInv, FreshInv, [Next]_vars, phase = "waiting", phase' = "start"
    PROVE  payload'.r \in pending \/ \E i \in DOMAIN accepts : now > accepts[i].at + AnsweredMaxAge
<1>b. TypeOK /\ RoundInv /\ WebInv /\ OwnerInv
  BY DEF RunInv, DecisionInv, RoundInv
<1>1. \E w \in Handlers : Respond(w)
  <2>1. ~(SetupFails \/ PassThrough \/ Setup \/ QueryEnds \/ QueryAborts \/ WaitExpires)
    BY DEF SetupFails, PassThrough, Setup, CanSetUp, QueryEnds, QueryAborts, EndOfQuery, WaitExpires
  <2>2. ~QueryStep /\ \A s \in Slots : ~(AddInteraction(s) \/ Preview(s) \/ \E x : AskStep(s, x))
    BY DEF QueryStep, AddInteraction, Preview, AskStep
  <2>3. ~(WaitForPendingInteractions \/ SendDeferred \/ Tick \/ UNCHANGED vars)
    BY DEF WaitForPendingInteractions, SendDeferred, Tick, vars
  <2>4. \A w \in Handlers : ~(ConsumeRecord(w) \/ ConsumeUnrecorded(w) \/ RespondFails(w))
    BY DEF ConsumeRecord, ConsumeUnrecorded, RespondFails
  <2>5. \A r : ~Visit(r) /\ \A w, d : ~Post(w, r, d) /\ ~LoopbackResume(r, d) /\ ~WhatsAppResume(r, d)
    BY DEF Visit, Post, LoopbackResume, WhatsAppResume
  <2> QED
    BY <1>b, <2>1, <2>2, <2>3, <2>4, <2>5, AskSteps, QuerySteps DEF Next, AgentStep, WebhookStep, CompanionStep
<1>2. PICK w \in Handlers : Respond(w)
  BY <1>1
<1>3. web[w].pc = "respond" /\ payload'.r = web[w].r
  BY <1>2 DEF Respond, WebhookPayload
<1>4. CASE Fresh
  <2>1. AnswerInv
    BY <1>b, <1>4 DEF FreshInv, OwnerInv
  <2> QED
    BY <1>3, <2>1 DEF AnswerInv
<1>5. CASE ~Fresh
  <2>1. PICK i \in DOMAIN accepts : ~(now <= accepts[i].at + AnsweredMaxAge)
    BY <1>5 DEF Fresh
  <2>2. accepts[i].at \in Nat /\ now \in Nat /\ AnsweredMaxAge \in Nat
    BY <1>b, AcceptsTyped, SettingsTyped
  <2> QED
    BY <2>1, <2>2
<1> QED
  BY <1>4, <1>5

\* A wait is ended by a decision on the request it waits for, not by a link of an earlier
\* round, as long as every decision so far is remembered (webhook, consumeWebhookDecision).
THEOREM OwnDecisionEnds == Spec => EndsOwnWait
<1>1. RunInv /\ FreshInv /\ [Next]_vars => FreshInv'
  BY FreshStep
<1>2. RunInv /\ FreshInv /\ [Next]_vars =>
        [phase = "waiting" /\ phase' = "start" =>
            \/ payload'.r \in pending
            \/ \E i \in DOMAIN accepts : now > accepts[i].at + AnsweredMaxAge]_vars
  BY EndingStep
<1> QED
  BY <1>1, <1>2, InitFresh, RunsHold, PTL DEF Spec, EndsOwnWait

-----------------------------------------------------------------------------
(***************************************************************************)
(* Forms: what a responder picked is parsed, kept under the name of its    *)
(* question and found again by the call that asks the form once more.      *)
(***************************************************************************)
(* The first key that the map has.                                          *)
LEMMA FirstFound ==
    ASSUME NEW answers, NEW keys, DOMAIN keys \subseteq Nat,
           NEW k \in DOMAIN keys, keys[k] \in DOMAIN answers,
           \A j \in DOMAIN keys : j < k => keys[j] \notin DOMAIN answers
    PROVE  FirstAnswer(answers, keys) = answers[keys[k]]
<1> DEFINE hits == {j \in DOMAIN keys : keys[j] \in DOMAIN answers}
<1>1. k \in hits /\ hits \subseteq Nat /\ \A j \in hits : k <= j
  OBVIOUS
<1>2. FirstAnswer(answers, keys) = answers[keys[Min(hits)]]
  BY <1>1 DEF FirstAnswer
<1> HIDE DEF hits
<1>3. Min(hits) = k
  <2>1. \A j \in hits : (\A i \in hits : j <= i) => j = k
    BY <1>1
  <2> QED BY <1>1, <2>1 DEF Min
<1> QED BY <1>2, <1>3

LEMMA OnlyOne ==
    ASSUME NEW i \in Nat
    PROVE  Max({i}) = i
BY DEF Max

LEMMA OneMore ==
    ASSUME NEW X, NEW a \in Seq(X), NEW b \in Seq(X), Len(b) = 1
    PROVE  a \o b = [k \in 1 .. Len(a) + 1 |-> IF k <= Len(a) THEN a[k] ELSE b[1]]
<1>1. PICK n \in Nat : n = Len(a) + 1 /\ Len(a) \in Nat
  OBVIOUS
<1>2. a \o b \in Seq(X) /\ Len(a \o b) = n
  <2>1. a \o b \in Seq(X) /\ Len(a \o b) = Len(a) + Len(b)
    BY ConcatProperties
  <2> QED BY <1>1, <2>1
<1>3. \A k \in 1 .. n : (a \o b)[k] = IF k <= Len(a) THEN a[k] ELSE b[1]
  <2> SUFFICES ASSUME NEW k \in 1 .. n PROVE (a \o b)[k] = IF k <= Len(a) THEN a[k] ELSE b[1]
    OBVIOUS
  <2>1. (a \o b)[k] = IF k <= Len(a) THEN a[k] ELSE b[k - Len(a)]
    BY <1>1, ConcatProperties
  <2>2. k <= Len(a) \/ k - Len(a) = 1
    BY <1>1
  <2> QED BY <2>1, <2>2
<1>4. PICK c : c = a \o b /\ c \in Seq(X) /\ Len(c) = n
  BY <1>2
<1>5. c = [k \in 1 .. n |-> c[k]]
  <2>1. c \in [1 .. n -> X]
    BY <1>4, LenProperties
  <2> QED BY <2>1
<1>6. [k \in 1 .. n |-> c[k]] = [k \in 1 .. n |-> IF k <= Len(a) THEN a[k] ELSE b[1]]
  BY <1>3, <1>4
<1> QED BY <1>1, <1>4, <1>5, <1>6

(* Labels without commas, joined, are as many parts as labels.              *)
LEMMA Joined ==
    ASSUME NEW X, NEW s \in Seq(Seq(X)), \A k \in DOMAIN s : Len(s[k]) = 1
    PROVE  /\ DOMAIN FlattenSeq(s) = DOMAIN s
           /\ \A k \in DOMAIN s : <<FlattenSeq(s)[k]>> = s[k]
<1> DEFINE n == Len(s)
           Parts(i) == [k \in 1 .. i |-> s[k][1]]
           Is(f) == f = [i \in 1 .. n |-> IF i = 1 THEN s[i] ELSE f[i - 1] \o s[i]]
<1>1. n \in Nat /\ DOMAIN s = 1 .. n
  OBVIOUS
<1>2. ASSUME NEW k \in 1 .. n PROVE s[k] \in Seq(X) /\ Len(s[k]) = 1 /\ <<s[k][1]>> = s[k] /\ s[k][1] \in X
  <2>0. k \in DOMAIN s
    BY <1>1
  <2>1. s[k] \in Seq(X) /\ Len(s[k]) = 1
    <3>1. s[k] \in Seq(X)
      BY <2>0
    <3> QED BY <2>0, <3>1
  <2>2. PICK one : one = s[k] /\ one \in Seq(X) /\ Len(one) = 1
    BY <2>1
  <2>3. one[1] \in X
    BY <2>2
  <2>4. <<one[1]>> = one
    BY <2>2
  <2> QED BY <2>2, <2>3, <2>4
<1>3. \A i \in 1 .. n : Parts(i) \in Seq(X) /\ Len(Parts(i)) = i
  <2> SUFFICES ASSUME NEW i \in 1 .. n PROVE Parts(i) \in Seq(X) /\ Len(Parts(i)) = i
    OBVIOUS
  <2>1. Parts(i) \in [1 .. i -> X]
    BY <1>2
  <2> QED BY <2>1
<1>4. ASSUME NEW i \in 1 .. n, i # 1 PROVE Parts(i - 1) \o s[i] = Parts(i)
  <2>1. /\ i \in Nat /\ i - 1 \in 1 .. n /\ i - 1 \in Nat /\ (i - 1) + 1 = i
        /\ \A k \in 1 .. i : k \in Nat /\ k \in 1 .. n /\ (k \in 1 .. i - 1 \/ k = i)
    <3>1. i \in Nat /\ n \in Nat /\ 1 <= i /\ i <= n
      BY <1>1
    <3>2. i - 1 \in Nat /\ 1 <= i - 1 /\ i - 1 <= n /\ (i - 1) + 1 = i
      BY <1>4, <3>1
    <3>3. ASSUME NEW k \in 1 .. i PROVE k \in Nat /\ k \in 1 .. n /\ (k \in 1 .. i - 1 \/ k = i)
      BY <3>1, <3>2
    <3> QED BY <3>1, <3>2, <3>3
  <2>2. PICK a \in Seq(X) : a = Parts(i - 1) /\ Len(a) = i - 1 /\ \A k \in 1 .. i - 1 : a[k] = s[k][1]
    BY <1>3, <2>1
  <2>3. PICK b \in Seq(X) : b = s[i] /\ Len(b) = 1 /\ b[1] = s[i][1]
    BY <1>2
  <2>4. a \o b = [k \in 1 .. i |-> IF k <= i - 1 THEN a[k] ELSE b[1]]
    <3>1. a \o b = [k \in 1 .. Len(a) + 1 |-> IF k <= Len(a) THEN a[k] ELSE b[1]]
      BY <2>2, <2>3, OneMore
    <3> QED BY <2>1, <2>2, <3>1
  <2>5. \A k \in 1 .. i : (IF k <= i - 1 THEN a[k] ELSE b[1]) = s[k][1]
    BY <2>1, <2>2, <2>3
  <2>6. a \o b = Parts(i)
    BY <2>4, <2>5
  <2> HIDE DEF Parts
  <2> QED BY <2>2, <2>3, <2>6
<1>5. Is([i \in 1 .. n |-> Parts(i)])
  <2>1. n > 0 => Parts(1) = s[1]
    <3> SUFFICES ASSUME n > 0 PROVE Parts(1) = s[1]
      OBVIOUS
    <3>1. <<s[1][1]>> = s[1]
      BY <1>2
    <3>2. Parts(1) = <<s[1][1]>>
      OBVIOUS
    <3> QED BY <3>1, <3>2
  <2>2. \A i \in 1 .. n : Parts(i) = IF i = 1 THEN s[i] ELSE Parts(i - 1) \o s[i]
    <3> HIDE DEF Parts
    <3> QED BY <1>1, <1>4, <2>1
  <2> DEFINE g == [i \in 1 .. n |-> Parts(i)]
  <2>3. \A i \in 1 .. n : i # 1 => g[i - 1] = Parts(i - 1)
    OBVIOUS
  <2>4. \A i \in 1 .. n : Parts(i) = IF i = 1 THEN s[i] ELSE g[i - 1] \o s[i]
    BY <2>2, <2>3
  <2>5. g = [i \in 1 .. n |-> IF i = 1 THEN s[i] ELSE g[i - 1] \o s[i]]
    <3> HIDE DEF Parts
    <3> QED BY <2>4
  <2> QED BY <2>5
<1>6. CASE n = 0
  <2>1. FlattenSeq(s) = s
    BY <1>6 DEF FlattenSeq
  <2> QED BY <1>1, <1>6, <2>1
<1>7. CASE n > 0
  <2>1. PICK f : Is(f) /\ FlattenSeq(s) = f[n]
    <3> DEFINE f == CHOOSE f : Is(f)
    <3>1. Is(f)
      <4> HIDE DEF Is, f
      <4> QED BY <1>5 DEF f
    <3>2. FlattenSeq(s) = f[n]
      BY <1>7 DEF FlattenSeq
    <3> HIDE DEF Is
    <3> QED BY <3>1, <3>2
  <2>2. \A i \in 1 .. n : f[i] = Parts(i)
    <3> DEFINE T == {i \in Nat : i + 1 \in 1 .. n => f[i + 1] = Parts(i + 1)}
    <3>1. 0 \in T
      <4>1. f[1] = s[1]
        BY <1>7, <2>1
      <4>2. Parts(1) = <<s[1][1]>> /\ 1 \in 1 .. n
        BY <1>7
      <4>3. <<s[1][1]>> = s[1]
        BY <1>2, <4>2
      <4>4. f[1] = Parts(1)
        BY <4>1, <4>2, <4>3
      <4> HIDE DEF Parts
      <4> QED BY <4>4
    <3>2. ASSUME NEW i \in Nat, i \in T PROVE i + 1 \in T
      <4> SUFFICES ASSUME (i + 1) + 1 \in 1 .. n PROVE f[(i + 1) + 1] = Parts((i + 1) + 1)
        OBVIOUS
      <4>1. i + 1 \in 1 .. n /\ ((i + 1) + 1) - 1 = i + 1 /\ (i + 1) + 1 # 1
        BY <1>1
      <4>2. f[i + 1] = Parts(i + 1)
        <5> HIDE DEF Parts, Is
        <5> QED BY <3>2, <4>1
      <4>3. f[(i + 1) + 1] = f[i + 1] \o s[(i + 1) + 1]
        <5> HIDE DEF Parts
        <5> QED BY <2>1, <4>1
      <4> HIDE DEF Parts, Is, T
      <4> QED BY <1>4, <4>1, <4>2, <4>3
    <3>3. \A i \in Nat : i \in T
      <4> HIDE DEF T
      <4> QED BY <3>1, <3>2, NatSet
    <3> SUFFICES ASSUME NEW i \in 1 .. n PROVE f[i] = Parts(i)
      OBVIOUS
    <3>4. i - 1 \in Nat /\ (i - 1) + 1 = i
      BY <1>1
    <3> HIDE DEF Parts, Is
    <3> QED BY <3>3, <3>4
  <2>3. FlattenSeq(s) = Parts(n)
    <3> HIDE DEF Parts, Is
    <3> QED BY <1>1, <1>7, <2>1, <2>2
  <2> QED BY <1>1, <1>2, <2>3
<1> QED BY <1>1, <1>6, <1>7

(* What is parsed of a submission is an answer the form has.                *)
LEMMA ParsedFits ==
    ASSUME NEW q \in QuestionDefinition,
           NEW pick \in IF q.options = FreeText THEN Seq(STRING) ELSE Seq(Options(q)),
           q.multiSelect => \A o \in Options(q) : Len(q.options[o].label) = 1,
           ParsedValue(q, pick) # <<>>
    PROVE  IsAnswerCompatible(q, ParsedValue(q, pick))
<1> DEFINE labels == {q.options[o].label : o \in Options(q)}
<1>1. \A o \in Options(q) : q.options[o].label \in Seq(STRING)
  <2> DEFINE Option == [label : Seq(STRING), action : {"none", "resume", "complete"}]
  <2>1. q.options \in Seq(Option)
    BY DEF QuestionDefinition
  <2>2. \A o \in DOMAIN q.options : q.options[o] \in Option
    <3> HIDE DEF Option
    <3> QED BY <2>1, LenProperties, ElementOfSeq
  <2>3. \A option \in Option : option.label \in Seq(STRING)
    OBVIOUS
  <2> HIDE DEF Option
  <2> QED BY <2>2, <2>3 DEF Options
<1>2. CASE q.options = FreeText
  BY <1>2 DEF IsAnswerCompatible
<1>3. CASE q.options # FreeText
  <2>1. pick \in Seq(Options(q)) /\ Len(pick) \in Nat /\ DOMAIN pick = 1 .. Len(pick)
    BY <1>3
  <2>2. PICK s : s = MapSelectionsToLabels(q, pick)
    OBVIOUS
  <2>3. /\ DOMAIN s = 1 .. Len(pick)
        /\ \A k \in 1 .. Len(pick) : pick[k] \in Options(q) /\ s[k] = q.options[pick[k]].label
    BY <2>1, <2>2 DEF MapSelectionsToLabels
  <2>4. s \in Seq(Seq(STRING)) /\ Len(s) = Len(pick)
    <3>1. s = [k \in 1 .. Len(pick) |-> q.options[pick[k]].label]
      BY <2>1, <2>2 DEF MapSelectionsToLabels
    <3>2. s \in [1 .. Len(pick) -> Seq(STRING)]
      BY <1>1, <2>3, <3>1
    <3> QED BY <2>1, <3>2
  <2>5. \A k \in DOMAIN s : s[k] \in labels
    BY <2>3
  <2>6. CASE q.multiSelect
    <3>1. ParsedValue(q, pick) = FlattenSeq(s)
      BY <1>3, <2>2, <2>6 DEF ParsedValue
    <3>2. \A k \in DOMAIN s : Len(s[k]) = 1
      BY <2>3, <2>6
    <3>3. DOMAIN FlattenSeq(s) = DOMAIN s /\ \A k \in DOMAIN s : <<FlattenSeq(s)[k]>> = s[k]
      BY <2>4, <3>2, Joined
    <3>4. \A k \in DOMAIN FlattenSeq(s) : <<FlattenSeq(s)[k]>> \in labels
      BY <2>5, <3>3
    <3> QED BY <2>6, <3>1, <3>4 DEF IsAnswerCompatible
  <2>7. CASE ~q.multiSelect
    <3>1. pick # <<>> /\ ParsedValue(q, pick) = Head(s)
      BY <1>3, <2>2, <2>7 DEF ParsedValue
    <3>2. 1 \in DOMAIN s /\ Head(s) = s[1]
      BY <2>1, <2>3, <2>4, <3>1
    <3> QED BY <2>5, <2>7, <3>1, <3>2 DEF IsAnswerCompatible
  <2> QED BY <2>6, <2>7
<1> QED BY <1>2, <1>3

(* The name an answer is kept under.                                        *)
NameOf(q) == IF q.header = NoName THEN q.text ELSE q.header

LEMMA NamesApart ==
    ASSUME NEW form, Unambiguous(form), NEW i \in DOMAIN form, NEW j \in DOMAIN form
    PROVE  /\ AnswerKey(form[i]) = NameKey(NameOf(form[i]))
           /\ NameOf(form[i]) = NameOf(form[j]) \/ form[i].text = form[j].text => i = j
           /\ form[i].text = NameOf(form[j]) => i = j
<1>1. /\ NameOf(form[i]) \in {form[i].text, form[i].header} \ {NoName}
      /\ NameOf(form[j]) \in {form[j].text, form[j].header} \ {NoName}
      /\ form[i].text # NoName
  BY DEF NameOf, Unambiguous
<1>2. i # j => {form[i].text, form[i].header} \cap {form[j].text, form[j].header} \subseteq {NoName}
  BY DEF Unambiguous
<1> QED BY <1>1, <1>2 DEF AnswerKey, NameOf

LEMMA AnswerKept ==
    ASSUME NEW form \in Seq(QuestionDefinition), Unambiguous(form), NEW picks, NEW i \in DOMAIN form,
           ParsedValue(form[i], picks[i]) # <<>>
    PROVE  LET answers == ParseQuestionAnswers(form, picks) IN
           /\ DOMAIN answers \subseteq {NameKey(NameOf(form[j])) : j \in DOMAIN form}
           /\ NameKey(NameOf(form[i])) \in DOMAIN answers
           /\ answers[NameKey(NameOf(form[i]))] = ParsedValue(form[i], picks[i])
<1> DEFINE given == {j \in DOMAIN form : ParsedValue(form[j], picks[j]) # <<>>}
           Latest(key) == Max({j \in given : AnswerKey(form[j]) = key})
           key == NameKey(NameOf(form[i]))
<1>1. ParseQuestionAnswers(form, picks) =
          [k \in {AnswerKey(form[j]) : j \in given} |-> ParsedValue(form[Latest(k)], picks[Latest(k)])]
  BY DEF ParseQuestionAnswers
<1>2. \A j \in DOMAIN form : AnswerKey(form[j]) = NameKey(NameOf(form[j]))
  BY NamesApart
<1>3. {j \in given : AnswerKey(form[j]) = key} = {i}
  <2>1. \A j \in DOMAIN form : AnswerKey(form[j]) = key => j = i
    <3> SUFFICES ASSUME NEW j \in DOMAIN form, NameKey(NameOf(form[j])) = NameKey(NameOf(form[i])) PROVE j = i
      BY <1>2
    <3>1. NameOf(form[j]) = NameOf(form[i])
      BY DEF NameKey
    <3> QED BY <3>1, NamesApart
  <2> QED BY <1>2, <2>1
<1>4. Latest(key) = i
  <2>1. i \in Nat
    OBVIOUS
  <2> QED BY <1>3, <2>1, OnlyOne
<1>5. key \in {AnswerKey(form[j]) : j \in given}
  BY <1>2
<1>6. ParseQuestionAnswers(form, picks)[key] = ParsedValue(form[i], picks[i])
  <2> HIDE DEF Latest, given, key
  <2> QED BY <1>1, <1>4, <1>5
<1>7. DOMAIN ParseQuestionAnswers(form, picks) = {AnswerKey(form[j]) : j \in given}
  BY <1>1
<1> QED BY <1>2, <1>5, <1>6, <1>7

LEMMA TwoInOrder == ASSUME NEW a, NEW b PROVE <<a>> \o <<b>> = <<a, b>>
<1> DEFINE S == {a, b}
<1>1. <<a>> \in Seq(S) /\ <<b>> \in Seq(S) /\ <<a, b>> \in Seq(S)
  OBVIOUS
<1>2. /\ <<a>> \o <<b>> \in Seq(S) /\ Len(<<a>> \o <<b>>) = 2
      /\ \A i \in 1 .. 2 : (<<a>> \o <<b>>)[i] = IF i <= 1 THEN <<a>>[i] ELSE <<b>>[i - 1]
  <2> HIDE DEF S
  <2> QED BY <1>1, ConcatProperties
<1>3. \A i \in 1 .. 2 : (<<a>> \o <<b>>)[i] = <<a, b>>[i]
  BY <1>2
<1> HIDE DEF S
<1> QED BY <1>1, <1>2, <1>3, SeqEqual

LEMMA FourInOrder == ASSUME NEW a, NEW b, NEW c, NEW d PROVE <<a, b, c>> \o <<d>> = <<a, b, c, d>>
<1> DEFINE S == {a, b, c, d}
<1>1. <<a, b, c>> \in Seq(S) /\ <<d>> \in Seq(S) /\ <<a, b, c, d>> \in Seq(S)
  OBVIOUS
<1>2. /\ <<a, b, c>> \o <<d>> \in Seq(S) /\ Len(<<a, b, c>> \o <<d>>) = 4
      /\ \A i \in 1 .. 4 : (<<a, b, c>> \o <<d>>)[i] = IF i <= 3 THEN <<a, b, c>>[i] ELSE <<d>>[i - 3]
  <2> HIDE DEF S
  <2> QED BY <1>1, ConcatProperties
<1>3. \A i \in 1 .. 4 : (<<a, b, c>> \o <<d>>)[i] = <<a, b, c, d>>[i]
  BY <1>2
<1> HIDE DEF S
<1> QED BY <1>1, <1>2, <1>3, SeqEqual

LEMMA AnswerFound ==
    ASSUME NEW form \in Seq(QuestionDefinition), Unambiguous(form), NEW picks, NEW i \in DOMAIN form,
           ParsedValue(form[i], picks[i]) # <<>>
    PROVE  FirstAnswer(ParseQuestionAnswers(form, picks), QueuedKeys(form[i], i)) = ParsedValue(form[i], picks[i])
<1> DEFINE answers == ParseQuestionAnswers(form, picks)
           q == form[i]
           keys == QueuedKeys(q, i)
<1>1. /\ DOMAIN answers \subseteq {NameKey(NameOf(form[j])) : j \in DOMAIN form}
      /\ NameKey(NameOf(q)) \in DOMAIN answers
      /\ answers[NameKey(NameOf(q))] = ParsedValue(q, picks[i])
  BY AnswerKept
<1>2. NameKey(q.text) \in DOMAIN answers => q.text = NameOf(q)
  <2> SUFFICES ASSUME NameKey(q.text) \in DOMAIN answers PROVE q.text = NameOf(q)
    OBVIOUS
  <2>1. PICK j \in DOMAIN form : NameKey(q.text) = NameKey(NameOf(form[j]))
    BY <1>1
  <2>2. q.text = NameOf(form[j])
    BY <2>1 DEF NameKey
  <2> QED BY <2>2, NamesApart
<1> HIDE DEF answers
<1>3. CASE q.header = NoName
  <2>1. keys = <<NameKey(q.text), FieldKey(i)>> /\ NameOf(q) = q.text
    <3>1. keys = <<NameKey(q.text)>> \o <<FieldKey(i)>>
      BY <1>3 DEF QueuedKeys
    <3>2. NameOf(q) = q.text
      BY <1>3 DEF NameOf
    <3> DEFINE a == NameKey(q.text)
               b == FieldKey(i)
    <3> HIDE DEF a, b, keys
    <3>3. <<a>> \o <<b>> = <<a, b>>
      BY TwoInOrder
    <3> QED BY <3>1, <3>2, <3>3 DEF a, b
  <2>2. DOMAIN keys = 1 .. 2 /\ keys[1] = NameKey(NameOf(q))
    BY <2>1
  <2> HIDE DEF keys
  <2>3. FirstAnswer(answers, keys) = answers[keys[1]]
    BY <1>1, <2>2, FirstFound
  <2> QED BY <1>1, <2>2, <2>3 DEF answers, keys
<1>4. CASE q.header # NoName
  <2>1. keys = <<NameKey(q.text), NameKey(q.header), BothKey(q), FieldKey(i)>> /\ NameOf(q) = q.header
    <3>1. keys = <<NameKey(q.text), NameKey(q.header), BothKey(q)>> \o <<FieldKey(i)>>
      BY <1>4 DEF QueuedKeys
    <3>2. NameOf(q) = q.header
      BY <1>4 DEF NameOf
    <3>3. <<NameKey(q.text), NameKey(q.header), BothKey(q)>> \o <<FieldKey(i)>>
            = <<NameKey(q.text), NameKey(q.header), BothKey(q), FieldKey(i)>>
      <4> DEFINE a == NameKey(q.text)
                 b == NameKey(q.header)
                 c == BothKey(q)
                 d == FieldKey(i)
      <4> HIDE DEF a, b, c, d, keys
      <4>1. <<a, b, c>> \o <<d>> = <<a, b, c, d>>
        BY FourInOrder
      <4> QED BY <4>1 DEF a, b, c, d
    <3> HIDE DEF keys
    <3> QED BY <3>1, <3>2, <3>3
  <2>2. DOMAIN keys = 1 .. 4 /\ keys[1] = NameKey(q.text) /\ keys[2] = NameKey(NameOf(q))
    BY <2>1
  <2> HIDE DEF keys
  <2>3. CASE NameKey(q.text) \in DOMAIN answers
    <3>1. keys[1] = NameKey(NameOf(q))
      BY <1>2, <2>2, <2>3
    <3>2. FirstAnswer(answers, keys) = answers[keys[1]]
      BY <1>1, <2>2, <3>1, FirstFound
    <3> QED BY <1>1, <3>1, <3>2 DEF answers, keys
  <2>4. CASE NameKey(q.text) \notin DOMAIN answers
    <3>1. \A j \in DOMAIN keys : j < 2 => keys[j] \notin DOMAIN answers
      BY <2>2, <2>4
    <3>2. FirstAnswer(answers, keys) = answers[keys[2]]
      BY <1>1, <2>2, <3>1, FirstFound
    <3> QED BY <1>1, <2>2, <3>2 DEF answers, keys
  <2> QED BY <2>3, <2>4
<1> QED BY <1>3, <1>4

(* The form asked again is answered with what was picked.                   *)
LEMMA FormAnswered ==
    ASSUME NEW form, IsForm(form), NEW picks, IsSubmission(form, picks), Unambiguous(form), CommaFree(form),
           NEW text \in DOMAIN Picked(form, picks), Picked(form, picks)[text] # <<>>
    PROVE  LET mapped == MappedAnswers(form, ParseQuestionAnswers(form, picks)) IN
           text \in DOMAIN mapped /\ mapped[text] = Picked(form, picks)[text]
<1> DEFINE answers == ParseQuestionAnswers(form, picks)
           Found(j) == FirstAnswer(answers, QueuedKeys(form[j], j))
           good == {j \in DOMAIN form : Found(j) # <<>> /\ IsAnswerCompatible(form[j], Found(j))}
           Latest(t) == Max({j \in good : form[j].text = t})
<1>1. form \in Seq(QuestionDefinition) /\ \A j \in DOMAIN form : form[j] \in QuestionDefinition /\ j \in Nat
  BY DEF IsForm
<1>2. PICK i \in DOMAIN form : form[i].text = text
  BY DEF Picked
<1>3. \A j \in DOMAIN form : form[j].text = text => j = i
  BY <1>2, NamesApart
<1>4. Picked(form, picks)[text] = ParsedValue(form[i], picks[i])
  <2>1. (CHOOSE j \in DOMAIN form : form[j].text = text) = i
    BY <1>2, <1>3
  <2> QED BY <2>1 DEF Picked
<1>5. Found(i) = ParsedValue(form[i], picks[i])
  BY <1>1, <1>4, AnswerFound
<1>6. i \in good
  <2>1. picks[i] \in IF form[i].options = FreeText THEN Seq(STRING) ELSE Seq(Options(form[i]))
    BY DEF IsSubmission
  <2>2. form[i].multiSelect => \A o \in Options(form[i]) : Len(form[i].options[o].label) = 1
    BY DEF CommaFree
  <2>3. IsAnswerCompatible(form[i], ParsedValue(form[i], picks[i]))
    BY <1>1, <1>4, <2>1, <2>2, ParsedFits
  <2> QED BY <1>4, <1>5, <2>3
<1>7. MappedAnswers(form, answers) = [t \in {form[j].text : j \in good} |-> Found(Latest(t))]
  BY DEF MappedAnswers
<1>8. {j \in good : form[j].text = text} = {i}
  BY <1>2, <1>3, <1>6
<1>9. Latest(text) = i
  BY <1>1, <1>8, OnlyOne
<1>10. text \in {form[j].text : j \in good}
  BY <1>2, <1>6
<1> HIDE DEF answers, Found, good, Latest
<1> QED BY <1>4, <1>5, <1>7, <1>9, <1>10 DEF answers

(***************************************************************************)
(* The answer that waits for its form was parsed from a submission of it.  *)
(***************************************************************************)
ParsedAnswer ==
    queuedAnswer.there /\ queuedAnswer.via = "form" =>
        /\ queuedAnswer.form \in Forms /\ queuedAnswer.picks \in PicksOf[queuedAnswer.form]
        /\ queuedAnswer.answers = ParseQuestionAnswers(queuedAnswer.form, queuedAnswer.picks)
AnsweredForm == ParsedAnswer /\ (payload.decision.kind # "none" => payload.there)

LEMMA InitAnswers == Init => AnsweredForm
BY DEF Init, AnsweredForm, ParsedAnswer, NoAnswer, NoPayload, NoDecision

LEMMA AnswersStep == TypeOK /\ RoundInv /\ AnsweredForm /\ [Next]_vars => AnsweredForm'
<1> SUFFICES ASSUME TypeOK, RoundInv, AnsweredForm, [Next]_vars PROVE AnsweredForm'
  OBVIOUS
<1>p. ASSUME queuedAnswer' \in {queuedAnswer, NoAnswer}, payload' = payload PROVE AnsweredForm'
  BY <1>p DEF AnsweredForm, ParsedAnswer, NoAnswer
<1>q. ASSUME queuedAnswer' = queuedAnswer, payload'.there PROVE AnsweredForm'
  BY <1>q DEF AnsweredForm, ParsedAnswer
<1>1. CASE SetupFails \/ PassThrough \/ WaitExpires
  BY <1>1, <1>p DEF SetupFails, PassThrough, WaitExpires, agentVars
<1>2. CASE Setup
  <2>1. payload' = NoPayload
    BY <1>2 DEF Setup
  <2>2. CASE payload.decision.kind = "question"
    <3>1. queuedAnswer' = AnswerOf(payload) /\ Fits(payload.r, payload.decision)
      BY <1>2, <2>2 DEF Setup, AnsweredForm, RoundInv, PayloadInv
    <3>2. asked[payload.r].form \in Forms /\ payload.decision.picks \in PicksOf[asked[payload.r].form]
      BY <2>2, <3>1, AskedTyped DEF Fits, Interaction
    <3>3. payload.decision.via = "form" =>
              AnswersGiven(asked[payload.r].form, payload.decision)
                  = ParseQuestionAnswers(asked[payload.r].form, payload.decision.picks)
      BY DEF AnswersGiven
    <3> QED BY <2>1, <3>1, <3>2, <3>3 DEF AnsweredForm, ParsedAnswer, AnswerOf, NoPayload, NoDecision
  <2>3. CASE payload.decision.kind # "question"
    <3>1. queuedAnswer' = NoAnswer
      BY <1>2, <2>3 DEF Setup
    <3> QED BY <2>1, <3>1 DEF AnsweredForm, ParsedAnswer, NoAnswer, NoPayload, NoDecision
  <2> QED BY <2>2, <2>3
<1>3. CASE QueryEnds \/ QueryAborts
  BY <1>3, <1>p DEF QueryEnds, QueryAborts, EndOfQuery
<1>4. ASSUME NEW c \in Calls, RunStep(c) PROVE AnsweredForm'
  BY <1>4, <1>p DEF RunStep, RunUnasked, ResolveQueued, RunApproved, RunByRules, agentVars
<1>5. ASSUME NEW s \in Slots, NEW c \in Calls, AskApproval(s, c) PROVE AnsweredForm'
  BY <1>5, <1>p DEF AskApproval
<1>6. ASSUME NEW s \in Slots, NEW f \in Forms, AskQuestion(s, f) PROVE AnsweredForm'
  BY <1>6, <1>p DEF AskQuestion
<1>6a. ASSUME NEW f \in Forms, AnswerQuestion(f) PROVE AnsweredForm'
  BY <1>6a, <1>p DEF AnswerQuestion
<1>7. ASSUME NEW s \in Slots, AddInteraction(s) \/ Preview(s) PROVE AnsweredForm'
  BY <1>7, <1>p DEF AddInteraction, Preview
<1>8. CASE WaitForPendingInteractions \/ SendDeferred
  BY <1>8, <1>p DEF WaitForPendingInteractions, SendDeferred, agentVars
<1>9. ASSUME NEW w \in Handlers, NEW r \in sent, NEW d \in DecisionsOn(r), Post(w, r, d) PROVE AnsweredForm'
  BY <1>9, <1>p DEF Post, agentVars
<1>10. ASSUME NEW r \in sent, Visit(r) PROVE AnsweredForm'
  BY <1>10, <1>p DEF Visit, agentVars
<1>11. ASSUME NEW w \in Handlers, ConsumeRecord(w) \/ ConsumeUnrecorded(w) PROVE AnsweredForm'
  BY <1>11, <1>p DEF ConsumeRecord, ConsumeUnrecorded, agentVars
<1>12. ASSUME NEW w \in Handlers, Respond(w) \/ RespondFails(w) PROVE AnsweredForm'
  <2>1. queuedAnswer' = queuedAnswer /\ (payload' = payload \/ payload' = WebhookPayload(web[w]))
    BY <1>12 DEF Respond, RespondFails, agentVars
  <2> QED BY <2>1, <1>p, <1>q DEF WebhookPayload
<1>13. ASSUME NEW r \in pending, NEW d \in RepliesTo(r), LoopbackResume(r, d) \/ WhatsAppResume(r, d)
       PROVE  AnsweredForm'
  BY <1>13, <1>q, CompanionFacts DEF agentVars
<1>14. CASE Tick
  BY <1>14, <1>p DEF Tick, agentVars
<1>15. CASE UNCHANGED vars
  BY <1>15, <1>p DEF vars, agentVars
<1> QED
  BY <1>1, <1>2, <1>3, <1>4, <1>5, <1>6, <1>6a, <1>7, <1>8, <1>9, <1>10, <1>11, <1>12, <1>13, <1>14, <1>15
     DEF Next, AgentStep, WebhookStep, CompanionStep, RunStep

(***************************************************************************)
(* What was picked on a form is what the agent finds when it asks the form *)
(* again: parseQuestionAnswers keeps each answer under a name that         *)
(* resolveQueuedAnswerForQuestion looks up first, whatever the questions,  *)
(* options and submissions are.                                            *)
(***************************************************************************)
THEOREM FormAnswersAreUsed == Spec => []FormAnswerIsUsed
<1>1. AnsweredForm => FormAnswerIsUsed
  <2> SUFFICES ASSUME AnsweredForm, queuedAnswer.there, queuedAnswer.via = "form",
                      Unambiguous(queuedAnswer.form), CommaFree(queuedAnswer.form),
                      NEW text \in DOMAIN Picked(queuedAnswer.form, queuedAnswer.picks),
                      Picked(queuedAnswer.form, queuedAnswer.picks)[text] # <<>>
               PROVE  LET mapped == MappedAnswers(queuedAnswer.form, queuedAnswer.answers) IN
                      /\ text \in DOMAIN mapped
                      /\ mapped[text] = Picked(queuedAnswer.form, queuedAnswer.picks)[text]
    BY DEF FormAnswerIsUsed
  <2>1. /\ IsForm(queuedAnswer.form) /\ IsSubmission(queuedAnswer.form, queuedAnswer.picks)
        /\ queuedAnswer.answers = ParseQuestionAnswers(queuedAnswer.form, queuedAnswer.picks)
    BY FormsAssumption DEF AnsweredForm, ParsedAnswer
  <2> QED BY <2>1, FormAnswered
<1>2. Spec => []AnsweredForm
  <2>1. Init => AnsweredForm
    BY InitAnswers
  <2>2. TypeOK /\ RoundInv /\ AnsweredForm /\ [Next]_vars => AnsweredForm'
    BY AnswersStep
  <2>3. Spec => [](TypeOK /\ RoundInv)
    <3>1. DecisionInv => TypeOK /\ RoundInv
      BY DEF DecisionInv
    <3> QED BY <3>1, DecisionsHold, PTL
  <2> QED BY <2>1, <2>2, <2>3, PTL DEF Spec
<1> QED BY <1>1, <1>2, PTL

=============================================================================
