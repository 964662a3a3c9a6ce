--------------------------- MODULE InteractionStore ---------------------------
(***************************************************************************)
(* The interaction store of the Claude Agent SDK node (hitl/               *)
(* interactionStore.ts, in the workflow's static data) and the decision    *)
(* ledger of its webhook (node/webhookHelpers.ts), which takes decisions   *)
(* on requests that have no record.  Both are values here: an operation    *)
(* maps a store to a store.  Every operation of the store first drops what *)
(* has expired.                                                            *)
(***************************************************************************)
EXTENDS Naturals

CONSTANTS AnsweredMaxAge,  \* DEFAULT_ANSWERED_MAX_AGE_MS, also the ledger's time to live
          PendingMaxAge    \* MAX_PENDING_MAX_AGE_MS

ASSUME AgesAssumption == AnsweredMaxAge \in Nat /\ PendingMaxAge \in Nat

NoKey == <<>>
NoRecord == [status |-> "none", kind |-> "none", createdAt |-> 0, timeout |-> 0, fps |-> {},
             answeredAt |-> 0, key |-> NoKey]
NoEntry == [there |-> FALSE, key |-> NoKey, consumedAt |-> 0]

\* A timeout of zero stands for the default age.
MaxAge(record) ==
    LET age == IF record.timeout = 0 THEN AnsweredMaxAge ELSE record.timeout
    IN  IF record.status = "answered" THEN AnsweredMaxAge
        ELSE IF age <= PendingMaxAge THEN age ELSE PendingMaxAge
AgeFrom(record) == IF record.status = "answered" THEN record.answeredAt ELSE record.createdAt
Expired(record, now) == now > AgeFrom(record) + MaxAge(record)

CleanupExpired(store, now) ==
    [r \in DOMAIN store |-> IF store[r].status # "none" /\ Expired(store[r], now)
                            THEN NoRecord ELSE store[r]]

\* saveInteraction: what is answered stays, what is pending is replaced.
SaveInteraction(store, now, r, record) ==
    LET clean == CleanupExpired(store, now)
    IN  [clean EXCEPT ![r] = IF @.status = "answered" THEN @ ELSE record]

\* Mutant: an answer already given is replaced by the next.
ConsumeOutcomeReplacing(store, now, r, kind, key) ==
    LET found == CleanupExpired(store, now)[r]
    IN  CASE found.status = "none" -> "missing"
          [] found.status # "none" /\ found.kind # kind -> "conflict"
          [] OTHER -> "accepted"

(***************************************************************************)
(* consumeApprovalDecision and consumeQuestionDecision, which differ in    *)
(* the kind of record they take: the outcome and the store after it.       *)
(***************************************************************************)
ConsumeOutcome(store, now, r, kind, key) ==
    LET found == CleanupExpired(store, now)[r]
    IN  CASE found.status = "none"                             -> "missing"
          [] found.status # "none" /\ found.kind # kind        -> "conflict"
          [] found.kind = kind /\ found.status = "answered"    ->
                IF found.key = key THEN "duplicate" ELSE "conflict"
          [] OTHER                                             -> "accepted"

Consume(store, now, r, kind, key) ==
    LET clean == CleanupExpired(store, now)
    IN  IF ConsumeOutcome(store, now, r, kind, key) # "accepted" THEN clean
        ELSE [clean EXCEPT ![r].status = "answered", ![r].answeredAt = now, ![r].key = key]
-----------------------------------------------------------------------------
\* consumeWebhookDecision: entries older than the time to live go first.
PurgeLedger(ledger, now) ==
    [r \in DOMAIN ledger |-> IF ledger[r].there /\ now > ledger[r].consumedAt + AnsweredMaxAge
                             THEN NoEntry ELSE ledger[r]]

LedgerOutcome(ledger, now, r, key) ==
    LET found == PurgeLedger(ledger, now)[r]
    IN  IF ~found.there THEN "accepted" ELSE IF found.key = key THEN "duplicate" ELSE "conflict"

\* Mutant: the decision is not entered.
LedgerUnwritten(ledger, now, r, key) == PurgeLedger(ledger, now)

ConsumeLedger(ledger, now, r, key) ==
    LET clean == PurgeLedger(ledger, now)
    IN  IF clean[r].there THEN clean
        ELSE [clean EXCEPT ![r] = [there |-> TRUE, key |-> key, consumedAt |-> now]]
-----------------------------------------------------------------------------
(***************************************************************************)
(* createHitlInteractionStoreHandle: the node refuses a Postgres           *)
(* credential of its own, and static data in queue mode.                   *)
(***************************************************************************)
StoreAvailable(host) == ~host.credential /\ ~host.queueMode
=============================================================================
